------------------------- MODULE DistributionProofs -------------------------
(***************************************************************************)
(* Theorems about Distribution, for any number of holders, balances,       *)
(* chains and classifications: that Compute gives the metrics their        *)
(* definitions, for every list of balances, and what an answer covers.     *)
(***************************************************************************)
EXTENDS Distribution, FiniteSetTheorems, SequenceTheorems, WellFoundedInduction, TLAPS

-----------------------------------------------------------------------------
(* Induction.                                                              *)

\* Induction up to n: a set that has 0 and the successor of each of its members below n
\* has n.  The proof looks at the least number missing.
LEMMA UpTo ==
  ASSUME NEW n \in Nat, NEW I, 0 \in I, \A k \in 0 .. n - 1 : k \in I => k + 1 \in I
  PROVE  \A k \in 0 .. n : k \in I
<1> SUFFICES ASSUME NEW b \in 0 .. n, b \notin I PROVE FALSE
  OBVIOUS
<1> DEFINE Missing == {k \in 0 .. n : k \notin I}
<1>1. PICK m \in Missing : \A k \in Missing : m <= k
  <2>1. Missing \in SUBSET Nat /\ b \in Missing
    OBVIOUS
  <2>2. IsWellFoundedOn(OpToRel(<, Nat), Nat)
    BY NatLessThanWellFounded
  <2>3. PICK m \in Missing : \A k \in Missing : ~(<<k, m>> \in OpToRel(<, Nat))
    <3> HIDE DEF Missing
    <3> QED BY <2>1, <2>2, WFMin
  <2>4. OpToRel(<, Nat) = {p \in Nat \X Nat : p[1] < p[2]}
    BY DEF OpToRel
  <2>5. \A k \in Nat : k < m => <<k, m>> \in OpToRel(<, Nat)
    <3>1. \A k \in Nat : k < m => <<k, m>> \in {p \in Nat \X Nat : p[1] < p[2]}
      BY <2>1, <2>3
    <3> QED BY <3>1, <2>4, Zenon
  <2>6. ASSUME NEW k \in Missing PROVE m <= k
    <3>1. k \in Nat /\ m \in Nat
      OBVIOUS
    <3>2. ~(<<k, m>> \in OpToRel(<, Nat))
      BY <2>3
    <3>3. ~(k < m)
      BY <2>5, <3>1, <3>2, Zenon
    <3> QED BY <3>1, <3>3
  <2> QED BY <2>6
<1>2. m - 1 \in 0 .. n - 1 /\ m - 1 \notin Missing
  BY <1>1
<1> QED BY <1>1, <1>2

-----------------------------------------------------------------------------
(* Sums.                                                                   *)

\* The recursive function of SumTo, which is a CHOOSE, has one solution.
IsSum(f, x, n) == f = [k \in 0 .. n |-> IF k = 0 THEN 0 ELSE f[k - 1] + x[k]]

LEMMA SumIsLoop ==
  ASSUME NEW x, NEW n
  PROVE  SumTo(x, n) = (CHOOSE f : IsSum(f, x, n))[n]
BY DEF SumTo, IsSum

\* The loop has a solution and only one.
LEMMA SumExists ==
  ASSUME NEW x, NEW n \in Nat
  PROVE  \E f : IsSum(f, x, n)
<1> DEFINE I == {k \in 0 .. n : \E f : IsSum(f, x, k)}
<1>1. 0 \in I
  <2>1. IsSum([k \in 0 .. 0 |-> 0], x, 0)
    BY DEF IsSum
  <2> QED BY <2>1
<1>2. ASSUME NEW k \in 0 .. n - 1, k \in I
      PROVE  k + 1 \in I
  <2>1. PICK f : IsSum(f, x, k)
    BY <1>2
  <2> DEFINE g == [j \in 0 .. k + 1 |-> IF j = k + 1 THEN f[k] + x[k + 1] ELSE f[j]]
  <2>2. ASSUME NEW j \in 0 .. k + 1
        PROVE  g[j] = IF j = 0 THEN 0 ELSE g[j - 1] + x[j]
    <3>1. CASE j = k + 1
      BY <3>1
    <3>2. CASE j # k + 1
      <4>1. j \in 0 .. k /\ (j # 0 => j - 1 \in 0 .. k)
        BY <3>2
      <4> QED BY <2>1, <4>1 DEF IsSum
    <3> QED BY <3>1, <3>2
  <2>3. IsSum(g, x, k + 1)
    <3>1. g = [j \in 0 .. k + 1 |-> g[j]]
      OBVIOUS
    <3> HIDE DEF g
    <3> QED BY <2>2, <3>1 DEF IsSum
  <2> QED BY <2>3
<1> HIDE DEF I
<1>3. n \in I
  BY <1>1, <1>2, UpTo
<1> QED BY <1>3 DEF I

LEMMA SumUnique ==
  ASSUME NEW x, NEW n \in Nat, NEW m \in Nat, n <= m, NEW f, NEW g, IsSum(f, x, n), IsSum(g, x, m)
  PROVE  \A k \in 0 .. n : f[k] = g[k]
<1> DEFINE I == {k \in 0 .. n : f[k] = g[k]}
<1>1. 0 \in I
  <2>1. 0 \in 0 .. n /\ 0 \in 0 .. m
    OBVIOUS
  <2> QED BY <2>1 DEF IsSum
<1>2. ASSUME NEW k \in 0 .. n - 1, k \in I
      PROVE  k + 1 \in I
  <2>1. k + 1 \in 0 .. n /\ k + 1 \in 0 .. m /\ k + 1 # 0 /\ (k + 1) - 1 = k
    OBVIOUS
  <2>2. f[k + 1] = f[k] + x[k + 1] /\ g[k + 1] = g[k] + x[k + 1]
    BY <2>1 DEF IsSum
  <2> QED BY <1>2, <2>1, <2>2
<1> HIDE DEF I
<1>3. \A k \in 0 .. n : k \in I
  BY <1>1, <1>2, UpTo
<1> QED BY <1>3 DEF I

\* The sum of nothing, and of one entry more.
LEMMA SumZero == \A x : SumTo(x, 0) = 0
<1> TAKE x
<1>1. PICK f : f = (CHOOSE h : IsSum(h, x, 0)) /\ IsSum(f, x, 0)
  BY SumExists
<1>2. f[0] = 0
  BY <1>1 DEF IsSum
<1> QED BY <1>1, <1>2, SumIsLoop

LEMMA SumStep ==
  ASSUME NEW x, NEW n \in Nat
  PROVE  SumTo(x, n + 1) = SumTo(x, n) + x[n + 1]
<1>1. PICK f : f = (CHOOSE h : IsSum(h, x, n)) /\ IsSum(f, x, n)
  BY SumExists
<1>2. PICK g : g = (CHOOSE h : IsSum(h, x, n + 1)) /\ IsSum(g, x, n + 1)
  BY SumExists
<1>3. f[n] = g[n]
  BY <1>1, <1>2, SumUnique
<1>4. g[n + 1] = g[n] + x[n + 1]
  BY <1>2 DEF IsSum
<1> QED BY <1>1, <1>2, <1>3, <1>4, SumIsLoop

\* A sum is that of its entries, whatever lies beyond them.
LEMMA SumEq ==
  ASSUME NEW x, NEW y, NEW n \in Nat, \A i \in 1 .. n : x[i] = y[i]
  PROVE  SumTo(x, n) = SumTo(y, n)
<1> DEFINE I == {k \in 0 .. n : SumTo(x, k) = SumTo(y, k)}
<1>1. 0 \in I
  BY SumZero
<1>2. ASSUME NEW k \in 0 .. n - 1, k \in I
      PROVE  k + 1 \in I
  <2>1. k \in Nat /\ k + 1 \in 1 .. n /\ k + 1 \in 0 .. n
    OBVIOUS
  <2> QED BY <1>2, <2>1, SumStep
<1> HIDE DEF I
<1>3. \A k \in 0 .. n : k \in I
  BY <1>1, <1>2, UpTo
<1> QED BY <1>3 DEF I

\* Partial sums of integers are integers.
LEMMA SumInt ==
  ASSUME NEW x, NEW n \in Nat, \A i \in 1 .. n : x[i] \in Int
  PROVE  \A k \in 0 .. n : SumTo(x, k) \in Int
<1> DEFINE I == {k \in 0 .. n : SumTo(x, k) \in Int}
<1>1. 0 \in I
  BY SumZero
<1>2. ASSUME NEW k \in 0 .. n - 1, k \in I
      PROVE  k + 1 \in I
  <2>1. k \in Nat /\ k + 1 \in 1 .. n /\ k + 1 \in 0 .. n
    OBVIOUS
  <2> QED BY <1>2, <2>1, SumStep
<1> HIDE DEF I
<1>3. \A k \in 0 .. n : k \in I
  BY <1>1, <1>2, UpTo
<1> QED BY <1>3 DEF I

\* Sums of sums, of differences and of multiples.
LEMMA SumPlus ==
  ASSUME NEW x, NEW y, NEW z, NEW n \in Nat,
         \A i \in 1 .. n : x[i] \in Int /\ y[i] \in Int /\ z[i] = x[i] + y[i]
  PROVE  SumTo(z, n) = SumTo(x, n) + SumTo(y, n)
<1> DEFINE I == {k \in 0 .. n : SumTo(z, k) = SumTo(x, k) + SumTo(y, k)}
<1>0. \A k \in 0 .. n : SumTo(x, k) \in Int /\ SumTo(y, k) \in Int
  <2>1. (\A i \in 1 .. n : x[i] \in Int) /\ (\A i \in 1 .. n : y[i] \in Int)
    OBVIOUS
  <2> QED BY <2>1, SumInt
<1>1. 0 \in I
  BY SumZero
<1>2. ASSUME NEW k \in 0 .. n - 1, k \in I
      PROVE  k + 1 \in I
  <2>1. k \in Nat /\ k + 1 \in 1 .. n /\ k + 1 \in 0 .. n
    OBVIOUS
  <2>2. SumTo(x, k) \in Int /\ SumTo(y, k) \in Int
    BY <1>0, <2>1
  <2>3. /\ SumTo(x, k + 1) = SumTo(x, k) + x[k + 1]
        /\ SumTo(y, k + 1) = SumTo(y, k) + y[k + 1]
        /\ SumTo(z, k + 1) = SumTo(z, k) + z[k + 1]
    BY <2>1, SumStep
  <2> QED BY <1>2, <2>1, <2>2, <2>3
<1> HIDE DEF I
<1>3. \A k \in 0 .. n : k \in I
  BY <1>1, <1>2, UpTo
<1> QED BY <1>3 DEF I

LEMMA SumMinus ==
  ASSUME NEW x, NEW y, NEW z, NEW n \in Nat,
         \A i \in 1 .. n : x[i] \in Int /\ y[i] \in Int /\ z[i] = x[i] - y[i]
  PROVE  SumTo(z, n) = SumTo(x, n) - SumTo(y, n)
<1> DEFINE I == {k \in 0 .. n : SumTo(z, k) = SumTo(x, k) - SumTo(y, k)}
<1>0. \A k \in 0 .. n : SumTo(x, k) \in Int /\ SumTo(y, k) \in Int
  <2>1. (\A i \in 1 .. n : x[i] \in Int) /\ (\A i \in 1 .. n : y[i] \in Int)
    OBVIOUS
  <2> QED BY <2>1, SumInt
<1>1. 0 \in I
  BY SumZero
<1>2. ASSUME NEW k \in 0 .. n - 1, k \in I
      PROVE  k + 1 \in I
  <2>1. k \in Nat /\ k + 1 \in 1 .. n /\ k + 1 \in 0 .. n
    OBVIOUS
  <2>2. SumTo(x, k) \in Int /\ SumTo(y, k) \in Int
    BY <1>0, <2>1
  <2>3. /\ SumTo(x, k + 1) = SumTo(x, k) + x[k + 1]
        /\ SumTo(y, k + 1) = SumTo(y, k) + y[k + 1]
        /\ SumTo(z, k + 1) = SumTo(z, k) + z[k + 1]
    BY <2>1, SumStep
  <2> QED BY <1>2, <2>1, <2>2, <2>3
<1> HIDE DEF I
<1>3. \A k \in 0 .. n : k \in I
  BY <1>1, <1>2, UpTo
<1> QED BY <1>3 DEF I

Scaled(c, x, n) == [i \in 1 .. n |-> c * x[i]]

LEMMA SumScaled ==
  ASSUME NEW x, NEW n \in Nat, NEW c \in Int, \A i \in 1 .. n : x[i] \in Int
  PROVE  SumTo(Scaled(c, x, n), n) = c * SumTo(x, n)
<1> DEFINE z == Scaled(c, x, n)
           I == {k \in 0 .. n : SumTo(z, k) = c * SumTo(x, k)}
<1>0. \A k \in 0 .. n : SumTo(x, k) \in Int
  BY SumInt
<1>1. 0 \in I
  BY SumZero
<1>2. ASSUME NEW k \in 0 .. n - 1, k \in I
      PROVE  k + 1 \in I
  <2>1. k \in Nat /\ k + 1 \in 1 .. n /\ k + 1 \in 0 .. n
    OBVIOUS
  <2>2. SumTo(x, k) \in Int /\ x[k + 1] \in Int /\ z[k + 1] = c * x[k + 1]
    BY <1>0, <2>1 DEF Scaled
  <2> HIDE DEF z
  <2>3. SumTo(x, k + 1) = SumTo(x, k) + x[k + 1] /\ SumTo(z, k + 1) = SumTo(z, k) + z[k + 1]
    BY <2>1, SumStep
  <2>4. SumTo(z, k) = c * SumTo(x, k)
    BY <1>2
  <2> DEFINE s == SumTo(x, k)
             v == x[k + 1]
  <2>5. SumTo(z, k + 1) = c * s + c * v /\ s \in Int /\ v \in Int
    BY <2>2, <2>3, <2>4
  <2>6. SumTo(x, k + 1) = s + v
    BY <2>3
  <2> HIDE DEF s, v
  <2>7. c * s + c * v = c * (s + v)
    BY <2>5
  <2> QED BY <2>1, <2>5, <2>6, <2>7
<1> HIDE DEF I
<1>3. n \in I
  <2>1. \A k \in 0 .. n : k \in I
    BY <1>1, <1>2, UpTo
  <2> QED BY <2>1
<1> QED BY <1>3 DEF I

\* A sum grows with its entries.
LEMMA SumMono ==
  ASSUME NEW x, NEW y, NEW n \in Nat,
         \A i \in 1 .. n : x[i] \in Int /\ y[i] \in Int /\ x[i] <= y[i]
  PROVE  SumTo(x, n) <= SumTo(y, n)
<1>0. \A k \in 0 .. n : SumTo(x, k) \in Int /\ SumTo(y, k) \in Int
  <2>1. (\A i \in 1 .. n : x[i] \in Int) /\ (\A i \in 1 .. n : y[i] \in Int)
    OBVIOUS
  <2> QED BY <2>1, SumInt
<1> DEFINE I == {k \in 0 .. n : SumTo(x, k) <= SumTo(y, k)}
<1>1. 0 \in I
  BY SumZero
<1>2. ASSUME NEW k \in 0 .. n - 1, k \in I
      PROVE  k + 1 \in I
  <2>1. k \in Nat /\ k + 1 \in 1 .. n /\ k + 1 \in 0 .. n
    OBVIOUS
  <2>2. SumTo(x, k) \in Int /\ SumTo(y, k) \in Int
    BY <1>0, <2>1
  <2>3. SumTo(x, k + 1) = SumTo(x, k) + x[k + 1] /\ SumTo(y, k + 1) = SumTo(y, k) + y[k + 1]
    BY <2>1, SumStep
  <2> QED BY <1>2, <2>1, <2>2, <2>3
<1> HIDE DEF I
<1>3. \A k \in 0 .. n : k \in I
  BY <1>1, <1>2, UpTo
<1> QED BY <1>3 DEF I

\* Changing one entry changes the sum by as much.
LEMMA SumUpdate ==
  ASSUME NEW x, NEW y, NEW n \in Nat, NEW m \in 1 .. n,
         \A i \in 1 .. n : x[i] \in Int /\ y[i] \in Int,
         \A i \in 1 .. n : i # m => x[i] = y[i]
  PROVE  SumTo(y, n) = SumTo(x, n) - x[m] + y[m]
<1>0. \A k \in 0 .. n : SumTo(x, k) \in Int /\ SumTo(y, k) \in Int
  <2>1. (\A i \in 1 .. n : x[i] \in Int) /\ (\A i \in 1 .. n : y[i] \in Int)
    OBVIOUS
  <2> QED BY <2>1, SumInt
<1> DEFINE I == {k \in 0 .. n : SumTo(y, k) = SumTo(x, k) + (IF k < m THEN 0 ELSE y[m] - x[m])}
<1>1. 0 \in I
  BY SumZero
<1>2. ASSUME NEW k \in 0 .. n - 1, k \in I
      PROVE  k + 1 \in I
  <2>1. k \in Nat /\ k + 1 \in 1 .. n /\ k + 1 \in 0 .. n
    OBVIOUS
  <2>2. SumTo(x, k) \in Int /\ SumTo(y, k) \in Int
    BY <1>0, <2>1
  <2>3. SumTo(x, k + 1) = SumTo(x, k) + x[k + 1] /\ SumTo(y, k + 1) = SumTo(y, k) + y[k + 1]
    BY <2>1, SumStep
  <2>4. CASE k + 1 = m
    BY <1>2, <2>1, <2>2, <2>3, <2>4
  <2>5. CASE k + 1 # m
    BY <1>2, <2>1, <2>2, <2>3, <2>5
  <2> QED BY <2>4, <2>5
<1> HIDE DEF I
<1>3. \A k \in 0 .. n : k \in I
  BY <1>1, <1>2, UpTo
<1> QED BY <1>0, <1>3 DEF I

\* A set of positions has as many members as its indicators add up to.
Indicator(H, n) == [i \in 1 .. n |-> IF i \in H THEN 1 ELSE 0]

LEMMA CardSum ==
  ASSUME NEW n \in Nat, NEW H \in SUBSET (1 .. n)
  PROVE  Cardinality(H) = SumTo(Indicator(H, n), n) /\ IsFiniteSet(H)
<1> DEFINE x == Indicator(H, n)
           I == {k \in 0 .. n : /\ IsFiniteSet(H \cap 1 .. k)
                                /\ Cardinality(H \cap 1 .. k) = SumTo(x, k)}
<1>1. 0 \in I
  <2>1. H \cap 1 .. 0 = {}
    OBVIOUS
  <2> QED BY <2>1, SumZero, FS_EmptySet
<1>2. ASSUME NEW k \in 0 .. n - 1, k \in I
      PROVE  k + 1 \in I
  <2>1. k \in Nat /\ k + 1 \in 1 .. n /\ k + 1 \in 0 .. n
    OBVIOUS
  <2>2. SumTo(x, k + 1) = SumTo(x, k) + (IF k + 1 \in H THEN 1 ELSE 0)
    BY <2>1, SumStep DEF Indicator
  <2>3. Cardinality(H \cap 1 .. k) \in Nat /\ k + 1 \notin H \cap 1 .. k
    BY <1>2, <2>1, FS_CardinalityType
  <2>4. CASE k + 1 \in H
    <3>1. H \cap 1 .. k + 1 = (H \cap 1 .. k) \cup {k + 1}
      BY <2>1, <2>4
    <3>2. /\ IsFiniteSet((H \cap 1 .. k) \cup {k + 1})
          /\ Cardinality((H \cap 1 .. k) \cup {k + 1}) = Cardinality(H \cap 1 .. k) + 1
      BY <1>2, <2>3, FS_AddElement
    <3>3. Cardinality(H \cap 1 .. k) = SumTo(x, k)
      BY <1>2
    <3> HIDE DEF x
    <3> QED BY <2>1, <2>2, <2>4, <3>1, <3>2, <3>3
  <2>5. CASE k + 1 \notin H
    <3>1. H \cap 1 .. k + 1 = H \cap 1 .. k
      BY <2>1, <2>5
    <3> HIDE DEF x
    <3> QED BY <1>2, <2>1, <2>2, <2>3, <2>5, <3>1
  <2> QED BY <2>4, <2>5
<1> HIDE DEF I
<1>3. \A k \in 0 .. n : k \in I
  BY <1>1, <1>2, UpTo
<1>4. H \cap 1 .. n = H
  OBVIOUS
<1> QED BY <1>3, <1>4 DEF I

-----------------------------------------------------------------------------
(* Permutations.                                                           *)

Perms(n) == Bijection(1 .. n, 1 .. n)

\* What a permutation is, and what makes one.
LEMMA PermOf ==
  ASSUME NEW n, NEW p \in Perms(n)
  PROVE  /\ p \in [1 .. n -> 1 .. n]
         /\ \A i, j \in 1 .. n : p[i] = p[j] => i = j
         /\ \A i \in 1 .. n : p[i] \in 1 .. n
         /\ \A m \in 1 .. n : \E i \in 1 .. n : p[i] = m
BY DEF Perms, Bijection, Injection, Surjection, IsInjective

LEMMA IsPerm ==
  ASSUME NEW n, NEW p \in [1 .. n -> 1 .. n],
         \A i, j \in 1 .. n : p[i] = p[j] => i = j,
         \A m \in 1 .. n : \E i \in 1 .. n : p[i] = m
  PROVE  p \in Perms(n)
BY DEF Perms, Bijection, Injection, Surjection, IsInjective

\* A permutation without its last position, and with one position more.
Shorter(p, k) == [i \in 1 .. k |-> IF p[i] = k + 1 THEN p[k + 1] ELSE p[i]]
Longer(q, m, k) == [i \in 1 .. k + 1 |-> IF i = k + 1 THEN m ELSE IF q[i] = m THEN k + 1 ELSE q[i]]

LEMMA ShorterPerm ==
  ASSUME NEW k \in Nat, NEW p \in Perms(k + 1)
  PROVE  Shorter(p, k) \in Perms(k)
<1> DEFINE q == Shorter(p, k)
<1>1. /\ p \in [1 .. k + 1 -> 1 .. k + 1]
      /\ \A i, j \in 1 .. k + 1 : p[i] = p[j] => i = j
      /\ \A m \in 1 .. k + 1 : \E i \in 1 .. k + 1 : p[i] = m
  BY PermOf
<1>2. \A i \in 1 .. k : q[i] = IF p[i] = k + 1 THEN p[k + 1] ELSE p[i]
  BY DEF Shorter
<1>0. /\ k + 1 \in 1 .. k + 1 /\ p[k + 1] \in 1 .. k + 1
      /\ \A i \in 1 .. k : i \in 1 .. k + 1 /\ i # k + 1 /\ p[i] \in 1 .. k + 1
  <2>1. k + 1 \in 1 .. k + 1 /\ \A i \in 1 .. k : i \in 1 .. k + 1 /\ i # k + 1
    OBVIOUS
  <2> QED BY <1>1, <2>1
<1>3. ASSUME NEW i \in 1 .. k PROVE q[i] \in 1 .. k
  <2>1. p[i] # p[k + 1]
    BY <1>0, <1>1
  <2> HIDE DEF q
  <2> QED BY <1>0, <1>2, <2>1
<1>4. q \in [1 .. k -> 1 .. k]
  BY <1>3 DEF Shorter
<1> HIDE DEF q
<1>5. ASSUME NEW i \in 1 .. k, NEW j \in 1 .. k, q[i] = q[j] PROVE i = j
  <2>1. p[i] # p[k + 1] /\ p[j] # p[k + 1] /\ (p[i] = p[j] => i = j)
    BY <1>0, <1>1
  <2> QED BY <1>2, <1>5, <2>1
<1>6. ASSUME NEW m \in 1 .. k PROVE \E i \in 1 .. k : q[i] = m
  <2>1. PICK i \in 1 .. k + 1 : p[i] = m
    BY <1>1
  <2>2. CASE i \in 1 .. k
    BY <1>2, <2>1, <2>2
  <2>3. CASE i = k + 1
    <3>1. PICK j \in 1 .. k + 1 : p[j] = k + 1
      BY <1>1
    <3>2. j \in 1 .. k
      BY <2>1, <2>3, <3>1
    <3> QED BY <1>2, <2>1, <2>3, <3>1, <3>2
  <2> QED BY <2>2, <2>3
<1> QED BY <1>4, <1>5, <1>6, IsPerm DEF q

LEMMA LongerPerm ==
  ASSUME NEW k \in Nat, NEW q \in Perms(k), NEW m \in 1 .. k + 1
  PROVE  Longer(q, m, k) \in Perms(k + 1)
<1> DEFINE p == Longer(q, m, k)
<1>1. /\ q \in [1 .. k -> 1 .. k]
      /\ \A i, j \in 1 .. k : q[i] = q[j] => i = j
      /\ \A r \in 1 .. k : \E i \in 1 .. k : q[i] = r
  BY PermOf
<1>2. /\ p[k + 1] = m
      /\ \A i \in 1 .. k : p[i] = IF q[i] = m THEN k + 1 ELSE q[i]
  BY DEF Longer
<1>0. \A i \in 1 .. k + 1 : i # k + 1 => i \in 1 .. k /\ q[i] \in 1 .. k
  <2>1. \A i \in 1 .. k + 1 : i # k + 1 => i \in 1 .. k
    OBVIOUS
  <2> QED BY <1>1, <2>1
<1>3. ASSUME NEW i \in 1 .. k + 1 PROVE p[i] \in 1 .. k + 1
  <2> HIDE DEF p
  <2> QED BY <1>0, <1>2
<1>4. p \in [1 .. k + 1 -> 1 .. k + 1]
  BY <1>3 DEF Longer
<1> HIDE DEF p
<1>5. ASSUME NEW i \in 1 .. k + 1, NEW j \in 1 .. k + 1, p[i] = p[j] PROVE i = j
  <2>1. CASE i = k + 1 /\ j # k + 1
    BY <1>0, <1>2, <1>5, <2>1
  <2>2. CASE i # k + 1 /\ j = k + 1
    BY <1>0, <1>2, <1>5, <2>2
  <2>3. CASE i # k + 1 /\ j # k + 1
    <3>1. q[i] = q[j] => i = j
      BY <1>0, <1>1, <2>3
    <3> QED BY <1>0, <1>2, <1>5, <2>3, <3>1
  <2> QED BY <2>1, <2>2, <2>3
<1>6. ASSUME NEW r \in 1 .. k + 1 PROVE \E i \in 1 .. k + 1 : p[i] = r
  <2>1. CASE r = m
    BY <1>2, <2>1
  <2>2. CASE r # m /\ r = k + 1
    <3>1. PICK i \in 1 .. k : q[i] = m
      BY <1>1, <2>2
    <3> QED BY <1>2, <2>2, <3>1
  <2>3. CASE r # m /\ r # k + 1
    <3>1. PICK i \in 1 .. k : q[i] = r
      BY <1>1, <2>3
    <3> QED BY <1>2, <2>3, <3>1
  <2> QED BY <2>1, <2>2, <2>3
<1> QED BY <1>4, <1>5, <1>6, IsPerm DEF p

\* The list without its last entry, which takes the place of the one at m.
Drop(x, m, k) == [i \in 1 .. k |-> IF i = m THEN x[k + 1] ELSE x[i]]

\* A sum does not depend on the order of its entries.
LEMMA SumPermuted ==
  ASSUME NEW n \in Nat, NEW x \in [1 .. n -> Int], NEW p \in Perms(n)
  PROVE  SumTo([i \in 1 .. n |-> x[p[i]]], n) = SumTo(x, n)
<1> DEFINE Moved(y, q, k) == [i \in 1 .. k |-> y[q[i]]]
           I == {k \in 0 .. n : \A y \in [1 .. k -> Int] : \A q \in Perms(k) :
                                  SumTo(Moved(y, q, k), k) = SumTo(y, k)}
<1>1. 0 \in I
  BY SumZero
<1>2. ASSUME NEW k \in 0 .. n - 1, k \in I
      PROVE  k + 1 \in I
  <2>1. k \in Nat /\ k + 1 \in 0 .. n
    OBVIOUS
  <2>2. SUFFICES ASSUME NEW y \in [1 .. k + 1 -> Int], NEW q \in Perms(k + 1)
                 PROVE  SumTo(Moved(y, q, k + 1), k + 1) = SumTo(y, k + 1)
    BY <2>1
  <2> DEFINE m == q[k + 1]
             z == Drop(y, m, k)
             r == Shorter(q, k)
             s == Moved(y, q, k + 1)
  <2>3. m \in 1 .. k + 1 /\ \A i \in 1 .. k : q[i] \in 1 .. k + 1 /\ q[i] # m
    <3>1. k + 1 \in 1 .. k + 1 /\ \A i \in 1 .. k : i \in 1 .. k + 1 /\ i # k + 1
      BY <2>1
    <3>2. /\ \A i, j \in 1 .. k + 1 : q[i] = q[j] => i = j
          /\ \A i \in 1 .. k + 1 : q[i] \in 1 .. k + 1
      BY PermOf
    <3> QED BY <3>1, <3>2
  <2>4. z \in [1 .. k -> Int] /\ r \in Perms(k)
    BY <2>1, ShorterPerm DEF Drop
  <2>5. SumTo(Moved(z, r, k), k) = SumTo(z, k)
    BY <1>2, <2>4
  <2>6. SumTo(Moved(z, r, k), k) = SumTo(s, k)
    <3>1. ASSUME NEW i \in 1 .. k PROVE Moved(z, r, k)[i] = s[i]
      <4>1. r[i] = IF q[i] = k + 1 THEN m ELSE q[i]
        BY DEF Shorter
      <4>2. s[i] = y[q[i]]
        OBVIOUS
      <4>3. r[i] \in 1 .. k
        BY <2>4, <2>1, PermOf
      <4>4. z[r[i]] = IF r[i] = m THEN y[k + 1] ELSE y[r[i]]
        BY <4>3 DEF Drop
      <4>5. Moved(z, r, k)[i] = z[r[i]]
        OBVIOUS
      <4> HIDE DEF m, z, r, s
      <4> QED BY <2>3, <4>1, <4>2, <4>4, <4>5
    <3> QED BY <2>1, <3>1, SumEq
  <2>7. SumTo(s, k + 1) = SumTo(z, k) + y[m]
    <3>1. s[k + 1] = y[m]
      OBVIOUS
    <3> HIDE DEF s, m, z, r
    <3> QED BY <2>1, <2>5, <2>6, <3>1, SumStep
  <2>8. SumTo(y, k + 1) = SumTo(y, k) + y[k + 1] /\ SumTo(y, k) \in Int
    <3>1. \A i \in 1 .. k : y[i] \in Int
      BY <2>1
    <3>2. \A h \in 0 .. k : SumTo(y, h) \in Int
      <4> HIDE DEF m, z, r, s, I, Moved
      <4> QED BY <2>1, <3>1, SumInt
    <3>3. k \in 0 .. k
      BY <2>1
    <3> QED BY <3>3, <2>1, <3>2, SumStep
  <2>9. CASE m = k + 1
    <3>1. \A i \in 1 .. k : z[i] = y[i]
      BY <2>1, <2>9 DEF Drop
    <3>2. SumTo(z, k) = SumTo(y, k)
      BY <2>1, <3>1, SumEq
    <3> QED BY <2>7, <2>8, <2>9, <3>2
  <2>10. CASE m # k + 1
    <3>1. m \in 1 .. k /\ (\A i \in 1 .. k : y[i] \in Int /\ z[i] \in Int)
      BY <2>1, <2>3, <2>4, <2>10
    <3>2. z[m] = y[k + 1] /\ \A i \in 1 .. k : i # m => y[i] = z[i]
      BY <3>1 DEF Drop
    <3>3. y[k + 1] \in Int
      BY <2>1
    <3> HIDE DEF m, z, s, r, Moved
    <3>4. SumTo(z, k) = SumTo(y, k) - y[m] + z[m]
      BY <2>1, <3>1, <3>2, SumUpdate
    <3>5. SumTo(s, k + 1) = SumTo(y, k + 1)
      BY <2>7, <2>8, <3>1, <3>2, <3>3, <3>4
    <3> QED BY <3>5 DEF s
  <2> HIDE DEF m, z, r, s, Moved
  <2> QED BY <2>9, <2>10, Zenon
<1> HIDE DEF I
<1>3. \A k \in 0 .. n : k \in I
  BY <1>1, <1>2, UpTo
<1>4. n \in I
  BY <1>3
<1>5. \A y \in [1 .. n -> Int] : \A q \in Perms(n) : SumTo(Moved(y, q, n), n) = SumTo(y, n)
  BY <1>4 DEF I
<1>6. SumTo(Moved(x, p, n), n) = SumTo(x, n)
  <2> HIDE DEF Moved
  <2> QED BY <1>5, Zenon
<1> QED BY <1>6

-----------------------------------------------------------------------------
(* Sorting.                                                                *)

\* A list that is not empty has a largest entry.
LEMMA Largest ==
  ASSUME NEW n \in Nat, NEW x \in [1 .. n + 1 -> Int]
  PROVE  \E m \in 1 .. n + 1 : \A i \in 1 .. n + 1 : x[i] <= x[m]
<1> DEFINE I == {k \in 0 .. n : \E m \in 1 .. k + 1 : \A i \in 1 .. k + 1 : x[i] <= x[m]}
<1>1. 0 \in I
  <2>1. \A i \in 1 .. 0 + 1 : x[i] <= x[1]
    OBVIOUS
  <2> QED BY <2>1
<1>2. ASSUME NEW k \in 0 .. n - 1, k \in I
      PROVE  k + 1 \in I
  <2>1. PICK m \in 1 .. k + 1 : \A i \in 1 .. k + 1 : x[i] <= x[m]
    BY <1>2
  <2>2. /\ k + 2 \in 1 .. n + 1 /\ m \in 1 .. n + 1 /\ k + 1 \in 0 .. n /\ (k + 1) + 1 = k + 2
        /\ \A i \in 1 .. k + 2 : i \in 1 .. k + 1 \/ i = k + 2
    OBVIOUS
  <2>3. x[k + 2] \in Int /\ x[m] \in Int /\ \A i \in 1 .. k + 1 : x[i] \in Int
    BY <2>2
  <2>4. \E h \in 1 .. k + 2 : \A i \in 1 .. k + 2 : x[i] <= x[h]
    <3>1. CASE x[k + 2] <= x[m]
      <4>1. m \in 1 .. k + 2 /\ \A i \in 1 .. k + 2 : x[i] <= x[m]
        BY <2>1, <2>2, <3>1
      <4> QED BY <4>1
    <3>2. CASE ~(x[k + 2] <= x[m])
      <4>1. \A i \in 1 .. k + 2 : x[i] <= x[k + 2]
        BY <2>1, <2>2, <2>3, <3>2
      <4>2. k + 2 \in 1 .. k + 2
        OBVIOUS
      <4> QED BY <4>1, <4>2
    <3> QED BY <3>1, <3>2
  <2> QED BY <2>2, <2>4
<1> HIDE DEF I
<1>3. \A k \in 0 .. n : k \in I
  BY <1>1, <1>2, UpTo
<1>4. n \in I
  BY <1>3
<1> QED BY <1>4 DEF I

\* Every list can be put in order.
InOrder(q, y, k) == \A i, j \in 1 .. k : i < j => y[q[i]] <= y[q[j]]

LEMMA Sortable ==
  ASSUME NEW n \in Nat, NEW x \in [1 .. n -> Int]
  PROVE  \E p \in Perms(n) : InOrder(p, x, n)
<1> DEFINE I == {k \in 0 .. n : \A y \in [1 .. k -> Int] : \E q \in Perms(k) : InOrder(q, y, k)}
<1>1. 0 \in I
  <2>1. << >> \in Perms(0)
    <3>1. 1 .. 0 = {}
      OBVIOUS
    <3> QED BY <3>1 DEF Perms, Bijection, Injection, Surjection, IsInjective
  <2> QED BY <2>1 DEF InOrder
<1>2. ASSUME NEW k \in 0 .. n - 1, k \in I
      PROVE  k + 1 \in I
  <2>1. k \in Nat /\ k + 1 \in 0 .. n
    OBVIOUS
  <2>2. SUFFICES ASSUME NEW y \in [1 .. k + 1 -> Int]
                 PROVE  \E p \in Perms(k + 1) : InOrder(p, y, k + 1)
    BY <2>1
  <2>3. PICK m \in 1 .. k + 1 : \A i \in 1 .. k + 1 : y[i] <= y[m]
    BY <2>1, Largest
  <2> DEFINE z == Drop(y, m, k)
  <2>4. z \in [1 .. k -> Int]
    BY <2>1 DEF Drop
  <2>5. PICK q \in Perms(k) : InOrder(q, z, k)
    BY <1>2, <2>4
  <2> DEFINE p == Longer(q, m, k)
  <2>6. p \in Perms(k + 1)
    BY <2>1, LongerPerm
  <2>7. \A i \in 1 .. k + 1 : p[i] \in 1 .. k + 1
    BY <2>1, <2>6, PermOf
  <2>8. \A i \in 1 .. k : q[i] \in 1 .. k
    BY <2>1, PermOf
  <2>9. ASSUME NEW i \in 1 .. k PROVE y[p[i]] = z[q[i]]
    <3>1. p[i] = IF q[i] = m THEN k + 1 ELSE q[i]
      BY <2>1 DEF Longer
    <3>2. z[q[i]] = IF q[i] = m THEN y[k + 1] ELSE y[q[i]]
      BY <2>8 DEF Drop
    <3> QED BY <3>1, <3>2
  <2>10. p[k + 1] = m
    BY <2>1 DEF Longer
  <2>11. ASSUME NEW i \in 1 .. k + 1, NEW j \in 1 .. k + 1, i < j
         PROVE  y[p[i]] <= y[p[j]]
    <3>1. i \in 1 .. k /\ (j = k + 1 \/ j \in 1 .. k)
      BY <2>1, <2>11
    <3>2. CASE j = k + 1
      BY <2>3, <2>7, <2>10, <3>2
    <3>3. CASE j \in 1 .. k
      BY <2>5, <2>9, <2>11, <3>1, <3>3 DEF InOrder
    <3> QED BY <3>1, <3>2, <3>3
  <2> QED BY <2>6, <2>11 DEF InOrder
<1> HIDE DEF I
<1>3. \A k \in 0 .. n : k \in I
  BY <1>1, <1>2, UpTo
<1> QED BY <1>3 DEF I

\* What sort.Slice leaves: the same entries, in order (metrics.go:42-44).
LEMMA Sorted ==
  ASSUME NEW n \in Nat, NEW list \in [1 .. n -> Int]
  PROVE  \E p \in Perms(n) : /\ Ascending(list) = [i \in 1 .. n |-> list[p[i]]]
                             /\ InOrder(p, list, n)
<1> DEFINE p == CHOOSE q \in Bijection(DOMAIN list, DOMAIN list) : SortedBy(q, list)
<1>1. DOMAIN list = 1 .. n
  OBVIOUS
<1>2. \E q \in Bijection(DOMAIN list, DOMAIN list) : SortedBy(q, list)
  BY <1>1, Sortable DEF SortedBy, InOrder, Perms
<1>3. p \in Bijection(DOMAIN list, DOMAIN list) /\ SortedBy(p, list)
  BY <1>2
<1>4. Ascending(list) = [i \in DOMAIN list |-> list[p[i]]]
  BY DEF Ascending
<1> HIDE DEF p
<1>5. p \in Perms(n) /\ InOrder(p, list, n)
  BY <1>1, <1>3 DEF Perms, SortedBy, InOrder
<1> QED BY <1>1, <1>4, <1>5

\* Lists as functions.
LEMMA LenOf ==
  ASSUME NEW n \in Nat, NEW T, NEW x \in [1 .. n -> T]
  PROVE  Len(x) = n /\ DOMAIN x = 1 .. n
<1>1. x \in Seq(T)
  BY SeqDef
<1>2. 1 .. Len(x) = 1 .. n /\ Len(x) \in Nat
  BY <1>1, LenProperties
<1> QED BY <1>2

LEMMA TotalOf ==
  ASSUME NEW n \in Nat, NEW T, NEW x \in [1 .. n -> T]
  PROVE  SumOf(x) = SumTo(x, n)
BY LenOf DEF SumOf

Constant(v, n) == [i \in 1 .. n |-> v]

LEMMA SumConst ==
  ASSUME NEW n \in Nat, NEW v \in Int
  PROVE  SumTo(Constant(v, n), n) = n * v
<1> DEFINE x == Constant(v, n)
           I == {k \in 0 .. n : SumTo(x, k) = k * v}
<1>1. 0 \in I
  BY SumZero
<1>2. ASSUME NEW k \in 0 .. n - 1, k \in I
      PROVE  k + 1 \in I
  <2>1. k \in Nat /\ k + 1 \in 1 .. n /\ k + 1 \in 0 .. n
    OBVIOUS
  <2>2. SumTo(x, k + 1) = SumTo(x, k) + v
    BY <2>1, SumStep DEF Constant
  <2> HIDE DEF x
  <2> QED BY <1>2, <2>1, <2>2
<1> HIDE DEF I
<1>3. n \in I
  <2>1. \A k \in 0 .. n : k \in I
    BY <1>1, <1>2, UpTo
  <2> QED BY <2>1
<1> QED BY <1>3 DEF I

-----------------------------------------------------------------------------
(* Lists of balances.                                                      *)

\* Balances of holders are positive (metrics.go:31).
Lists(n) == [1 .. n -> Nat \ {0}]

LEMMA ListsAre ==
  ASSUME NEW n \in Nat, NEW x \in Lists(n)
  PROVE  /\ x \in [1 .. n -> Int] /\ x \in [1 .. n -> Nat \ {0}]
         /\ Len(x) = n /\ DOMAIN x = 1 .. n
         /\ SumOf(x) = SumTo(x, n)
         /\ \A i \in 1 .. n : x[i] \in Int /\ x[i] > 0
<1>1. x \in [1 .. n -> Nat \ {0}] /\ x \in [1 .. n -> Int]
  BY DEF Lists
<1>2. Len(x) = n /\ DOMAIN x = 1 .. n /\ SumOf(x) = SumTo(x, n)
  BY <1>1, LenOf, TotalOf
<1> QED BY <1>1, <1>2

\* A sum of balances is positive when there is one.
LEMMA SumPositive ==
  ASSUME NEW n \in Nat, NEW x \in Lists(n)
  PROVE  SumTo(x, n) \in Nat /\ SumTo(x, n) >= n
<1> DEFINE c == Constant(1, n)
<1>1. \A i \in 1 .. n : c[i] \in Int /\ x[i] \in Int /\ c[i] <= x[i]
  BY ListsAre DEF Constant
<1>2. SumTo(c, n) = n
  <2>1. SumTo(c, n) = n * 1
    BY SumConst
  <2> QED BY <2>1
<1> HIDE DEF c
<1>3. SumTo(c, n) <= SumTo(x, n)
  BY <1>1, SumMono
<1>4. SumTo(x, n) \in Int
  <2>1. (\A i \in 1 .. n : x[i] \in Int) /\ n \in 0 .. n
    BY <1>1
  <2> QED BY <2>1, SumInt
<1> QED BY <1>2, <1>3, <1>4

\* What Compute works on: the same balances in order, with the same total.
LEMMA SortedList ==
  ASSUME NEW n \in Nat, NEW list \in Lists(n)
  PROVE  LET asc == Ascending(list) IN
         /\ asc \in Lists(n)
         /\ \A i, j \in 1 .. n : i < j => asc[i] <= asc[j]
         /\ SumOf(asc) = SumOf(list)
         /\ \E p \in Perms(n) : \A i \in 1 .. n : asc[i] = list[p[i]]
<1> DEFINE asc == Ascending(list)
<1>1. list \in [1 .. n -> Int]
  BY ListsAre
<1>2. PICK p \in Perms(n) : asc = [i \in 1 .. n |-> list[p[i]]] /\ InOrder(p, list, n)
  BY <1>1, Sorted
<1>3. \A i \in 1 .. n : p[i] \in 1 .. n
  BY PermOf
<1>4. asc \in Lists(n)
  BY <1>2, <1>3 DEF Lists
<1>5. \A i, j \in 1 .. n : i < j => asc[i] <= asc[j]
  BY <1>2 DEF InOrder
<1>6. SumOf(asc) = SumOf(list)
  <2>1. SumTo(asc, n) = SumTo(list, n)
    BY <1>1, <1>2, SumPermuted
  <2> HIDE DEF asc
  <2> QED BY <1>4, <2>1, ListsAre
<1>7. \A i \in 1 .. n : asc[i] = list[p[i]]
  BY <1>2
<1> HIDE DEF asc
<1>8. /\ asc \in Lists(n)
      /\ \A i, j \in 1 .. n : i < j => asc[i] <= asc[j]
      /\ SumOf(asc) = SumOf(list)
      /\ \E q \in Perms(n) : \A i \in 1 .. n : asc[i] = list[q[i]]
  BY <1>4, <1>5, <1>6, <1>7
<1> QED BY <1>8 DEF asc

-----------------------------------------------------------------------------
(* The Gini coefficient.                                                   *)

Weighted(x, k) == [i \in 1 .. k |-> (2 * i - k - 1) * x[i]]
Gaps(x, v, k) == [j \in 1 .. k |-> Gap(v, x[j])]
AllGaps(x, k) == [i \in 1 .. k |-> SumTo(Gaps(x, x[i], k), k)]

\* The weighted sum of gini is half of the differences over all pairs, when the list is
\* in order: with one more entry, the largest, both grow by its distance to each other one.
LEMMA GiniOfSorted ==
  ASSUME NEW n \in Nat, NEW x \in [1 .. n -> Int],
         \A i, j \in 1 .. n : i < j => x[i] <= x[j]
  PROVE  2 * SumTo(Weighted(x, n), n) = SumTo(AllGaps(x, n), n)
<1> DEFINE G(k) == SumTo(Weighted(x, k), k)
           D(k) == SumTo(AllGaps(x, k), k)
           I == {k \in 0 .. n : G(k) \in Int /\ D(k) \in Int /\ 2 * G(k) = D(k)}
<1>1. 0 \in I
  BY SumZero
<1>2. ASSUME NEW k \in 0 .. n - 1, k \in I
      PROVE  k + 1 \in I
  <2>1. k \in Nat /\ k + 1 \in 1 .. n /\ k + 1 \in 0 .. n /\ \A i \in 1 .. k : i \in 1 .. n /\ i < k + 1
    OBVIOUS
  <2> DEFINE v == x[k + 1]
             away == [i \in 1 .. k |-> v - x[i]]
             W == SumTo(away, k)
  <2>2. v \in Int /\ \A i \in 1 .. k : x[i] \in Int /\ x[i] <= v
    BY <2>1
  <2>3. SumTo(x, k) \in Int
    <3>1. (\A i \in 1 .. k : x[i] \in Int) /\ k \in 0 .. k
      BY <2>1, <2>2
    <3> QED BY <2>1, <3>1, SumInt
  <2>4. W = k * v - SumTo(x, k) /\ W \in Int
    <3> DEFINE c == Constant(v, k)
    <3>1. \A i \in 1 .. k : c[i] \in Int /\ x[i] \in Int /\ away[i] = c[i] - x[i]
      BY <2>2 DEF Constant
    <3> HIDE DEF away, c, v
    <3>2. W = SumTo(c, k) - SumTo(x, k)
      BY <2>1, <3>1, SumMinus
    <3>3. SumTo(c, k) = k * v /\ k * v \in Int
      <4>1. v \in Int
        BY <2>2
      <4>2. k * v \in Int
        BY <2>1, <4>1
      <4> QED BY <2>1, <4>1, <4>2, SumConst DEF c
    <3> HIDE DEF W
    <3> QED BY <2>3, <3>2, <3>3
  <2>5. G(k + 1) = G(k) + W
    <3> DEFINE g == Weighted(x, k)
               h == Weighted(x, k + 1)
    <3>1. \A i \in 1 .. k : g[i] \in Int /\ x[i] \in Int /\ h[i] = g[i] - x[i]
      <4> TAKE i \in 1 .. k
      <4>1. g[i] = (2 * i - k - 1) * x[i] /\ h[i] = (2 * i - (k + 1) - 1) * x[i]
        BY <2>1 DEF Weighted
      <4>2. x[i] \in Int /\ i \in Int /\ k \in Int
        BY <2>1, <2>2
      <4> HIDE DEF g, h
      <4> QED BY <4>1, <4>2
    <3>2. h[k + 1] = k * v
      <4>1. h[k + 1] = (2 * (k + 1) - (k + 1) - 1) * v
        BY <2>1 DEF Weighted
      <4>2. 2 * (k + 1) - (k + 1) - 1 = k
        BY <2>1
      <4> QED BY <4>1, <4>2
    <3> HIDE DEF g, h, v
    <3>3. SumTo(h, k) = SumTo(g, k) - SumTo(x, k)
      BY <2>1, <3>1, SumMinus
    <3>4. SumTo(h, k + 1) = SumTo(h, k) + h[k + 1]
      BY <2>1, SumStep
    <3>5. SumTo(g, k) \in Int /\ k * v \in Int
      BY <1>2, <2>1, <2>2 DEF g
    <3> HIDE DEF W
    <3>6. SumTo(h, k + 1) = SumTo(g, k) + W
      BY <2>3, <2>4, <3>2, <3>3, <3>4, <3>5
    <3> QED BY <3>6 DEF g, h
  <2>6. D(k + 1) = D(k) + 2 * W
    <3> DEFINE g == AllGaps(x, k)
               h == AllGaps(x, k + 1)
    <3>1. ASSUME NEW i \in 1 .. k
          PROVE  g[i] \in Int /\ away[i] \in Int /\ h[i] = g[i] + away[i]
      <4> DEFINE r == Gaps(x, x[i], k)
                 s == Gaps(x, x[i], k + 1)
      <4>1. g[i] = SumTo(r, k) /\ h[i] = SumTo(s, k + 1)
        BY <2>1 DEF AllGaps
      <4>2. \A j \in 1 .. k : r[j] \in Int /\ s[j] = r[j]
        BY <2>1, <2>2 DEF Gaps, Gap
      <4>3. s[k + 1] = v - x[i]
        <5>1. s[k + 1] = Gap(x[i], v)
          BY <2>1 DEF Gaps
        <5>2. x[i] \in Int /\ x[i] <= v
          BY <2>2
        <5> QED BY <2>2, <5>1, <5>2 DEF Gap
      <4>4. away[i] = v - x[i]
        OBVIOUS
      <4> HIDE DEF r, s, g, h, v, away
      <4>5. SumTo(s, k + 1) = SumTo(s, k) + s[k + 1]
        BY <2>1, SumStep
      <4>6. SumTo(s, k) = SumTo(r, k)
        BY <2>1, <4>2, SumEq
      <4>7. SumTo(r, k) \in Int
        <5>1. (\A j \in 1 .. k : r[j] \in Int) /\ k \in 0 .. k
          BY <2>1, <4>2
        <5> QED BY <2>1, <5>1, SumInt
      <4>8. v - x[i] \in Int
        BY <2>2
      <4> QED BY <4>1, <4>3, <4>4, <4>5, <4>6, <4>7, <4>8
    <3>2. h[k + 1] = W
      <4> DEFINE s == Gaps(x, v, k + 1)
      <4>1. h[k + 1] = SumTo(s, k + 1)
        BY <2>1 DEF AllGaps
      <4>2. \A j \in 1 .. k : s[j] = away[j]
        <5> TAKE j \in 1 .. k
        <5>1. s[j] = Gap(v, x[j])
          BY <2>1 DEF Gaps
        <5>2. x[j] \in Int /\ x[j] <= v
          BY <2>2
        <5>3. Gap(v, x[j]) = v - x[j]
          BY <2>2, <5>2 DEF Gap
        <5> QED BY <5>1, <5>3
      <4>3. s[k + 1] = 0
        <5>1. s[k + 1] = Gap(v, v)
          BY <2>1 DEF Gaps
        <5> QED BY <2>2, <5>1 DEF Gap
      <4> HIDE DEF s, h, v, away
      <4>4. SumTo(s, k + 1) = SumTo(s, k) + s[k + 1]
        BY <2>1, SumStep
      <4>5. SumTo(s, k) = W
        BY <2>1, <4>2, SumEq
      <4> HIDE DEF W
      <4> QED BY <2>4, <4>1, <4>3, <4>4, <4>5
    <3> HIDE DEF g, h, v, away
    <3>3. SumTo(h, k) = SumTo(g, k) + W
      BY <2>1, <3>1, SumPlus
    <3>4. SumTo(h, k + 1) = SumTo(h, k) + h[k + 1]
      BY <2>1, SumStep
    <3>5. SumTo(g, k) \in Int
      BY <1>2 DEF g
    <3> HIDE DEF W
    <3>6. SumTo(h, k + 1) = SumTo(g, k) + 2 * W
      BY <2>4, <3>2, <3>3, <3>4, <3>5
    <3> QED BY <3>6 DEF g, h
  <2>7. G(k) \in Int /\ D(k) \in Int /\ 2 * G(k) = D(k)
    BY <1>2
  <2>8. W \in Int
    BY <2>4
  <2> HIDE DEF G, D, W
  <2>9. G(k + 1) \in Int /\ D(k + 1) \in Int /\ 2 * G(k + 1) = D(k + 1)
    BY <2>5, <2>6, <2>7, <2>8
  <2> QED BY <2>1, <2>9
<1> HIDE DEF I
<1>3. n \in I
  <2>1. \A k \in 0 .. n : k \in I
    BY <1>1, <1>2, UpTo
  <2> QED BY <2>1
<1> QED BY <1>3 DEF I

\* The weighted sum is at most n - 1 times the sum: no weight is greater.
LEMMA WeightedAtMost ==
  ASSUME NEW n \in Nat, NEW x \in Lists(n)
  PROVE  /\ SumTo(Weighted(x, n), n) \in Int /\ SumTo(x, n) \in Int
         /\ SumTo(Weighted(x, n), n) <= (n - 1) * SumTo(x, n)
<1> DEFINE y == Weighted(x, n)
           z == Scaled(n - 1, x, n)
<1>1. \A i \in 1 .. n : x[i] \in Nat
  BY ListsAre
<1>2. \A i \in 1 .. n : y[i] \in Int /\ z[i] \in Int /\ y[i] <= z[i]
  <2> TAKE i \in 1 .. n
  <2> DEFINE a == x[i]
             c == 2 * i - n - 1
  <2>1. y[i] = c * a /\ z[i] = (n - 1) * a
    BY DEF Weighted, Scaled
  <2>2. a \in Nat /\ c \in Int /\ (n - 1) - c \in Nat
    BY <1>1
  <2> HIDE DEF a, c, y, z
  <2>3. ((n - 1) - c) * a >= 0
    BY <2>2
  <2>4. ((n - 1) - c) * a = (n - 1) * a - c * a /\ (n - 1) * a \in Int /\ c * a \in Int
    BY <2>2
  <2> QED BY <2>1, <2>3, <2>4
<1> HIDE DEF y, z
<1>3. SumTo(y, n) <= SumTo(z, n)
  BY <1>2, SumMono
<1>4. SumTo(z, n) = (n - 1) * SumTo(x, n)
  BY <1>1, SumScaled DEF z
<1>5. SumTo(y, n) \in Int /\ SumTo(x, n) \in Int
  <2>1. n \in 0 .. n /\ \A i \in 1 .. n : x[i] \in Int
    BY <1>1
  <2> QED BY <1>2, <2>1, SumInt
<1> QED BY <1>3, <1>4, <1>5 DEF y

\* gini is half the relative mean difference (metrics.go:60-83).
LEMMA GiniTrue ==
  ASSUME NEW n \in Nat \ {0}, NEW list \in Lists(n), NEW asc, asc = Ascending(list)
  PROVE  IsGini(gini(asc, SumOf(asc)), list)
<1>1. /\ asc \in Lists(n) /\ SumOf(asc) = SumOf(list)
      /\ \A i, j \in 1 .. n : i < j => asc[i] <= asc[j]
  BY SortedList
<1>2. PICK p \in Perms(n) : \A i \in 1 .. n : asc[i] = list[p[i]]
  BY SortedList
<1>3. /\ asc \in [1 .. n -> Int] /\ Len(asc) = n /\ DOMAIN asc = 1 .. n
      /\ list \in [1 .. n -> Int] /\ Len(list) = n /\ DOMAIN list = 1 .. n
  BY <1>1, ListsAre
<1>4. SumOf(asc) # 0 /\ SumOf(asc) \in Nat
  BY <1>1, ListsAre, SumPositive
<1>5. \A i \in 1 .. n : p[i] \in 1 .. n
  BY PermOf
<1>6. gini(asc, SumOf(asc)) = [num |-> SumTo(Weighted(asc, n), n), den |-> n * SumOf(asc)]
  <2>1. Weighted(asc, n) \in [1 .. n -> Int]
    <3>1. \A i \in 1 .. n : asc[i] \in Int
      BY <1>3
    <3>2. \A i \in 1 .. n : (2 * i - n - 1) * asc[i] \in Int
      BY <3>1
    <3> QED BY <3>2 DEF Weighted
  <2>2. SumOf(Weighted(asc, n)) = SumTo(Weighted(asc, n), n)
    BY <2>1, TotalOf
  <2> QED BY <1>3, <1>4, <2>2 DEF gini, Weighted
<1>7. \A v \in Int : Gaps(asc, v, n) \in [1 .. n -> Int] /\ Gaps(list, v, n) \in [1 .. n -> Int]
  BY <1>3 DEF Gaps, Gap
<1>8. ASSUME NEW v \in Int
      PROVE  SumTo(Gaps(asc, v, n), n) = SumTo(Gaps(list, v, n), n)
  <2> DEFINE x == Gaps(list, v, n)
  <2>1. Gaps(asc, v, n) = [i \in 1 .. n |-> x[p[i]]]
    BY <1>2, <1>5 DEF Gaps
  <2> HIDE DEF x
  <2>2. SumTo([i \in 1 .. n |-> x[p[i]]], n) = SumTo(x, n)
    BY <1>7, SumPermuted DEF x
  <2> QED BY <2>1, <2>2 DEF x
<1>9. AllGaps(list, n) \in [1 .. n -> Int]
  <2> SUFFICES ASSUME NEW i \in 1 .. n PROVE SumTo(Gaps(list, list[i], n), n) \in Int
    BY DEF AllGaps
  <2> DEFINE x == Gaps(list, list[i], n)
  <2>1. list[i] \in Int
    BY <1>3
  <2>2. x \in [1 .. n -> Int]
    BY <1>7, <2>1
  <2> HIDE DEF x
  <2>3. \A j \in 1 .. n : x[j] \in Int
    BY <2>2
  <2>4. SumTo(x, n) \in Int
    <3>1. n \in 0 .. n
      OBVIOUS
    <3> QED BY <2>3, <3>1, SumInt
  <2> QED BY <2>4 DEF x
<1>10. SumTo(AllGaps(asc, n), n) = SumTo(AllGaps(list, n), n)
  <2> DEFINE x == AllGaps(list, n)
  <2>1. \A i \in 1 .. n : AllGaps(asc, n)[i] = x[p[i]]
    <3> TAKE i \in 1 .. n
    <3>1. AllGaps(asc, n)[i] = SumTo(Gaps(asc, asc[i], n), n)
      BY DEF AllGaps
    <3>2. x[p[i]] = SumTo(Gaps(list, list[p[i]], n), n)
      BY <1>5 DEF AllGaps
    <3>3. asc[i] \in Int /\ asc[i] = list[p[i]]
      BY <1>2, <1>3
    <3> QED BY <1>8, <3>1, <3>2, <3>3
  <2>2. AllGaps(asc, n) = [i \in 1 .. n |-> x[p[i]]]
    BY <2>1 DEF AllGaps
  <2> HIDE DEF x
  <2>3. SumTo([i \in 1 .. n |-> x[p[i]]], n) = SumTo(x, n)
    BY <1>9, SumPermuted DEF x
  <2> QED BY <2>2, <2>3 DEF x
<1>11. 2 * SumTo(Weighted(asc, n), n) = SumTo(AllGaps(asc, n), n)
  BY <1>1, <1>3, GiniOfSorted
<1>12. SumOf([i \in DOMAIN list |-> SumOf([j \in DOMAIN list |-> Gap(list[i], list[j])])])
         = SumTo(AllGaps(list, n), n)
  <2>1. ASSUME NEW i \in 1 .. n
        PROVE  SumOf([j \in DOMAIN list |-> Gap(list[i], list[j])]) = SumTo(Gaps(list, list[i], n), n)
    <3>1. [j \in DOMAIN list |-> Gap(list[i], list[j])] = Gaps(list, list[i], n)
      BY <1>3 DEF Gaps
    <3>2. Gaps(list, list[i], n) \in [1 .. n -> Int]
      BY <1>3, <1>7
    <3> QED BY <3>1, <3>2, TotalOf
  <2>2. [i \in DOMAIN list |-> SumOf([j \in DOMAIN list |-> Gap(list[i], list[j])])] = AllGaps(list, n)
    BY <1>3, <2>1 DEF AllGaps
  <2> QED BY <1>9, <2>2, TotalOf
<1>13. n * SumTo(Weighted(asc, n), n) <= (n - 1) * (n * SumOf(asc))
  <2> DEFINE w == SumTo(Weighted(asc, n), n)
             s == SumOf(asc)
  <2>1. w \in Int /\ s \in Int /\ w <= (n - 1) * s
    BY <1>1, ListsAre, WeightedAtMost
  <2> HIDE DEF w, s
  <2>2. n * ((n - 1) * s - w) >= 0
    BY <2>1
  <2>3. n * ((n - 1) * s - w) = (n - 1) * (n * s) - n * w /\ (n - 1) * (n * s) \in Int /\ n * w \in Int
    BY <2>1
  <2>4. n * w <= (n - 1) * (n * s)
    BY <2>2, <2>3
  <2> QED BY <2>4 DEF w, s
<1> QED BY <1>1, <1>3, <1>6, <1>10, <1>11, <1>12, <1>13 DEF IsGini

-----------------------------------------------------------------------------
(* The concentration index.                                                *)

Squares(x, n) == [i \in 1 .. n |-> x[i] * x[i]]

\* Each entry times the sum of the others: the square of the sum without the squares.
LEMMA Crossed ==
  ASSUME NEW n \in Nat, NEW x \in Lists(n)
  PROVE  /\ SumTo(Squares(x, n), n) \in Int /\ SumTo(x, n) \in Int
         /\ SumOf([i \in DOMAIN x |-> x[i] * SumOf(Within(x, DOMAIN x \ {i}))])
              = SumTo(x, n) * SumTo(x, n) - SumTo(Squares(x, n), n)
<1> DEFINE s == SumTo(x, n)
           Others(i) == Within(x, DOMAIN x \ {i})
           z == [i \in 1 .. n |-> x[i] * SumOf(Others(i))]
           y == Squares(x, n)
           w == Scaled(s, x, n)
<1>1. DOMAIN x = 1 .. n /\ \A i \in 1 .. n : x[i] \in Int
  BY ListsAre
<1>2. n \in 0 .. n
  OBVIOUS
<1>3. s \in Int
  BY <1>1, <1>2, SumInt
<1>4. ASSUME NEW i \in 1 .. n
      PROVE  SumOf(Others(i)) = s - x[i]
  <2> DEFINE o == Others(i)
  <2>1. o = [k \in 1 .. n |-> IF k \in 1 .. n \ {i} THEN x[k] ELSE 0]
    BY <1>1 DEF Within
  <2> HIDE DEF o
  <2>2. /\ o \in [1 .. n -> Int] /\ \A k \in 1 .. n : x[k] \in Int /\ o[k] \in Int
        /\ \A k \in 1 .. n : k # i => x[k] = o[k]
    BY <1>1, <2>1
  <2>3. o[i] = 0
    BY <2>1
  <2>4. SumTo(o, n) = s - x[i] + o[i]
    BY <2>2, SumUpdate
  <2>5. SumOf(o) = SumTo(o, n)
    BY <2>2, TotalOf
  <2> QED BY <1>1, <1>3, <2>3, <2>4, <2>5 DEF o
<1>5. \A i \in 1 .. n : /\ w[i] \in Int /\ y[i] \in Int
                        /\ z[i] = w[i] - y[i] /\ z[i] \in Int
  <2> TAKE i \in 1 .. n
  <2>1. z[i] = x[i] * (s - x[i]) /\ w[i] = s * x[i] /\ y[i] = x[i] * x[i]
    BY <1>4 DEF Squares, Scaled
  <2> DEFINE a == x[i]
  <2>2. a \in Int
    BY <1>1
  <2> HIDE DEF a, s
  <2>3. s * a \in Int /\ a * a \in Int /\ a * (s - a) = s * a - a * a
    BY <1>3, <2>2
  <2>4. z[i] = a * (s - a) /\ w[i] = s * a /\ y[i] = a * a
    BY <2>1 DEF a
  <2> QED BY <2>3, <2>4
<1>6. z \in [1 .. n -> Int]
  BY <1>5
<1>7. [i \in DOMAIN x |-> x[i] * SumOf(Within(x, DOMAIN x \ {i}))] = z
  BY <1>1
<1> HIDE DEF z, w, y, s
<1>8. SumOf(z) = SumTo(z, n)
  BY <1>6, TotalOf
<1>9. SumTo(z, n) = SumTo(w, n) - SumTo(y, n)
  BY <1>5, SumMinus
<1>10. SumTo(w, n) = s * s
  BY <1>1, <1>3, SumScaled DEF w, s
<1>11. SumTo(y, n) \in Int
  BY <1>2, <1>5, SumInt
<1> QED BY <1>3, <1>7, <1>8, <1>9, <1>10, <1>11 DEF y, s

\* hhi is the chance that two units have one holder (metrics.go:105-118).
LEMMA HHITrue ==
  ASSUME NEW n \in Nat \ {0}, NEW list \in Lists(n), NEW asc, asc = Ascending(list)
  PROVE  IsHHI(hhi(asc, SumOf(asc)), list)
<1>1. asc \in Lists(n) /\ SumOf(asc) = SumOf(list)
  BY SortedList
<1>2. PICK p \in Perms(n) : \A i \in 1 .. n : asc[i] = list[p[i]]
  BY SortedList
<1>3. /\ DOMAIN asc = 1 .. n /\ SumOf(list) = SumTo(list, n) /\ SumOf(asc) # 0
      /\ \A i \in 1 .. n : asc[i] \in Int /\ list[i] \in Int /\ p[i] \in 1 .. n
  <2>1. /\ DOMAIN asc = 1 .. n /\ SumOf(list) = SumTo(list, n)
        /\ \A i \in 1 .. n : asc[i] \in Int /\ list[i] \in Int
    BY <1>1, ListsAre
  <2>2. SumTo(list, n) # 0
    BY SumPositive
  <2>3. \A i \in 1 .. n : p[i] \in 1 .. n
    BY PermOf
  <2> QED BY <1>1, <2>1, <2>2, <2>3
<1>4. Squares(asc, n) \in [1 .. n -> Int] /\ Squares(list, n) \in [1 .. n -> Int]
  <2>1. \A i \in 1 .. n : asc[i] * asc[i] \in Int /\ list[i] * list[i] \in Int
    BY <1>3
  <2> QED BY <2>1 DEF Squares
<1>5. SumOf([i \in DOMAIN asc |-> asc[i] * asc[i]]) = SumTo(Squares(asc, n), n)
  <2>1. [i \in DOMAIN asc |-> asc[i] * asc[i]] = Squares(asc, n)
    BY <1>3 DEF Squares
  <2> QED BY <1>4, <2>1, TotalOf
<1>6. SumTo(Squares(asc, n), n) = SumTo(Squares(list, n), n)
  <2> DEFINE x == Squares(list, n)
  <2>1. Squares(asc, n) = [i \in 1 .. n |-> x[p[i]]]
    BY <1>2, <1>3 DEF Squares
  <2>2. x \in [1 .. n -> Int]
    BY <1>4
  <2> HIDE DEF x
  <2>3. SumTo([i \in 1 .. n |-> x[p[i]]], n) = SumTo(x, n)
    BY <2>2, SumPermuted
  <2> QED BY <2>1, <2>3 DEF x
<1> DEFINE q == SumTo(Squares(list, n), n)
           s == SumOf(list)
<1>7. hhi(asc, SumOf(asc)) = [num |-> q, den |-> s * s]
  BY <1>1, <1>3, <1>5, <1>6 DEF hhi
<1>8. /\ SumOf([i \in DOMAIN list |-> list[i] * SumOf(Within(list, DOMAIN list \ {i}))]) = s * s - q
      /\ q \in Int /\ s \in Int
  BY <1>3, Crossed
<1> HIDE DEF q, s
<1> QED BY <1>7, <1>8 DEF IsHHI, s

-----------------------------------------------------------------------------
(* Parts of a list.                                                        *)

LEMMA WithinIs ==
  ASSUME NEW n \in Nat, NEW x \in [1 .. n -> Int], NEW H
  PROVE  /\ Within(x, H) \in [1 .. n -> Int]
         /\ \A i \in 1 .. n : Within(x, H)[i] = (IF i \in H THEN x[i] ELSE 0)
         /\ SumOf(Within(x, H)) = SumTo(Within(x, H), n)
         /\ SumOf(Within(x, H)) \in Int
<1>1. /\ Within(x, H) \in [1 .. n -> Int]
      /\ \A i \in 1 .. n : Within(x, H)[i] = (IF i \in H THEN x[i] ELSE 0)
  BY DEF Within
<1> DEFINE y == Within(x, H)
<1>2. \A i \in 1 .. n : y[i] \in Int
  BY <1>1
<1>3. SumOf(y) = SumTo(y, n)
  BY <1>1, TotalOf
<1> HIDE DEF y
<1>4. SumTo(y, n) \in Int
  <2>1. n \in 0 .. n
    OBVIOUS
  <2> QED BY <1>2, <2>1, SumInt
<1> QED BY <1>1, <1>3, <1>4 DEF y

\* When each entry of a part of the list is at least, or at most, a c-th of t, so are they
\* on average.
LEMMA PartAtLeast ==
  ASSUME NEW n \in Nat, NEW x \in [1 .. n -> Int], NEW H \in SUBSET (1 .. n),
         NEW c \in Int, NEW t \in Int, \A i \in H : x[i] * c >= t
  PROVE  c * SumOf(Within(x, H)) >= t * Cardinality(H)
<1> DEFINE w == Within(x, H)
           ind == Indicator(H, n)
           lo == Scaled(t, ind, n)
           hi == Scaled(c, w, n)
<1>1. \A i \in 1 .. n : x[i] \in Int /\ w[i] = (IF i \in H THEN x[i] ELSE 0)
  BY WithinIs
<1>2. \A i \in 1 .. n : ind[i] = IF i \in H THEN 1 ELSE 0
  BY DEF Indicator
<1>3. \A i \in 1 .. n : w[i] \in Int /\ ind[i] \in Int
  BY <1>1, <1>2
<1>4. \A i \in 1 .. n : lo[i] = t * ind[i] /\ hi[i] = c * w[i]
  BY DEF Scaled
<1>5. SumOf(w) = SumTo(w, n)
  BY WithinIs
<1>6. Cardinality(H) = SumTo(ind, n)
  BY CardSum
<1> HIDE DEF w, ind
<1>7. SumTo(lo, n) = t * SumTo(ind, n) /\ SumTo(hi, n) = c * SumTo(w, n)
  BY <1>3, SumScaled
<1> HIDE DEF lo, hi
<1>8. ASSUME NEW i \in 1 .. n PROVE lo[i] \in Int /\ hi[i] \in Int /\ lo[i] <= hi[i]
  <2>1. CASE i \in H
    <3>1. lo[i] = t /\ hi[i] = c * x[i] /\ x[i] \in Int
      BY <1>1, <1>2, <1>4, <2>1
    <3>2. c * x[i] = x[i] * c /\ c * x[i] \in Int
      BY <3>1
    <3> QED BY <2>1, <3>1, <3>2
  <2>2. CASE i \notin H
    <3>1. lo[i] = t * 0 /\ hi[i] = c * 0
      BY <1>1, <1>2, <1>4, <2>2
    <3> QED BY <3>1
  <2> QED BY <2>1, <2>2
<1>9. SumTo(lo, n) <= SumTo(hi, n)
  BY <1>8, SumMono
<1>10. t * SumTo(ind, n) <= c * SumTo(w, n)
  BY <1>7, <1>9
<1>11. SumTo(w, n) \in Int /\ SumTo(ind, n) \in Int
  <2>1. (\A i \in 1 .. n : w[i] \in Int) /\ (\A i \in 1 .. n : ind[i] \in Int) /\ n \in 0 .. n
    BY <1>3
  <2> QED BY <2>1, SumInt
<1>12. c * SumTo(w, n) >= t * SumTo(ind, n)
  BY <1>10, <1>11
<1> QED BY <1>5, <1>6, <1>12 DEF w

LEMMA PartAtMost ==
  ASSUME NEW n \in Nat, NEW x \in [1 .. n -> Int], NEW H \in SUBSET (1 .. n),
         NEW c \in Int, NEW t \in Int, \A i \in H : x[i] * c <= t
  PROVE  c * SumOf(Within(x, H)) <= t * Cardinality(H)
<1> DEFINE d == -c
           u == -t
<1>1. d \in Int /\ u \in Int /\ \A i \in H : x[i] * d >= u
  <2>1. \A i \in H : x[i] \in Int
    OBVIOUS
  <2>2. \A a \in Int : a * (-c) = -(a * c) /\ a * c \in Int
    OBVIOUS
  <2> QED BY <2>1, <2>2
<1> HIDE DEF d, u
<1>2. d * SumOf(Within(x, H)) >= u * Cardinality(H)
  BY <1>1, PartAtLeast
<1>3. SumOf(Within(x, H)) \in Int /\ Cardinality(H) \in Int
  BY WithinIs, CardSum, FS_CardinalityType
<1> DEFINE s == SumOf(Within(x, H))
           k == Cardinality(H)
<1> HIDE DEF s, k
<1>4. s \in Int /\ k \in Int /\ d * s >= u * k
  BY <1>2, <1>3 DEF s, k
<1>5. d * s = -(c * s) /\ u * k = -(t * k) /\ c * s \in Int /\ t * k \in Int
  BY <1>4 DEF d, u
<1>6. c * s <= t * k
  BY <1>4, <1>5
<1> QED BY <1>6 DEF s, k

\* Four parts with each position in one of them have the sum of the whole.
LEMMA FourParts ==
  ASSUME NEW n \in Nat, NEW x \in [1 .. n -> Int], NEW B,
         \A i \in 1 .. n : \E k \in 1 .. 4 : i \in B[k] /\ \A m \in 1 .. 4 : i \in B[m] => m = k
  PROVE  SumTo(Within(x, B[1]), n) + SumTo(Within(x, B[2]), n)
           + SumTo(Within(x, B[3]), n) + SumTo(Within(x, B[4]), n) = SumTo(x, n)
<1> DEFINE w1 == Within(x, B[1])
           w2 == Within(x, B[2])
           w3 == Within(x, B[3])
           w4 == Within(x, B[4])
           w12 == [i \in 1 .. n |-> w1[i] + w2[i]]
           w123 == [i \in 1 .. n |-> w12[i] + w3[i]]
<1>1. \A i \in 1 .. n :
        /\ x[i] \in Int
        /\ w1[i] = IF i \in B[1] THEN x[i] ELSE 0
        /\ w2[i] = IF i \in B[2] THEN x[i] ELSE 0
        /\ w3[i] = IF i \in B[3] THEN x[i] ELSE 0
        /\ w4[i] = IF i \in B[4] THEN x[i] ELSE 0
  <2> TAKE i \in 1 .. n
  <2>1. x[i] \in Int
    OBVIOUS
  <2>2. \A H : Within(x, H)[i] = IF i \in H THEN x[i] ELSE 0
    BY WithinIs
  <2> QED BY <2>1, <2>2, Zenon
<1> HIDE DEF w1, w2, w3, w4
<1>2. \A i \in 1 .. n : w12[i] = w1[i] + w2[i] /\ w123[i] = w12[i] + w3[i]
  OBVIOUS
<1> HIDE DEF w12, w123
<1>3. \A i \in 1 .. n : /\ w1[i] \in Int /\ w2[i] \in Int /\ w3[i] \in Int /\ w4[i] \in Int
                        /\ w12[i] \in Int /\ w123[i] \in Int
  <2> TAKE i \in 1 .. n
  <2>1. w1[i] \in Int /\ w2[i] \in Int /\ w3[i] \in Int /\ w4[i] \in Int
    BY <1>1
  <2> QED BY <1>2, <2>1
<1>4. \A i \in 1 .. n : x[i] = w123[i] + w4[i]
  <2> TAKE i \in 1 .. n
  <2>1. PICK k \in 1 .. 4 : i \in B[k] /\ \A m \in 1 .. 4 : i \in B[m] => m = k
    OBVIOUS
  <2>2. k = 1 \/ k = 2 \/ k = 3 \/ k = 4
    OBVIOUS
  <2>3. /\ i \in B[1] <=> k = 1
        /\ i \in B[2] <=> k = 2
        /\ i \in B[3] <=> k = 3
        /\ i \in B[4] <=> k = 4
    BY <2>1, <2>2
  <2> QED BY <1>1, <1>2, <1>3, <2>2, <2>3
<1>5. SumTo(w12, n) = SumTo(w1, n) + SumTo(w2, n)
  BY <1>2, <1>3, SumPlus
<1>6. SumTo(w123, n) = SumTo(w12, n) + SumTo(w3, n)
  <2>1. \A i \in 1 .. n : w12[i] \in Int /\ w3[i] \in Int /\ w123[i] = w12[i] + w3[i]
    BY <1>2, <1>3
  <2> QED BY <2>1, SumPlus
<1>7. SumTo(x, n) = SumTo(w123, n) + SumTo(w4, n)
  BY <1>3, <1>4, SumPlus
<1>8. SumTo(x, n) = SumTo(w1, n) + SumTo(w2, n) + SumTo(w3, n) + SumTo(w4, n)
  BY <1>5, <1>6, <1>7, Zenon
<1> QED BY <1>8 DEF w1, w2, w3, w4

-----------------------------------------------------------------------------
(* The buckets.                                                            *)

LEMMA SumOfFour ==
  ASSUME NEW x \in [1 .. 4 -> Int]
  PROVE  SumOf(x) = x[1] + x[2] + x[3] + x[4]
<1>1. SumOf(x) = SumTo(x, 4)
  BY TotalOf
<1>2. /\ SumTo(x, 0) = 0
      /\ SumTo(x, 0 + 1) = SumTo(x, 0) + x[0 + 1]
      /\ SumTo(x, 1 + 1) = SumTo(x, 1) + x[1 + 1]
      /\ SumTo(x, 2 + 1) = SumTo(x, 2) + x[2 + 1]
      /\ SumTo(x, 3 + 1) = SumTo(x, 3) + x[3 + 1]
  BY SumZero, SumStep
<1>3. x[1] \in Int /\ x[2] \in Int /\ x[3] \in Int /\ x[4] \in Int
  OBVIOUS
<1> QED BY <1>1, <1>2, <1>3

\* The holders of each bucket.
InBucket(asc, total, k) ==
  {i \in DOMAIN asc : /\ asc[i] * 10000 >= bucketDefs[k].min * total
                      /\ \A m \in 1 .. k - 1 : ~(asc[i] * 10000 >= bucketDefs[m].min * total)}

\* Each holder and each unit is in one bucket, and the holders in use of a higher bucket
\* hold more on average than those of a lower one (metrics.go:120-148).
LEMMA BucketsTrue ==
  ASSUME NEW n \in Nat, NEW list \in Lists(n), NEW asc, asc = Ascending(list)
  PROVE  ArePartition(buckets(asc, SumOf(asc)), list)
<1> DEFINE total == SumOf(asc)
           B == [k \in 1 .. 4 |-> InBucket(asc, total, k)]
           bs == buckets(asc, total)
           Least(k) == bucketDefs[k].min * total
<1>1. /\ asc \in Lists(n) /\ SumOf(list) = total /\ Len(list) = n
  BY SortedList, ListsAre
<1>2. /\ asc \in [1 .. n -> Int] /\ DOMAIN asc = 1 .. n
      /\ SumOf(asc) = SumTo(asc, n) /\ total \in Int
      /\ \A i \in 1 .. n : asc[i] \in Int /\ asc[i] > 0
  BY <1>1, ListsAre, SumPositive
<1>3. /\ DOMAIN bucketDefs = 1 .. 4
      /\ bucketDefs[1].min = 100 /\ bucketDefs[2].min = 10
      /\ bucketDefs[3].min = 1 /\ bucketDefs[4].min = 0
  BY DEF bucketDefs
<1>4. /\ DOMAIN bs = 1 .. 4
      /\ \A k \in 1 .. 4 : bs[k].count = Cardinality(B[k]) /\ bs[k].balance = SumOf(Within(asc, B[k]))
  <2> DEFINE Part(k) == InBucket(asc, total, k)
  <2>1. bs = [k \in DOMAIN bucketDefs |->
                [count |-> Cardinality(Part(k)), balance |-> SumOf(Within(asc, Part(k)))]]
    BY DEF buckets, InBucket
  <2> HIDE DEF Part, bs
  <2>2. /\ DOMAIN bs = 1 .. 4
        /\ \A k \in 1 .. 4 : bs[k].count = Cardinality(Part(k)) /\ bs[k].balance = SumOf(Within(asc, Part(k)))
    BY <1>3, <2>1
  <2>3. \A k \in 1 .. 4 : B[k] = Part(k)
    BY DEF Part
  <2> HIDE DEF B
  <2> QED BY <2>2, <2>3
<1>5. \A k \in 1 .. 4 : B[k] \in SUBSET (1 .. n)
  BY <1>2 DEF InBucket
<1>6. \A k \in 1 .. 4 : \A i \in 1 .. n :
        i \in B[k] <=> asc[i] * 10000 >= Least(k) /\ \A m \in 1 .. k - 1 : ~(asc[i] * 10000 >= Least(m))
  BY <1>2 DEF InBucket
<1> HIDE DEF bs, B, total
<1>7. \A k \in 1 .. 4 : Least(k) \in Int
  <2>1. Least(1) \in Int /\ Least(2) \in Int /\ Least(3) \in Int /\ Least(4) \in Int
    BY <1>2, <1>3
  <2> HIDE DEF Least
  <2> QED BY <2>1
<1>8. Least(4) = 0
  BY <1>2, <1>3
<1> HIDE DEF Least
<1>9. ASSUME NEW i \in 1 .. n
      PROVE  \E k \in 1 .. 4 : i \in B[k] /\ \A m \in 1 .. 4 : i \in B[m] => m = k
  <2> DEFINE Meets(k) == asc[i] * 10000 >= Least(k)
  <2>1. /\ i \in B[1] <=> Meets(1)
        /\ i \in B[2] <=> Meets(2) /\ ~Meets(1)
        /\ i \in B[3] <=> Meets(3) /\ ~Meets(1) /\ ~Meets(2)
        /\ i \in B[4] <=> Meets(4) /\ ~Meets(1) /\ ~Meets(2) /\ ~Meets(3)
    <3>1. \A k \in 1 .. 4 : i \in B[k] <=> Meets(k) /\ \A m \in 1 .. k - 1 : ~Meets(m)
      BY <1>6
    <3> HIDE DEF Meets
    <3>2. /\ 1 .. 1 - 1 = {} /\ 1 .. 2 - 1 = {1} /\ 1 .. 3 - 1 = {1, 2} /\ 1 .. 4 - 1 = {1, 2, 3}
          /\ 1 \in 1 .. 4 /\ 2 \in 1 .. 4 /\ 3 \in 1 .. 4 /\ 4 \in 1 .. 4
      OBVIOUS
    <3> QED BY <3>1, <3>2
  <2>2. Meets(4)
    <3>1. asc[i] \in Int /\ asc[i] > 0
      BY <1>2
    <3> QED BY <1>8, <3>1
  <2> HIDE DEF Meets
  <2>3. \A m \in 1 .. 4 : m = 1 \/ m = 2 \/ m = 3 \/ m = 4
    OBVIOUS
  <2>4. 1 \in 1 .. 4 /\ 2 \in 1 .. 4 /\ 3 \in 1 .. 4 /\ 4 \in 1 .. 4
    OBVIOUS
  <2>5. CASE Meets(1)
    BY <2>1, <2>3, <2>4, <2>5
  <2>6. CASE ~Meets(1) /\ Meets(2)
    BY <2>1, <2>3, <2>4, <2>6
  <2>7. CASE ~Meets(1) /\ ~Meets(2) /\ Meets(3)
    BY <2>1, <2>3, <2>4, <2>7
  <2>8. CASE ~Meets(1) /\ ~Meets(2) /\ ~Meets(3)
    BY <2>1, <2>2, <2>3, <2>4, <2>8
  <2> QED BY <2>5, <2>6, <2>7, <2>8
<1>10. \A k \in 1 .. 4 : bs[k].count \in Nat /\ bs[k].balance \in Int
  <2> TAKE k \in 1 .. 4
  <2>1. SumOf(Within(asc, B[k])) \in Int
    BY <1>2, WithinIs
  <2>2. Cardinality(B[k]) \in Nat
    BY <1>5, CardSum, FS_CardinalityType
  <2> QED BY <1>4, <2>1, <2>2
<1>11. SumOf([k \in DOMAIN bs |-> bs[k].count]) = n
  <2> DEFINE c == [k \in 1 .. 4 |-> bs[k].count]
             one == Constant(1, n)
  <2>1. SumOf(c) = c[1] + c[2] + c[3] + c[4]
    <3>1. c \in [1 .. 4 -> Int]
      BY <1>10
    <3> QED BY <3>1, SumOfFour
  <2>2. one \in [1 .. n -> Int] /\ SumTo(one, n) = n
    <3>1. SumTo(one, n) = n * 1
      BY SumConst
    <3> QED BY <3>1 DEF Constant
  <2>3. \A k \in 1 .. 4 : c[k] = SumTo(Within(one, B[k]), n)
    <3> TAKE k \in 1 .. 4
    <3>1. c[k] = SumTo(Indicator(B[k], n), n)
      BY <1>4, <1>5, CardSum
    <3>2. Within(one, B[k]) = Indicator(B[k], n)
      BY DEF Within, Indicator, Constant
    <3> QED BY <3>1, <3>2
  <2> HIDE DEF c, one
  <2>4. SumTo(Within(one, B[1]), n) + SumTo(Within(one, B[2]), n)
          + SumTo(Within(one, B[3]), n) + SumTo(Within(one, B[4]), n) = n
    BY <1>9, <2>2, FourParts
  <2>5. /\ c[1] = SumTo(Within(one, B[1]), n) /\ c[2] = SumTo(Within(one, B[2]), n)
        /\ c[3] = SumTo(Within(one, B[3]), n) /\ c[4] = SumTo(Within(one, B[4]), n)
    BY <2>3
  <2>6. SumOf(c) = n
    BY <2>1, <2>4, <2>5, Zenon
  <2> QED BY <1>4, <2>6 DEF c
<1>12. SumOf([k \in DOMAIN bs |-> bs[k].balance]) = total
  <2> DEFINE c == [k \in 1 .. 4 |-> bs[k].balance]
  <2>1. SumOf(c) = c[1] + c[2] + c[3] + c[4]
    <3>1. c \in [1 .. 4 -> Int]
      BY <1>10
    <3> QED BY <3>1, SumOfFour
  <2>2. \A k \in 1 .. 4 : c[k] = SumTo(Within(asc, B[k]), n)
    <3>1. \A H : SumOf(Within(asc, H)) = SumTo(Within(asc, H), n)
      BY <1>2, WithinIs
    <3>2. \A k \in 1 .. 4 : c[k] = SumOf(Within(asc, B[k]))
      BY <1>4
    <3> QED BY <3>1, <3>2, Zenon
  <2> HIDE DEF c
  <2>3. SumTo(Within(asc, B[1]), n) + SumTo(Within(asc, B[2]), n)
          + SumTo(Within(asc, B[3]), n) + SumTo(Within(asc, B[4]), n) = SumTo(asc, n)
    BY <1>2, <1>9, FourParts
  <2>4. /\ c[1] = SumTo(Within(asc, B[1]), n) /\ c[2] = SumTo(Within(asc, B[2]), n)
        /\ c[3] = SumTo(Within(asc, B[3]), n) /\ c[4] = SumTo(Within(asc, B[4]), n)
    BY <2>2
  <2>5. SumOf(c) = SumTo(asc, n)
    BY <2>1, <2>3, <2>4, Zenon
  <2> QED BY <1>2, <1>4, <2>5 DEF c, total
<1>13. ASSUME NEW k \in 1 .. 4, NEW m \in 1 .. 4, k < m, bs[k].count > 0, bs[m].count > 0
       PROVE  bs[k].balance * bs[m].count > bs[m].balance * bs[k].count
  <2> DEFINE a == bs[k].count
             b == bs[m].count
             u == bs[k].balance
             v == bs[m].balance
             t == Least(k)
             t1 == t - 1
  <2>1. \A i \in B[k] : asc[i] * 10000 >= t
    BY <1>5, <1>6
  <2>2. \A i \in B[m] : asc[i] * 10000 <= t1
    <3> TAKE i \in B[m]
    <3>1. i \in 1 .. n /\ k \in 1 .. m - 1
      BY <1>5, <1>13
    <3>2. ~(asc[i] * 10000 >= t)
      BY <1>6, <3>1
    <3>3. asc[i] \in Int /\ t \in Int
      BY <1>2, <1>7, <3>1
    <3> HIDE DEF t
    <3> QED BY <3>2, <3>3
  <2>3. a \in Nat \ {0} /\ b \in Nat \ {0} /\ u \in Int /\ v \in Int /\ t \in Int /\ t1 \in Int
    BY <1>7, <1>10, <1>13
  <2>4. t1 = t - 1
    OBVIOUS
  <2> HIDE DEF t, t1
  <2> DEFINE c == 10000
  <2>5. /\ c \in Int /\ B[k] \in SUBSET (1 .. n) /\ B[m] \in SUBSET (1 .. n)
        /\ (\A i \in B[k] : asc[i] * c >= t) /\ (\A i \in B[m] : asc[i] * c <= t1)
    BY <1>5, <2>1, <2>2
  <2> HIDE DEF c
  <2>6. c * SumOf(Within(asc, B[k])) >= t * Cardinality(B[k])
    BY <1>2, <2>3, <2>5, PartAtLeast
  <2>7. c * SumOf(Within(asc, B[m])) <= t1 * Cardinality(B[m])
    BY <1>2, <2>3, <2>5, PartAtMost
  <2>8. 10000 * u >= t * a /\ 10000 * v <= t1 * b
    BY <1>4, <2>7, <2>6 DEF c
  <2> HIDE DEF a, b, u, v
  <2>9. 10000 * (u * b) >= t * a * b
    BY <2>3, <2>8
  <2>10. t1 * b = t * b - b
    BY <2>3, <2>4
  <2>11. 10000 * v < t * b
    BY <2>3, <2>8, <2>10
  <2>12. 10000 * (v * a) < t * b * a
    BY <2>3, <2>11
  <2>13. u * b > v * a
    BY <2>3, <2>9, <2>12
  <2> QED BY <2>13 DEF a, b, u, v
<1>14. /\ SumOf([k \in DOMAIN bs |-> bs[k].count]) = Len(list)
       /\ SumOf([k \in DOMAIN bs |-> bs[k].balance]) = SumOf(list)
       /\ \A k, m \in DOMAIN bs : k < m /\ bs[k].count > 0 /\ bs[m].count > 0 =>
            bs[k].balance * bs[m].count > bs[m].balance * bs[k].count
  BY <1>1, <1>4, <1>11, <1>12, <1>13
<1> QED BY <1>14 DEF ArePartition, bs, total

-----------------------------------------------------------------------------
(* The Nakamoto coefficient.                                               *)

LEMMA PartSize ==
  ASSUME NEW n \in Nat, NEW g \in SUBSET (1 .. n)
  PROVE  /\ Cardinality(g) \in Nat /\ Cardinality(g) <= n
         /\ Cardinality(g) = 0 => g = {}
<1>1. IsFiniteSet(1 .. n) /\ Cardinality(1 .. n) = n
  <2>1. IsFiniteSet(1 .. n) /\ Cardinality(1 .. n) = IF 1 > n THEN 0 ELSE n - 1 + 1
    BY FS_Interval
  <2> QED BY <2>1
<1>2. IsFiniteSet(g) /\ Cardinality(g) <= Cardinality(1 .. n)
  BY <1>1, FS_Subset
<1> QED BY <1>1, <1>2, FS_CardinalityType, FS_EmptySet

\* The c largest entries have the largest sum of all parts with c entries.
LEMMA LargestPart ==
  ASSUME NEW n \in Nat, NEW x \in [1 .. n -> Int], NEW g \in SUBSET (1 .. n),
         \A i, j \in 1 .. n : i < j => x[i] <= x[j]
  PROVE  SumOf(Within(x, g)) <= SumOf(Within(x, n - Cardinality(g) + 1 .. n))
<1> DEFINE c == Cardinality(g)
           top == n - c + 1 .. n
<1>1. c \in Nat /\ c <= n
  BY PartSize
<1>2. CASE c = 0
  <2>1. g = {}
    BY <1>2, PartSize
  <2>2. top = {}
    BY <1>2
  <2>3. SumOf(Within(x, {})) \in Int
    BY WithinIs
  <2> HIDE DEF c, top
  <2>4. SumOf(Within(x, g)) <= SumOf(Within(x, top))
    BY <2>1, <2>2, <2>3
  <2> QED BY <2>4 DEF c, top
<1>3. CASE c # 0
  <2> DEFINE t == x[n - c + 1]
             wt == Within(x, top)
             wg == Within(x, g)
             it == Indicator(top, n)
             ig == Indicator(g, n)
             st == Scaled(t, it, n)
             sg == Scaled(t, ig, n)
             a == [i \in 1 .. n |-> wt[i] - st[i]]
             b == [i \in 1 .. n |-> wg[i] - sg[i]]
  <2> HIDE DEF c
  <2>1. n - c + 1 \in 1 .. n /\ t \in Int /\ top \in SUBSET (1 .. n)
    BY <1>1, <1>3
  <2>2. Cardinality(top) = c
    <3>1. Cardinality(top) = n - (n - c + 1) + 1
      BY <1>1, <1>3, <2>1, FS_Interval
    <3> QED BY <1>1, <3>1
  <2>3. \A i \in 1 .. n : /\ x[i] \in Int
                          /\ wt[i] = (IF i \in top THEN x[i] ELSE 0)
                          /\ wg[i] = (IF i \in g THEN x[i] ELSE 0)
    <3> HIDE DEF top
    <3> QED BY WithinIs
  <2>4. \A i \in 1 .. n : /\ it[i] = (IF i \in top THEN 1 ELSE 0)
                          /\ ig[i] = (IF i \in g THEN 1 ELSE 0)
    BY DEF Indicator
  <2>5. \A i \in 1 .. n : i \in top => x[i] >= t
    <3> TAKE i \in 1 .. n
    <3>1. CASE i = n - c + 1
      BY <3>1, <2>1
    <3>2. CASE i # n - c + 1
      <4>1. i \in top => n - c + 1 < i
        BY <1>1, <3>2
      <4>2. n - c + 1 < i => t <= x[i]
        BY <2>1
      <4> HIDE DEF top, t
      <4> QED BY <2>1, <2>3, <4>1, <4>2
    <3> QED BY <3>1, <3>2
  <2>6. \A i \in 1 .. n : i \notin top => x[i] <= t
    <3> TAKE i \in 1 .. n
    <3>1. i \notin top => i < n - c + 1
      BY <1>1
    <3>2. i < n - c + 1 => x[i] <= t
      BY <2>1
    <3> HIDE DEF top, t
    <3> QED BY <3>1, <3>2
  <2>7. \A i \in 1 .. n : st[i] = t * it[i] /\ sg[i] = t * ig[i]
    BY DEF Scaled
  <2>8. SumOf(wt) = SumTo(wt, n) /\ SumOf(wg) = SumTo(wg, n)
    <3> HIDE DEF top
    <3> QED BY WithinIs
  <2>9. SumTo(it, n) = c /\ SumTo(ig, n) = c
    <3> HIDE DEF top
    <3> QED BY <2>1, <2>2, CardSum DEF c
  <2>10. \A i \in 1 .. n : a[i] = wt[i] - st[i] /\ b[i] = wg[i] - sg[i]
    OBVIOUS
  <2> HIDE DEF t, top, wt, wg, it, ig
  <2>11. \A i \in 1 .. n : it[i] \in Int /\ ig[i] \in Int
    BY <2>4
  <2>12. SumTo(st, n) = t * c /\ SumTo(sg, n) = t * c
    BY <2>1, <2>9, <2>11, SumScaled
  <2> HIDE DEF st, sg, a, b
  <2>13. \A i \in 1 .. n : /\ wt[i] \in Int /\ wg[i] \in Int
                           /\ st[i] = (IF i \in top THEN t ELSE 0)
                           /\ sg[i] = (IF i \in g THEN t ELSE 0)
    <3> TAKE i \in 1 .. n
    <3>1. t * 1 = t /\ t * 0 = 0
      BY <2>1
    <3>2. wt[i] \in Int /\ wg[i] \in Int
      BY <2>3
    <3> QED BY <2>4, <2>7, <3>1, <3>2
  <2>14. \A i \in 1 .. n : st[i] \in Int /\ sg[i] \in Int
    BY <2>1, <2>13
  <2>15. \A i \in 1 .. n : a[i] \in Int /\ b[i] \in Int
    <3> TAKE i \in 1 .. n
    <3>1. wt[i] \in Int /\ wg[i] \in Int /\ st[i] \in Int /\ sg[i] \in Int
      BY <2>13, <2>14
    <3> QED BY <2>10, <3>1
  <2>16. \A i \in 1 .. n : b[i] <= a[i]
    <3> TAKE i \in 1 .. n
    <3>1. x[i] \in Int /\ t \in Int /\ a[i] = wt[i] - st[i] /\ b[i] = wg[i] - sg[i]
      BY <2>1, <2>3, <2>10
    <3>2. CASE i \in top
      <4>1. a[i] = x[i] - t /\ x[i] >= t
        BY <2>3, <2>5, <2>13, <3>1, <3>2
      <4>2. b[i] = x[i] - t \/ b[i] = 0
        BY <2>3, <2>13, <3>1
      <4> QED BY <3>1, <4>1, <4>2
    <3>3. CASE i \notin top
      <4>1. a[i] = 0 /\ x[i] <= t
        BY <2>3, <2>6, <2>13, <3>1, <3>3
      <4>2. b[i] = x[i] - t \/ b[i] = 0
        BY <2>3, <2>13, <3>1
      <4> QED BY <3>1, <4>1, <4>2
    <3> QED BY <3>2, <3>3
  <2>17. SumTo(b, n) <= SumTo(a, n)
    BY <2>15, <2>16, SumMono
  <2>18. SumTo(a, n) = SumTo(wt, n) - SumTo(st, n)
    <3>1. \A i \in 1 .. n : wt[i] \in Int /\ st[i] \in Int /\ a[i] = wt[i] - st[i]
      BY <2>10, <2>13, <2>14
    <3> QED BY <3>1, SumMinus
  <2>19. SumTo(b, n) = SumTo(wg, n) - SumTo(sg, n)
    <3>1. \A i \in 1 .. n : wg[i] \in Int /\ sg[i] \in Int /\ b[i] = wg[i] - sg[i]
      BY <2>10, <2>13, <2>14
    <3> QED BY <3>1, SumMinus
  <2>20. SumTo(wt, n) \in Int /\ SumTo(wg, n) \in Int
    <3> HIDE DEF top
    <3>1. SumOf(Within(x, top)) \in Int /\ SumOf(Within(x, g)) \in Int
      BY WithinIs
    <3> QED BY <2>8, <3>1 DEF wt, wg
  <2>21. t * c \in Int
    BY <1>1, <2>1
  <2> DEFINE w == t * c
  <2>22. SumTo(b, n) = SumTo(wg, n) - w /\ SumTo(a, n) = SumTo(wt, n) - w /\ w \in Int
    BY <2>12, <2>18, <2>19, <2>21, Zenon
  <2> HIDE DEF w
  <2>23. SumTo(wg, n) <= SumTo(wt, n)
    BY <2>17, <2>20, <2>22
  <2> QED BY <2>8, <2>23 DEF wt, wg, top, c
<1> QED BY <1>2, <1>3

\* A part of a list has the sum and the size of the same part in another order.
Moves(p, x, y, n) == \A i \in 1 .. n : y[i] = x[p[i]]
MovedFrom(p, h, n) == {i \in 1 .. n : p[i] \in h}

LEMMA PartMoved ==
  ASSUME NEW n \in Nat, NEW x \in [1 .. n -> Int], NEW y \in [1 .. n -> Int], NEW p \in Perms(n),
         Moves(p, x, y, n), NEW h \in SUBSET (1 .. n)
  PROVE  /\ SumOf(Within(y, MovedFrom(p, h, n))) = SumOf(Within(x, h))
         /\ Cardinality(MovedFrom(p, h, n)) = Cardinality(h)
         /\ MovedFrom(p, h, n) \in SUBSET (1 .. n)
<1> DEFINE g == MovedFrom(p, h, n)
<1>0. (\A i \in 1 .. n : y[i] = x[p[i]]) /\ g = {i \in 1 .. n : p[i] \in h}
  BY DEF Moves, MovedFrom
<1> HIDE DEF g
<1>1. \A i \in 1 .. n : p[i] \in 1 .. n
  BY PermOf
<1>2. SumOf(Within(y, g)) = SumOf(Within(x, h))
  <2> DEFINE w == Within(x, h)
  <2>1. w \in [1 .. n -> Int] /\ SumOf(w) = SumTo(w, n)
    BY WithinIs
  <2>2. Within(y, g) = [i \in 1 .. n |-> w[p[i]]]
    BY <1>0, <1>1 DEF Within
  <2> HIDE DEF w
  <2>3. SumTo(Within(y, g), n) = SumTo(w, n)
    BY <2>1, <2>2, SumPermuted
  <2>4. SumOf(Within(y, g)) = SumTo(Within(y, g), n)
    BY WithinIs
  <2> QED BY <2>1, <2>3, <2>4 DEF w
<1>3. Cardinality(g) = Cardinality(h)
  <2> DEFINE w == Indicator(h, n)
  <2>1. w \in [1 .. n -> Int]
    BY DEF Indicator
  <2>2. Indicator(g, n) = [i \in 1 .. n |-> w[p[i]]]
    BY <1>0, <1>1 DEF Indicator
  <2> HIDE DEF w
  <2>3. SumTo(Indicator(g, n), n) = SumTo(w, n)
    BY <2>1, <2>2, SumPermuted
  <2>4. g \in SUBSET (1 .. n)
    BY <1>0
  <2> QED BY <2>3, <2>4, CardSum DEF w
<1>4. g \in SUBSET (1 .. n)
  BY <1>0
<1> QED BY <1>2, <1>3, <1>4 DEF g

\* The k largest balances, where they were in the list.
MovedTo(p, S) == {p[i] : i \in S}

TopPartOf(p, x, y, n, k) ==
  LET top == n - k + 1 .. n IN
  /\ MovedTo(p, top) \in SUBSET (1 .. n)
  /\ Cardinality(MovedTo(p, top)) = k
  /\ SumOf(Within(x, MovedTo(p, top))) = SumOf(Within(y, top))

LEMMA TopPart ==
  ASSUME NEW n \in Nat, NEW x \in [1 .. n -> Int], NEW y \in [1 .. n -> Int], NEW p \in Perms(n),
         Moves(p, x, y, n), NEW k \in 1 .. n
  PROVE  TopPartOf(p, x, y, n, k)
<1> DEFINE top == n - k + 1 .. n
           h == MovedTo(p, top)
<1>1. top \in SUBSET (1 .. n) /\ Cardinality(top) = k
  <2>1. Cardinality(top) = n - (n - k + 1) + 1 /\ top \in SUBSET (1 .. n)
    BY FS_Interval
  <2> QED BY <2>1
<1>2. h \in SUBSET (1 .. n)
  <2>1. \A i \in 1 .. n : p[i] \in 1 .. n
    BY PermOf
  <2> HIDE DEF top
  <2> QED BY <1>1, <2>1 DEF MovedTo
<1>3. top = MovedFrom(p, h, n)
  <2>1. \A i, j \in 1 .. n : p[i] = p[j] => i = j
    BY PermOf
  <2> HIDE DEF top
  <2>2. \A i \in 1 .. n : p[i] \in h <=> i \in top
    BY <1>1, <2>1 DEF MovedTo
  <2> HIDE DEF h
  <2> QED BY <1>1, <2>2 DEF MovedFrom
<1> HIDE DEF top, h
<1>4. /\ SumOf(Within(y, MovedFrom(p, h, n))) = SumOf(Within(x, h))
      /\ Cardinality(MovedFrom(p, h, n)) = Cardinality(h)
  BY <1>2, PartMoved
<1>5. SumOf(Within(x, h)) = SumOf(Within(y, top)) /\ Cardinality(h) = k
  BY <1>1, <1>3, <1>4
<1> QED BY <1>2, <1>5 DEF top, h, TopPartOf

\* The walk from the largest balance down finds the size of a smallest set of holders with
\* more than half of the total (metrics.go:85-103): the sizes that suffice are the same.
LEMMA NakamotoTrue ==
  ASSUME NEW n \in Nat \ {0}, NEW list \in Lists(n), NEW asc, asc = Ascending(list)
  PROVE  IsNakamoto(nakamoto(asc, SumOf(asc)), list)
<1> DEFINE total == SumOf(asc)
           Top(k) == SumOf(Within(asc, n - k + 1 .. n))
           enough == {k \in 1 .. n : Top(k) > total \div 2}
           Sets == {g \in SUBSET (1 .. n) : 2 * SumOf(Within(list, g)) > SumOf(list)}
           sizes == {Cardinality(h) : h \in Sets}
<1>1. /\ asc \in Lists(n) /\ SumOf(asc) = SumOf(list)
      /\ \A i, j \in 1 .. n : i < j => asc[i] <= asc[j]
  BY SortedList
<1>2. PICK p \in Perms(n) : Moves(p, list, asc, n)
  BY SortedList DEF Moves
<1>3. /\ asc \in [1 .. n -> Int] /\ Len(asc) = n /\ DOMAIN asc = 1 .. n
      /\ list \in [1 .. n -> Int] /\ Len(list) = n /\ DOMAIN list = 1 .. n
  BY <1>1, ListsAre
<1>4. total \in Nat /\ total > 0
  BY <1>1, ListsAre, SumPositive
<1>5. ASSUME NEW s \in Int PROVE s > total \div 2 <=> 2 * s > total
  <2> HIDE DEF total
  <2> QED BY <1>4
<1>6. \A H : SumOf(Within(asc, H)) \in Int /\ SumOf(Within(list, H)) \in Int
  BY <1>3, WithinIs
<1>7. ASSUME NEW k \in enough PROVE k \in sizes
  <2>1. k \in 1 .. n /\ 2 * Top(k) > total
    BY <1>5, <1>6
  <2>2. PICK h : h \in SUBSET (1 .. n) /\ Cardinality(h) = k /\ SumOf(Within(list, h)) = Top(k)
    <3>1. n \in Nat
      OBVIOUS
    <3>2. k \in 1 .. n
      BY <2>1
    <3> HIDE DEF enough, Sets, total
    <3>3. TopPartOf(p, list, asc, n, k)
      BY <1>2, <1>3, <3>1, <3>2, TopPart
    <3> QED BY <3>3 DEF TopPartOf
  <2>3. h \in Sets
    BY <1>1, <2>1, <2>2
  <2> QED BY <2>2, <2>3
<1>8. ASSUME NEW h \in Sets PROVE Cardinality(h) \in enough
  <2> DEFINE g == MovedFrom(p, h, n)
             c == Cardinality(h)
  <2>1. SumOf(Within(asc, g)) = SumOf(Within(list, h)) /\ Cardinality(g) = c /\ g \in SUBSET (1 .. n)
    <3>1. h \in SUBSET (1 .. n)
      OBVIOUS
    <3> HIDE DEF Sets
    <3> QED BY <1>2, <1>3, <3>1, PartMoved
  <2>2. SumOf(Within(asc, g)) <= Top(c)
    <3> HIDE DEF g
    <3>1. SumOf(Within(asc, g)) <= SumOf(Within(asc, n - Cardinality(g) + 1 .. n))
      BY <1>1, <1>3, <2>1, LargestPart
    <3> QED BY <2>1, <3>1
  <2>3. 2 * SumOf(Within(asc, g)) > total
    BY <1>1, <2>1
  <2>4. Top(c) > total \div 2
    <3>1. Top(c) \in Int /\ SumOf(Within(asc, g)) \in Int
      BY <1>6
    <3> HIDE DEF Top, total, g
    <3> QED BY <1>4, <1>5, <2>2, <2>3, <3>1
  <2>5. c \in 1 .. n
    <3>1. c \in Nat /\ c <= n
      BY PartSize
    <3>2. c # 0
      <4> SUFFICES ASSUME h = {} PROVE FALSE
        BY PartSize
      <4> DEFINE w == Within(list, h)
                 z == Constant(0, n)
      <4>1. \A i \in 1 .. n : w[i] = z[i]
        BY WithinIs, <1>3 DEF Constant
      <4>2. SumOf(w) = SumTo(w, n)
        BY <1>3, WithinIs
      <4>3. SumTo(z, n) = n * 0
        BY SumConst
      <4> HIDE DEF w, z
      <4>4. SumTo(w, n) = 0
        BY <4>1, <4>3, SumEq
      <4> QED BY <1>1, <1>4, <4>2, <4>4 DEF w
    <3> QED BY <3>1, <3>2
  <2> QED BY <2>4, <2>5
<1>9. enough = sizes
  <2> HIDE DEF enough, Sets
  <2> QED BY <1>7, <1>8
<1>10. n \in enough
  <2>1. Within(asc, 1 .. n) = asc
    BY <1>3 DEF Within
  <2>2. n - n + 1 .. n = 1 .. n
    OBVIOUS
  <2>3. Top(n) = total
    BY <2>1, <2>2
  <2>4. total > total \div 2
    <3> HIDE DEF total
    <3> QED BY <1>4
  <2> QED BY <2>3, <2>4
<1>11. nakamoto(asc, total) = Min(enough)
  <2>1. enough # {}
    <3> HIDE DEF enough
    <3> QED BY <1>10
  <2> HIDE DEF total
  <2>2. total # 0
    BY <1>4
  <2> QED BY <1>3, <2>1, <2>2 DEF nakamoto
<1>12. IsNakamoto(Min(sizes), list)
  BY <1>3 DEF IsNakamoto
<1> HIDE DEF enough, sizes, total
<1> QED BY <1>9, <1>11, <1>12 DEF total

\* All four metrics of a list of balances are what they are defined to be.
LEMMA ComputeTrue ==
  ASSUME NEW n \in Nat, NEW list \in Lists(n)
  PROVE  LET m == Compute(list) IN
         /\ list # << >> => IsGini(m.gini, list) /\ IsNakamoto(m.nakamoto, list) /\ IsHHI(m.hhi, list)
         /\ ArePartition(m.buckets, list)
<1> DEFINE asc == Ascending(list)
           total == SumOf(asc)
<1>1. /\ Compute(list).gini = gini(asc, total) /\ Compute(list).nakamoto = nakamoto(asc, total)
      /\ Compute(list).hhi = hhi(asc, total) /\ Compute(list).buckets = buckets(asc, total)
  BY DEF Compute
<1>2. list # << >> => n # 0
  <2>1. n = 0 => list \in [1 .. 0 -> Nat \ {0}]
    BY DEF Lists
  <2> QED BY <2>1
<1>3. ArePartition(buckets(asc, total), list)
  BY BucketsTrue
<1>4. n # 0 => /\ IsGini(gini(asc, total), list) /\ IsNakamoto(nakamoto(asc, total), list)
               /\ IsHHI(hhi(asc, total), list)
  BY GiniTrue, NakamotoTrue, HHITrue
<1> HIDE DEF asc, total
<1> QED BY <1>1, <1>2, <1>3, <1>4

-----------------------------------------------------------------------------
(* The lists that Compute is given.                                        *)

\* The list of a set of rows has a balance for each of them, and no other.
LEMMA ListOfRows ==
  ASSUME NEW rows, IsFiniteSet(rows)
  PROVE  /\ Len(BalancesOf(rows)) = Cardinality(rows)
         /\ (\A h \in rows : h.balance \in Nat \ {0}) => BalancesOf(rows) \in Lists(Cardinality(rows))
<1> DEFINE n == Cardinality(rows)
           q == SetToSeq(rows)
           list == [i \in DOMAIN q |-> q[i].balance]
           All == {list[i] : i \in DOMAIN q}
<1>1. n \in Nat
  BY FS_CardinalityType
<1>2. q \in [1 .. n -> rows]
  <2>1. \E f : f \in Bijection(1 .. n, rows)
    BY FS_CardinalityType, FS_NatBijection, FS_CountingElements DEF ExistsBijection
  <2>2. \E f \in [1 .. n -> rows] : IsInjective(f)
    BY <2>1 DEF Bijection, Injection
  <2> QED BY <2>2 DEF SetToSeq
<1>3. list \in [1 .. n -> All]
  BY <1>2
<1>4. (\A h \in rows : h.balance \in Nat \ {0}) => list \in [1 .. n -> Nat \ {0}]
  <2> HIDE DEF q, n
  <2> QED BY <1>2
<1> HIDE DEF list, n, All
<1>5. Len(list) = n
  BY <1>1, <1>3, LenOf
<1> QED BY <1>4, <1>5 DEF BalancesOf, Lists, list, n

\* Compute counts the balances it is given (metrics.go:53).
LEMMA ComputeCounts ==
  ASSUME NEW list PROVE Compute(list).holders = Len(list)
BY DEF Compute

-----------------------------------------------------------------------------
(* The rows that a request reads, seen from the balances and the           *)
(* classifications of that moment.                                         *)

HoldersOf(list, cls) ==
  LET kept == {a \in DOMAIN list : list[a] > 0} IN
  {[addr |-> c.addr, on |-> c.chain, balance |-> list[c.addr], kind |-> c.kind] :
     c \in {d \in cls : d.addr \in kept}} \cup
  {[addr |-> a, on |-> "", balance |-> list[a], kind |-> ""] :
     a \in {b \in kept : \A c \in cls : c.addr # b}}

Kinds == {"eoa", "contract", "delegated"}

Classifications(cls) ==
  /\ IsFiniteSet(cls)
  /\ cls \subseteq [chain : Chains, addr : DOMAIN held, kind : Kinds]
  /\ \A c, d \in cls : c.chain = d.chain /\ c.addr = d.addr => c = d

TypesOK ==
  /\ \E n \in Nat : held \in [1 .. n -> Int]
  /\ state \in {"absent", "scanning", "ready"}
  /\ balances = IF state = "ready" THEN held ELSE << >>
  /\ via \in {"gateway", "service"} /\ pc \in {"idle", "holders", "meta", "replied"}
  /\ Classifications(classified) /\ Classifications(asOf)

\* A holder once classified on a chain stays so, whatever becomes of its kind.
OnlyMore == \A c \in asOf : \E d \in classified : c.chain = d.chain /\ c.addr = d.addr

\* The gateway lets only a request for a ready snapshot through.
GateHeld == via = "gateway" /\ pc \in {"holders", "meta"} => state = "ready"

\* What was read are the rows of the whole snapshot, or none: before the read, after a
\* refusal, or because a client of the service read before the snapshot completed.
ReadWhole ==
  \/ holders = HoldersOf(held, asOf)
  \/ holders = {} /\ (via = "service" \/ (pc # "meta" /\ ~Answered))

\* An answer is computed from what was read.
AnswerComputed ==
  Answered => /\ pc = "replied"
              /\ reply.raw = Compute(BalancesOf(holders))
              /\ reply.filtered = Compute(BalancesOf(Kept(holders)))

DistributionInv == TypesOK /\ OnlyMore /\ GateHeld /\ ReadWhole /\ AnswerComputed

LEMMA ReadsHolders == SnapshotHolders = HoldersOf(balances, classified)
BY DEF SnapshotHolders, HoldersOf, Row

LEMMA NoRows == \A cls : HoldersOf(<< >>, cls) = {}
BY DEF HoldersOf

\* A row comes from a classification of its holder, or from the lack of any.
FromClass(h) == \E c \in asOf :
  /\ h = [addr |-> c.addr, on |-> c.chain, balance |-> held[c.addr], kind |-> c.kind]
  /\ h.addr = c.addr /\ h.kind = c.kind

Unclassified(h) ==
  /\ h = [addr |-> h.addr, on |-> "", balance |-> held[h.addr], kind |-> ""]
  /\ h.kind = "" /\ \A c \in asOf : c.addr # h.addr

LEMMA RowsOfHolders ==
  /\ \A h \in HoldersOf(held, asOf) : h.addr \in Held /\ (FromClass(h) \/ Unclassified(h))
  /\ \A a \in Held : \E h \in HoldersOf(held, asOf) : h.addr = a
<1> DEFINE rows == HoldersOf(held, asOf)
           RowOf(c) == [addr |-> c.addr, on |-> c.chain, balance |-> held[c.addr], kind |-> c.kind]
           Blank(a) == [addr |-> a, on |-> "", balance |-> held[a], kind |-> ""]
<1>1. rows = {RowOf(c) : c \in {d \in asOf : d.addr \in Held}} \cup
             {Blank(a) : a \in {b \in Held : \A c \in asOf : c.addr # b}}
  BY DEF HoldersOf, Held
<1>2. /\ \A c : RowOf(c).addr = c.addr /\ RowOf(c).kind = c.kind
      /\ \A a : Blank(a).addr = a /\ Blank(a).kind = ""
  OBVIOUS
<1> HIDE DEF rows
<1>3. ASSUME NEW h \in rows
      PROVE  h.addr \in Held /\ (FromClass(h) \/ Unclassified(h))
  <2>1. ASSUME NEW c \in asOf, c.addr \in Held, h = RowOf(c)
        PROVE  h.addr \in Held /\ FromClass(h)
    BY <1>2, <2>1 DEF FromClass
  <2>2. ASSUME NEW a \in Held, \A c \in asOf : c.addr # a, h = Blank(a)
        PROVE  h.addr \in Held /\ Unclassified(h)
    BY <1>2, <2>2 DEF Unclassified
  <2> HIDE DEF RowOf, Blank
  <2> QED BY <1>1, <2>1, <2>2
<1>4. ASSUME NEW a \in Held
      PROVE  \E h \in rows : h.addr = a
  <2>1. ASSUME NEW c \in asOf, c.addr = a
        PROVE  \E h \in rows : h.addr = a
    <3> DEFINE h == [addr |-> c.addr, on |-> c.chain, balance |-> held[c.addr], kind |-> c.kind]
    <3>1. h \in rows
      BY <1>1, <2>1
    <3>2. h.addr = a
      BY <2>1
    <3> QED BY <3>1, <3>2
  <2>2. CASE \A c \in asOf : c.addr # a
    <3> DEFINE h == [addr |-> a, on |-> "", balance |-> held[a], kind |-> ""]
    <3>1. h \in rows
      BY <1>1, <2>2
    <3>2. h.addr = a
      OBVIOUS
    <3> QED BY <3>1, <3>2
  <2> QED BY <2>1, <2>2
<1> QED BY <1>3, <1>4 DEF rows

\* The rows are finitely many, each with a positive balance.
LEMMA RowsHold ==
  ASSUME TypesOK
  PROVE  /\ IsFiniteSet(HoldersOf(held, asOf))
         /\ \A h \in HoldersOf(held, asOf) : h.balance \in Nat \ {0}
<1> DEFINE RowOf(c) == [addr |-> c.addr, on |-> c.chain, balance |-> held[c.addr], kind |-> c.kind]
           Blank(a) == [addr |-> a, on |-> "", balance |-> held[a], kind |-> ""]
           known == {d \in asOf : d.addr \in Held}
           others == {b \in Held : \A c \in asOf : c.addr # b}
           A == {RowOf(c) : c \in known}
           B == {Blank(a) : a \in others}
<1>1. HoldersOf(held, asOf) = A \cup B
  BY DEF HoldersOf, Held
<1>2. IsFiniteSet(known) /\ IsFiniteSet(others)
  <2>1. PICK n \in Nat : DOMAIN held = 1 .. n
    BY DEF TypesOK
  <2>2. IsFiniteSet(1 .. n) /\ others \subseteq 1 .. n
    BY <2>1, FS_Interval DEF Held
  <2>3. IsFiniteSet(asOf) /\ known \subseteq asOf
    BY DEF TypesOK, Classifications
  <2> QED BY <2>2, <2>3, FS_Subset
<1>3. IsFiniteSet(A)
  <2>1. [c \in known |-> RowOf(c)] \in Surjection(known, A)
    BY DEF Surjection
  <2> HIDE DEF A, known
  <2> QED BY <1>2, <2>1, FS_Surjection
<1>4. IsFiniteSet(B)
  <2>1. [a \in others |-> Blank(a)] \in Surjection(others, B)
    BY DEF Surjection
  <2> HIDE DEF B, others
  <2> QED BY <1>2, <2>1, FS_Surjection
<1> HIDE DEF A, B
<1>5. IsFiniteSet(HoldersOf(held, asOf))
  BY <1>1, <1>3, <1>4, FS_Union
<1>6. ASSUME NEW h \in HoldersOf(held, asOf)
      PROVE  h.balance \in Nat \ {0}
  <2>1. \A a \in Held : held[a] \in Nat \ {0}
    BY DEF TypesOK, Held
  <2>2. h.addr \in Held /\ (FromClass(h) \/ Unclassified(h))
    BY RowsOfHolders
  <2>3. CASE FromClass(h)
    <3>1. PICK c \in asOf :
            /\ h = [addr |-> c.addr, on |-> c.chain, balance |-> held[c.addr], kind |-> c.kind]
            /\ h.addr = c.addr
      BY <2>3 DEF FromClass
    <3>2. h.balance = held[c.addr]
      BY <3>1
    <3> QED BY <2>1, <2>2, <3>1, <3>2
  <2>4. CASE Unclassified(h)
    <3>1. PICK a : h = [addr |-> a, on |-> "", balance |-> held[a], kind |-> ""] /\ a = h.addr
      BY <2>4 DEF Unclassified
    <3>2. h.balance = held[a]
      BY <3>1
    <3> QED BY <2>1, <2>2, <3>1, <3>2
  <2> QED BY <2>2, <2>3, <2>4
<1> QED BY <1>5, <1>6

\* With every holder classified on one chain at most, the rows of a snapshot are as
\* many as its holders, and those kept by the filter as many as the others than programs.
LEMMA OneRowEach ==
  ASSUME TypesOK, \A c, d \in asOf : c.addr = d.addr => c.chain = d.chain
  PROVE  /\ IsFiniteSet(HoldersOf(held, asOf))
         /\ Cardinality(HoldersOf(held, asOf)) = Cardinality(Held)
         /\ Cardinality(Kept(HoldersOf(held, asOf)))
              = Cardinality({a \in Held : Programs(a) = {}})
<1> DEFINE rows == HoldersOf(held, asOf)
           Others == {a \in Held : Programs(a) = {}}
<1>1. IsFiniteSet(Held) /\ IsFiniteSet(Others)
  <2>1. PICK n \in Nat : DOMAIN held = 1 .. n
    BY DEF TypesOK
  <2>2. IsFiniteSet(1 .. n) /\ Held \subseteq 1 .. n /\ Others \subseteq Held
    BY <2>1, FS_Interval DEF Held
  <2> QED BY <2>2, FS_Subset
<1>2. /\ asOf \subseteq [chain : Chains, addr : DOMAIN held, kind : Kinds]
      /\ \A c, d \in asOf : c.addr = d.addr => c = d
  BY DEF TypesOK, Classifications
<1>3. ASSUME NEW h \in rows
      PROVE  h.addr \in Held /\ (FromClass(h) \/ Unclassified(h))
  BY RowsOfHolders
<1>4. \A g, h \in rows : g.addr = h.addr => g = h
  <2> SUFFICES ASSUME NEW g \in rows, NEW h \in rows, g.addr = h.addr PROVE g = h
    OBVIOUS
  <2>1. CASE FromClass(g) /\ FromClass(h)
    BY <1>2, <2>1 DEF FromClass
  <2>2. CASE Unclassified(g) /\ Unclassified(h)
    BY <2>2 DEF Unclassified
  <2>3. ~(FromClass(g) /\ Unclassified(h)) /\ ~(FromClass(h) /\ Unclassified(g))
    BY DEF FromClass, Unclassified
  <2> HIDE DEF rows
  <2> QED BY <1>3, <2>1, <2>2, <2>3
<1>5. \A a \in Held : \E h \in rows : h.addr = a
  BY RowsOfHolders
<1>6. ASSUME NEW h \in rows
      PROVE  h.kind \notin {"contract", "delegated"} <=> Programs(h.addr) = {}
  <2>1. CASE FromClass(h)
    BY <1>2, <2>1 DEF Programs, FromClass
  <2>2. CASE Unclassified(h)
    BY <2>2 DEF Programs, Unclassified
  <2> QED BY <1>3, <2>1, <2>2
<1> HIDE DEF rows
<1>7. [h \in rows |-> h.addr] \in Bijection(rows, Held)
  BY <1>3, <1>4, <1>5 DEF Bijection, Injection, Surjection, IsInjective
<1>8. [a \in Held |-> CHOOSE h \in rows : h.addr = a] \in Bijection(Held, rows)
  BY <1>3, <1>4, <1>5 DEF Bijection, Injection, Surjection, IsInjective
<1>9. [a \in Others |-> CHOOSE h \in rows : h.addr = a] \in Bijection(Others, Kept(rows))
  <2> DEFINE RowOf(a) == CHOOSE h \in rows : h.addr = a
  <2>1. \A a \in Held : RowOf(a) \in rows /\ RowOf(a).addr = a
    BY <1>5
  <2>2. \A h \in rows : RowOf(h.addr) = h
    BY <1>4
  <2> HIDE DEF RowOf
  <2>3. \A a \in Others : RowOf(a) \in Kept(rows)
    BY <1>6, <2>1 DEF Kept
  <2>4. \A h \in Kept(rows) : h.addr \in Others /\ RowOf(h.addr) = h
    BY <1>3, <1>6, <2>2 DEF Kept
  <2>5. [a \in Others |-> RowOf(a)] \in Bijection(Others, Kept(rows))
    <3> HIDE DEF Others
    <3>1. Others \subseteq Held
      BY DEF Others
    <3> QED BY <3>1, <2>1, <2>3, <2>4 DEF Bijection, Injection, Surjection, IsInjective
  <2> QED BY <2>5 DEF RowOf
<1> HIDE DEF Others
<1> QED BY <1>1, <1>8, <1>9, FS_Bijection DEF ExistsBijection, rows, Others

-----------------------------------------------------------------------------
(* The invariant.                                                          *)

LEMMA DistributionInit == Init => DistributionInv
<1> SUFFICES ASSUME Init PROVE DistributionInv
  OBVIOUS
<1>1. \E n \in Nat : held \in [1 .. n -> Int]
  <2>1. PICK n \in 0 .. MaxHolders : held \in [1 .. n -> Values]
    BY DEF Init
  <2>2. n \in Nat /\ held \in [1 .. n -> Int]
    <3>1. Values \subseteq Int /\ MaxHolders \in Nat
      BY DistributionAssumption
    <3>2. n \in Nat
      BY <3>1
    <3>3. \A i \in 1 .. n : held[i] \in Int
      BY <2>1, <3>1
    <3> QED BY <2>1, <3>2, <3>3
  <2> QED BY <2>2
<1>2. TypesOK /\ OnlyMore
  BY <1>1, FS_EmptySet DEF Init, TypesOK, OnlyMore, Classifications
<1>3. ~Answered
  BY DEF Init, Answered, NoReply
<1> QED BY <1>2, <1>3 DEF Init, DistributionInv, GateHeld, ReadWhole, AnswerComputed

\* A stored classification replaces the one of its holder on its chain.
LEMMA Upserted ==
  ASSUME DistributionInv, NEW c \in Chains, NEW a \in DOMAIN held, NEW k \in Kinds,
         Upsert(c, a, k)
  PROVE  DistributionInv'
<1> DEFINE new == [chain |-> c, addr |-> a, kind |-> k]
           rest == {d \in classified : d.chain # c \/ d.addr # a}
<1>1. classified' = rest \cup {new} /\ UNCHANGED <<state, balances, held, request>>
  BY DEF Upsert
<1>2. Classifications(classified)'
  <2>1. IsFiniteSet(rest \cup {new})
    BY FS_Subset, FS_AddElement DEF DistributionInv, TypesOK, Classifications
  <2>2. rest \cup {new} \subseteq [chain : Chains, addr : DOMAIN held, kind : Kinds]
    BY DEF DistributionInv, TypesOK, Classifications
  <2>3. ASSUME NEW d \in rest \cup {new}, NEW e \in rest \cup {new}, d.chain = e.chain, d.addr = e.addr
        PROVE  d = e
    BY <2>3 DEF DistributionInv, TypesOK, Classifications
  <2> HIDE DEF new, rest
  <2> QED BY <1>1, <2>1, <2>2, <2>3 DEF Classifications
<1>3. TypesOK'
  BY <1>1, <1>2 DEF DistributionInv, TypesOK, Classifications, request
<1>4. OnlyMore'
  <2>1. ASSUME NEW d \in classified
        PROVE  \E e \in rest \cup {new} : d.chain = e.chain /\ d.addr = e.addr
    <3>1. CASE d.chain = c /\ d.addr = a
      <4>1. new.chain = c /\ new.addr = a /\ new \in rest \cup {new}
        OBVIOUS
      <4> QED BY <3>1, <4>1
    <3>2. CASE ~(d.chain = c /\ d.addr = a)
      <4>1. d \in rest
        BY <3>2
      <4> QED BY <4>1
    <3> QED BY <3>1, <3>2
  <2> HIDE DEF new, rest
  <2> QED BY <1>1, <2>1 DEF DistributionInv, OnlyMore, request
<1>5. (GateHeld /\ ReadWhole /\ AnswerComputed)'
  BY <1>1 DEF DistributionInv, GateHeld, ReadWhole, AnswerComputed, Answered, request
<1> QED BY <1>3, <1>4, <1>5 DEF DistributionInv

LEMMA DistributionNext == DistributionInv /\ [Next]_vars => DistributionInv'
<1> SUFFICES ASSUME DistributionInv, [Next]_vars PROVE DistributionInv'
  OBVIOUS
<1> USE DEF DistributionInv
<1>1. CASE Ingest \/ Complete
  <2>1. TypesOK' /\ UNCHANGED <<held, classified, request>>
    BY <1>1 DEF Ingest, Complete, TypesOK, Classifications, request
  <2>2. GateHeld'
    BY <1>1 DEF Ingest, Complete, GateHeld, request
  <2> QED BY <2>1, <2>2 DEF OnlyMore, ReadWhole, AnswerComputed, Answered, request
<1>2. CASE \E c \in Chains, a \in DOMAIN held, k \in Kinds : Upsert(c, a, k)
  BY <1>2, Upserted
<1>3. ASSUME NEW code \in {404, 409, 500, 502}, pc # "replied", Replies(code),
             UNCHANGED <<database, via, holders, asOf>>
      PROVE  DistributionInv'
  <2>1. TypesOK' /\ OnlyMore' /\ GateHeld'
    BY <1>3 DEF Replies, TypesOK, Classifications, OnlyMore, GateHeld, database
  <2>2. ~Answered'
    BY <1>3 DEF Replies, Answered
  <2> QED BY <1>3, <2>1, <2>2 DEF Replies, ReadWhole, AnswerComputed, database
<1>4. CASE \/ SnapshotStatus /\ state = "ready"
           \/ CallService
  <2>1. /\ pc = "idle" /\ pc' = "holders"
        /\ via = "gateway" => state = "ready"
        /\ UNCHANGED <<database, via, holders, asOf, reply>>
    BY <1>4 DEF SnapshotStatus, CallService
  <2>2. TypesOK' /\ OnlyMore' /\ GateHeld'
    BY <2>1 DEF TypesOK, Classifications, OnlyMore, GateHeld, database
  <2>3. ReadWhole' /\ AnswerComputed'
    BY <2>1 DEF ReadWhole, AnswerComputed, Answered, database
  <2> QED BY <2>2, <2>3
<1>5. CASE SnapshotStatus \/ StatusFails \/ ServiceFails
  BY <1>3, <1>4, <1>5 DEF SnapshotStatus, StatusFails, ServiceFails, TypesOK
<1>6. CASE ReadHolders
  <2>1. /\ pc = "holders" /\ pc' = "meta" /\ asOf' = classified
        /\ holders' = HoldersOf(balances, classified)
        /\ UNCHANGED <<database, via, reply>>
    BY <1>6, ReadsHolders DEF ReadHolders
  <2>2. TypesOK' /\ OnlyMore' /\ GateHeld'
    BY <2>1 DEF TypesOK, Classifications, OnlyMore, GateHeld, database
  <2>3. ReadWhole'
    <3>1. CASE state = "ready"
      BY <2>1, <3>1 DEF TypesOK, ReadWhole, database
    <3>2. CASE state # "ready"
      BY <2>1, <3>2, NoRows DEF TypesOK, ReadWhole, GateHeld, database
    <3> QED BY <3>1, <3>2
  <2>4. AnswerComputed'
    BY <2>1 DEF AnswerComputed, Answered
  <2> QED BY <2>2, <2>3, <2>4
<1>7. CASE ReadMeta /\ state = "ready"
  <2>1. /\ pc = "meta" /\ pc' = "replied" /\ UNCHANGED <<database, via, holders, asOf>>
        /\ reply' = [code |-> 200, raw |-> Compute(BalancesOf(holders)),
                     filtered |-> Compute(BalancesOf(Kept(holders)))]
    BY <1>7 DEF ReadMeta
  <2>2. TypesOK' /\ OnlyMore' /\ GateHeld'
    BY <2>1 DEF TypesOK, Classifications, OnlyMore, GateHeld, database
  <2>3. ReadWhole'
    BY <2>1 DEF ReadWhole, database
  <2>4. /\ reply'.raw = Compute(BalancesOf(holders))
        /\ reply'.filtered = Compute(BalancesOf(Kept(holders)))
    BY <2>1
  <2> QED BY <2>1, <2>2, <2>3, <2>4 DEF AnswerComputed, Answered, Kept
<1>8. CASE ReadMeta /\ state # "ready"
  BY <1>3, <1>8 DEF ReadMeta
<1>9. CASE UNCHANGED vars
  BY <1>9 DEF vars, database, request, TypesOK, Classifications, OnlyMore, GateHeld,
     ReadWhole, AnswerComputed, Answered
<1> QED
  BY <1>1, <1>2, <1>4, <1>5, <1>6, <1>7, <1>8, <1>9
  DEF Next, getDistribution, GetDistribution, Kinds

THEOREM DistributionAlways == Spec => []DistributionInv
BY DistributionInit, DistributionNext, PTL DEF Spec

\* With one chain each now, it was one chain each when the holders were read.
LEMMA OneChainThen ==
  ASSUME DistributionInv, OneChainEach
  PROVE  \A c, d \in asOf : c.addr = d.addr => c.chain = d.chain
BY DEF DistributionInv, OnlyMore, OneChainEach

\* An answer covers the snapshot whole, each holder once, or is an empty one to a client
\* that skipped the gateway's check (server.go:31-35, handlers.go:113).
THEOREM AnswersAreWhole == Spec => []AnswerWhole
<1>1. DistributionInv => AnswerWhole
  <2> SUFFICES ASSUME DistributionInv, Answered PROVE AnswerWhole
    BY DEF AnswerWhole
  <2>1. reply.raw.holders = Len(BalancesOf(holders)) /\ pc = "replied"
    BY ComputeCounts DEF DistributionInv, AnswerComputed
  <2>2. CASE holders = {}  /\ via = "service"
    <3>1. IsFiniteSet({}) /\ Cardinality({}) = 0
      BY FS_EmptySet
    <3> QED BY <2>1, <2>2, <3>1, ListOfRows DEF AnswerWhole
  <2>3. CASE holders = HoldersOf(held, asOf)
    <3>1. {h.addr : h \in holders} = Held
      BY <2>3, RowsOfHolders
    <3>2. OneChainEach => reply.raw.holders = Cardinality(Held)
      BY <2>1, <2>3, OneChainThen, OneRowEach, ListOfRows DEF DistributionInv
    <3> QED BY <3>1, <3>2 DEF AnswerWhole
  <2> QED BY <2>2, <2>3 DEF DistributionInv, ReadWhole
<1> QED BY <1>1, DistributionAlways, PTL

\* The filtered metrics count the holders not then known as programs, and no other
\* (server.go:44-47).
THEOREM FilterLeavesOutPrograms == Spec => []FilteredLeavesOutPrograms
<1>1. DistributionInv => FilteredLeavesOutPrograms
  <2> SUFFICES ASSUME DistributionInv, Answered, OneChainEach, holders # {}
               PROVE  reply.filtered.holders = Cardinality({a \in Held : Programs(a) = {}})
    BY DEF FilteredLeavesOutPrograms
  <2>1. holders = HoldersOf(held, asOf)
    BY DEF DistributionInv, ReadWhole
  <2>2. /\ IsFiniteSet(holders)
        /\ Cardinality(Kept(holders)) = Cardinality({a \in Held : Programs(a) = {}})
    BY <2>1, OneChainThen, OneRowEach DEF DistributionInv
  <2>3. IsFiniteSet(Kept(holders))
    BY <2>2, FS_Subset DEF Kept
  <2> QED BY <2>2, <2>3, ListOfRows, ComputeCounts DEF DistributionInv, AnswerComputed
<1> QED BY <1>1, DistributionAlways, PTL

\* Every answer's metrics, raw and filtered, are for the balances it is about what they are
\* defined to be, for lists of any length (metrics.go:30-139).
THEOREM MetricsTrue == Spec => []MetricsMeetDefinitions
<1>1. DistributionInv => MetricsMeetDefinitions
  <2> SUFFICES ASSUME DistributionInv, Answered PROVE MetricsMeetDefinitions
    BY DEF MetricsMeetDefinitions
  <2> DEFINE Meets(m, list) ==
        /\ list # << >> => IsGini(m.gini, list) /\ IsNakamoto(m.nakamoto, list) /\ IsHHI(m.hhi, list)
        /\ ArePartition(m.buckets, list)
  <2>1. IsFiniteSet(holders) /\ \A h \in holders : h.balance \in Nat \ {0}
    <3>1. IsFiniteSet({})
      BY FS_EmptySet
    <3>2. holders = {} \/ holders = HoldersOf(held, asOf)
      BY DEF DistributionInv, ReadWhole
    <3> QED BY <3>1, <3>2, RowsHold DEF DistributionInv
  <2>2. ASSUME NEW rows \in SUBSET holders
        PROVE  Meets(Compute(BalancesOf(rows)), BalancesOf(rows))
    <3>1. IsFiniteSet(rows) /\ \A h \in rows : h.balance \in Nat \ {0}
      BY <2>1, FS_Subset
    <3> DEFINE n == Cardinality(rows)
               list == BalancesOf(rows)
    <3>2. n \in Nat /\ list \in Lists(n)
      BY <3>1, FS_CardinalityType, ListOfRows
    <3> HIDE DEF n, list
    <3>3. Meets(Compute(list), list)
      BY <3>2, ComputeTrue
    <3> QED BY <3>3 DEF list
  <2>3. holders \in SUBSET holders /\ Kept(holders) \in SUBSET holders
    BY DEF Kept
  <2>4. /\ reply.raw = Compute(BalancesOf(holders))
        /\ reply.filtered = Compute(BalancesOf(Kept(holders)))
    BY DEF DistributionInv, AnswerComputed
  <2> HIDE DEF Meets
  <2>5. Meets(reply.raw, BalancesOf(holders)) /\ Meets(reply.filtered, BalancesOf(Kept(holders)))
    BY <2>2, <2>3, <2>4
  <2>6. \A answer \in Answers : Meets(answer[1], answer[2])
    BY <2>5 DEF Answers
  <2> QED BY <2>6 DEF MetricsMeetDefinitions, Meets
<1> QED BY <1>1, DistributionAlways, PTL
=============================================================================

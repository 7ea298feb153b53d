------------------------------ MODULE Metrics -------------------------------
(***************************************************************************)
(* analytics.Compute: the distribution metrics of a list of balances.      *)
(* Ratios are kept as exact fractions [num, den].  The code rounds: the    *)
(* sum of gini, and its quotient, and each share of hhi and of buckets to  *)
(* float64 before it is squared and added, or compared with a threshold.   *)
(***************************************************************************)
EXTENDS Integers, Sequences, FiniteSetsExt, Functions

\* What a loop over the first n entries adds up to.
SumTo(x, n) ==
  LET sum[k \in 0 .. n] == IF k = 0 THEN 0 ELSE sum[k - 1] + x[k] IN sum[n]

SumOf(x) == SumTo(x, Len(x))

\* The same list with nothing outside S.
Within(x, S) == [i \in DOMAIN x |-> IF i \in S THEN x[i] ELSE 0]

\* sort.Slice: the entries in an order that never falls.
SortedBy(p, list) == \A i, j \in DOMAIN list : i < j => list[p[i]] <= list[p[j]]
Ascending(list) ==
  LET p == CHOOSE q \in Bijection(DOMAIN list, DOMAIN list) : SortedBy(q, list)
  IN  [i \in DOMAIN list |-> list[p[i]]]

\* A mutation of gini: positions counted from 0.
giniFromZero(asc, total) ==
  LET n == Len(asc) IN
  IF n = 0 \/ total = 0 THEN [num |-> 0, den |-> 1]
  ELSE [num |-> SumOf([i \in DOMAIN asc |-> (2 * (i - 1) - n - 1) * asc[i]]), den |-> n * total]

gini(asc, total) ==
  LET n == Len(asc) IN
  IF n = 0 \/ total = 0 THEN [num |-> 0, den |-> 1]
  ELSE [num |-> SumOf([i \in DOMAIN asc |-> (2 * i - n - 1) * asc[i]]), den |-> n * total]

\* A mutation of nakamoto: half of the total is enough.
nakamotoAtHalf(asc, total) ==
  LET Top(k) == SumOf(Within(asc, Len(asc) - k + 1 .. Len(asc)))
      enough == {k \in 1 .. Len(asc) : Top(k) >= total \div 2}
  IN  IF total = 0 THEN 0 ELSE IF enough = {} THEN Len(asc) ELSE Min(enough)

\* The walk from the largest balance down stops once it has more than half.
nakamoto(asc, total) ==
  LET Top(k) == SumOf(Within(asc, Len(asc) - k + 1 .. Len(asc)))
      enough == {k \in 1 .. Len(asc) : Top(k) > total \div 2}
  IN  IF total = 0 THEN 0 ELSE IF enough = {} THEN Len(asc) ELSE Min(enough)

\* A mutation of hhi: shares are not squared.
hhiLinear(asc, total) ==
  IF total = 0 THEN [num |-> 0, den |-> 1] ELSE [num |-> SumOf(asc) * total, den |-> total * total]

hhi(asc, total) ==
  IF total = 0 THEN [num |-> 0, den |-> 1]
  ELSE [num |-> SumOf([i \in DOMAIN asc |-> asc[i] * asc[i]]), den |-> total * total]

\* Labels with the least share of each, in ten-thousandths, highest first.
bucketDefs == <<[label |-> "whale", min |-> 100], [label |-> "dolphin", min |-> 10],
                [label |-> "fish", min |-> 1], [label |-> "shrimp", min |-> 0]>>

\* A mutation of buckets: a holder counts in every bucket it meets.
bucketsNested(asc, total) ==
  [k \in DOMAIN bucketDefs |->
     LET held == {i \in DOMAIN asc : asc[i] * 10000 >= bucketDefs[k].min * total}
     IN  [count |-> Cardinality(held), balance |-> SumOf(Within(asc, held))]]

\* A holder counts in the first bucket whose least share it has.
buckets(asc, total) ==
  LET Meets(i, k) == asc[i] * 10000 >= bucketDefs[k].min * total
  IN  [k \in DOMAIN bucketDefs |->
         LET held == {i \in DOMAIN asc : Meets(i, k) /\ \A m \in 1 .. k - 1 : ~Meets(i, m)}
         IN  [count |-> Cardinality(held), balance |-> SumOf(Within(asc, held))]]

Compute(list) ==
  LET asc   == Ascending(list)
      total == SumOf(asc)
  IN  [holders |-> Len(list), gini |-> gini(asc, total), nakamoto |-> nakamoto(asc, total),
       hhi |-> hhi(asc, total), buckets |-> buckets(asc, total)]

-----------------------------------------------------------------------------
(* What the metrics of a list are, apart from how they are computed.       *)

Gap(x, y) == IF x < y THEN y - x ELSE x - y

\* Half the relative mean absolute difference over all pairs, so at most 1 - 1/n.
IsGini(g, list) ==
  /\ 2 * g.num = SumOf([i \in DOMAIN list |-> SumOf([j \in DOMAIN list |-> Gap(list[i], list[j])])])
  /\ g.den = Len(list) * SumOf(list)
  /\ Len(list) * g.num <= (Len(list) - 1) * g.den

\* The size of a smallest set with more than half of the total.
IsNakamoto(k, list) ==
  k = Min({Cardinality(h) : h \in {g \in SUBSET DOMAIN list :
                                   2 * SumOf(Within(list, g)) > SumOf(list)}})

\* What remains of 1 is the chance that two units drawn apart have different holders.
IsHHI(h, list) ==
  /\ h.den = SumOf(list) * SumOf(list)
  /\ h.den - h.num = SumOf([i \in DOMAIN list |-> list[i] * SumOf(Within(list, DOMAIN list \ {i}))])

\* Every holder and every unit in one bucket, the richer holders in the higher ones.
ArePartition(bs, list) ==
  /\ SumOf([k \in DOMAIN bs |-> bs[k].count]) = Len(list)
  /\ SumOf([k \in DOMAIN bs |-> bs[k].balance]) = SumOf(list)
  /\ \A k, m \in DOMAIN bs : k < m /\ bs[k].count > 0 /\ bs[m].count > 0 =>
       bs[k].balance * bs[m].count > bs[m].balance * bs[k].count
=============================================================================

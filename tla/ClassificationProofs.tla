------------------------ MODULE ClassificationProofs ------------------------
(***************************************************************************)
(* Theorems about Classification, for any chains, addresses, partitions,   *)
(* bounds and time to live.                                                *)
(***************************************************************************)
EXTENDS Classification, DeliveryProofs, SequenceTheorems

\* The lemmas about offsets, of the reader of results; its histories are not used.
Reader == INSTANCE DeliveryProofs WITH
  produced <- [p \in Partitions |-> Len(results[p])],
  next <- resNext, committed <- resCommitted, stage <- resStage, at <- resAt

-----------------------------------------------------------------------------
(* The inductive invariant.                                                *)

AskedOK ==
  /\ asked \in [Partitions -> Seq(Requests)]
  /\ \A p \in Partitions : Len(asked[p]) = produced[p]

\* A result is on the partition of its address, where its later ones will be.
ResultsOK ==
  /\ results \in [Partitions -> Seq([req : Requests, kind : Kinds])]
  /\ \A p \in Partitions : \A i \in 1 .. Len(results[p]) :
       /\ PartOf[results[p][i].req.addr] = p
       /\ results[p][i].kind \in was[results[p][i].req]

WorldOK ==
  /\ code \in [Requests -> Codes] /\ was \in [Requests -> SUBSET Kinds]
  /\ changed \in [Requests -> Nat] /\ now \in Nat
  /\ \A r \in Requests : changed[r] <= now /\ AddressKind(code[r]) \in was[r]

\* An entry that is no longer true was set before the change, so it ends TTL after it at the latest.
CacheOK ==
  \A r \in Requests : \A e \in Entry(r) :
    /\ e.kind \in was[r] /\ e.until \in Nat
    /\ now < e.until /\ e.until <= now + TTL
    /\ e.kind # AddressKind(code[r]) => e.until <= changed[r] + TTL

\* A kind just looked up can only have become untrue today.
HandOK ==
  /\ step \in {"get", "lookup", "set", "publish"}
  /\ At("set") \/ At("publish") => kind \in was[Request]
  /\ At("set") /\ kind # AddressKind(code[Request]) => changed[Request] = now
  /\ At("publish") /\ kind # AddressKind(code[Request]) => now - changed[Request] < TTL

RowsOK ==
  /\ rows \in [Requests -> Kinds \cup {""}] /\ lost \subseteq Requests
  /\ \A r \in Requests : rows[r] # "" => rows[r] \in was[r]

\* The last result of its address that the reader is past, and not at, is what the table has.
SettledSoFar ==
  \A p \in Partitions : \A i \in 1 .. Len(results[p]) :
    LET r == results[p][i].req IN
    /\ i < resNext[p]
    /\ ~(resStage = "handling" /\ resAt.part = p /\ resAt.off = i)
    /\ \A j \in i + 1 .. Len(results[p]) : results[p][j].req # r
    => rows[r] = results[p][i].kind \/ r \in lost

CInv ==
  /\ DInv /\ Reader!ReaderOK
  /\ AskedOK /\ ResultsOK /\ WorldOK /\ CacheOK /\ HandOK /\ RowsOK /\ SettledSoFar

-----------------------------------------------------------------------------
(* What the steps do to each part of the state.                            *)

LEMMA ServiceDelivers == [ClassifyNext]_allVars => DeliveryStep
<1> SUFFICES ASSUME [ClassifyNext]_allVars PROVE DeliveryStep
  OBVIOUS
<1> USE DEF DeliveryStep
<1>1. CASE \E r \in Requests : Ask(r)
  BY <1>1, ClassificationAssumption DEF Ask
<1>2. CASE Acknowledge \/ ServiceRestarts \/ \E p \in Partitions : Receive(p)
  BY <1>2 DEF Acknowledge, ServiceRestarts, Receive, DFetch, DCommit, DCommitFails, DRestart
<1>3. CASE UnknownChain \/ LookUpFails \/ Publish \/ PublishFails
  BY <1>3 DEF UnknownChain, LookUpFails, Publish, PublishFails, DNil, DFail
<1>4. CASE CacheHits \/ CacheMisses \/ LookUp \/ CacheSet \/ NextDay \/ \E r \in Requests : CodeChanges(r)
  BY <1>4 DEF CacheHits, CacheMisses, LookUp, CacheSet, NextDay, CodeChanges, vars
<1>5. CASE HandleClassifyResult \/ CommitResult \/ AggregatorRestarts \/ \E p \in Partitions : ReceiveResult(p)
  BY <1>5 DEF HandleClassifyResult, StoreResult, StoreFails, CommitResult, AggregatorRestarts,
              ReceiveResult, AggregatorOnly
<1>6. CASE UNCHANGED allVars
  BY <1>6 DEF allVars, vars
<1> QED BY <1>1, <1>2, <1>3, <1>4, <1>5, <1>6 DEF ClassifyNext, Handle

LEMMA WorldMoves ==
  [ClassifyNext]_allVars => UNCHANGED world \/ NextDay \/ \E r \in Requests : CodeChanges(r)
BY DEF ClassifyNext, Handle, Ask, Receive, ReceiveResult, CacheHits, CacheMisses, LookUp, UnknownChain,
       LookUpFails, CacheSet, Publish, PublishFails, Acknowledge, ServiceRestarts, HandleClassifyResult,
       StoreResult, StoreFails, CommitResult, AggregatorRestarts, ServiceOnly, AggregatorOnly, allVars

LEMMA AskedMoves == [ClassifyNext]_allVars => UNCHANGED <<asked, produced>> \/ \E r \in Requests : Ask(r)
BY DEF ClassifyNext, Handle, NextDay, CodeChanges, Receive, ReceiveResult, CacheHits, CacheMisses, LookUp,
       UnknownChain, LookUpFails, CacheSet, Publish, PublishFails, Acknowledge, ServiceRestarts,
       HandleClassifyResult, StoreResult, StoreFails, CommitResult, AggregatorRestarts, ServiceOnly,
       AggregatorOnly, allVars, vars, consumer, DFetch, DNil, DFail, DCommit, DCommitFails, DRestart,
       Fetch, HandlerReturnsNil, HandlerFails, Commit, CommitFails, Restart

LEMMA ResultsMove ==
  [ClassifyNext]_allVars => \/ UNCHANGED results
                            \/ At("publish") /\ Published /\ UNCHANGED <<reader, rows, world>> /\ lost \subseteq lost'
BY DEF ClassifyNext, Handle, NextDay, CodeChanges, Ask, Receive, ReceiveResult, CacheHits, CacheMisses,
       LookUp, UnknownChain, LookUpFails, CacheSet, Publish, PublishFails, Acknowledge, ServiceRestarts,
       HandleClassifyResult, StoreResult, StoreFails, CommitResult, AggregatorRestarts, ServiceOnly,
       AggregatorOnly, allVars

LEMMA CacheMoves ==
  [ClassifyNext]_allVars => UNCHANGED cache \/ NextDay \/ CacheSet
BY DEF ClassifyNext, Handle, CodeChanges, Ask, Receive, ReceiveResult, CacheHits, CacheMisses,
       LookUp, UnknownChain, LookUpFails, Publish, PublishFails, Acknowledge, ServiceRestarts,
       HandleClassifyResult, StoreResult, StoreFails, CommitResult, AggregatorRestarts, ServiceOnly,
       AggregatorOnly, service, allVars

LEMMA ReaderMoves ==
  [ClassifyNext]_allVars =>
    \/ UNCHANGED <<reader, rows>> /\ lost \subseteq lost'
    \/ /\ UNCHANGED <<results, world>>
       /\ \/ (\E p \in Partitions : Results!Fetch(p)) /\ UNCHANGED <<rows, lost>>
          \/ StoreResult \/ StoreFails
          \/ (Results!Commit \/ Results!CommitFails \/ Results!Restart) /\ UNCHANGED <<rows, lost>>
BY DEF ClassifyNext, Handle, NextDay, CodeChanges, Ask, Receive, ReceiveResult, CacheHits, CacheMisses,
       LookUp, UnknownChain, LookUpFails, CacheSet, Publish, PublishFails, Acknowledge, ServiceRestarts,
       HandleClassifyResult, StoreResult, StoreFails, CommitResult, AggregatorRestarts, ServiceOnly,
       AggregatorOnly, allVars

LEMMA HandMoves ==
  [ClassifyNext]_allVars =>
    \/ UNCHANGED <<step, kind, stage, at>>
    \/ stage' # "handling" /\ UNCHANGED step
    \/ step' = "get"
    \/ CacheHits \/ CacheMisses \/ LookUp \/ CacheSet
BY DEF ClassifyNext, Handle, NextDay, CodeChanges, Ask, Receive, ReceiveResult, UnknownChain, LookUpFails,
       Publish, PublishFails, Acknowledge, ServiceRestarts, HandleClassifyResult, StoreResult, StoreFails,
       CommitResult, AggregatorRestarts, ServiceOnly, AggregatorOnly, allVars, vars, service, consumer,
       Produce, DNil, DFail, DCommit, DCommitFails, DRestart, HandlerReturnsNil, HandlerFails, Commit,
       CommitFails, Restart

-----------------------------------------------------------------------------
(* The message in hand.                                                    *)

LEMMA RequestInHand ==
  ASSUME DInv, AskedOK, stage = "handling"
  PROVE  at.part \in Partitions /\ at.off \in 1 .. Len(asked[at.part]) /\ Request \in Requests
<1>1. at.part \in Partitions /\ at.off \in Nat /\ at.off = next[at.part] - 1 /\ committed[at.part] < at.off
  BY DEF DInv, ReaderOK, InHandOK
<1>2. at.off \in 1 .. Len(asked[at.part])
  BY <1>1 DEF DInv, ReaderOK, OffsetsOK, AskedOK
<1>3. asked[at.part] \in Seq(Requests)
  BY <1>1 DEF AskedOK
<1> QED BY <1>1, <1>2, <1>3 DEF Request

LEMMA ResultInHandTyped ==
  ASSUME Reader!ReaderOK, ResultsOK, resStage = "handling"
  PROVE  /\ resAt.part \in Partitions /\ resAt.off \in 1 .. Len(results[resAt.part])
         /\ resAt.off = resNext[resAt.part] - 1
         /\ ResultInHand \in [req : Requests, kind : Kinds]
         /\ ResultInHand.kind \in was[ResultInHand.req] /\ PartOf[ResultInHand.req.addr] = resAt.part
<1>1. /\ resAt.part \in Partitions /\ resAt.off \in Nat
      /\ resAt.off = resNext[resAt.part] - 1 /\ resCommitted[resAt.part] < resAt.off
  BY DEF Reader!ReaderOK, Reader!InHandOK
<1>2. resAt.off \in 1 .. Len(results[resAt.part])
  BY <1>1 DEF Reader!ReaderOK, Reader!OffsetsOK
<1>3. results[resAt.part] \in Seq([req : Requests, kind : Kinds])
  BY <1>1 DEF ResultsOK
<1>4. ResultInHand = results[resAt.part][resAt.off]
  BY DEF ResultInHand
<1>5. ResultInHand \in [req : Requests, kind : Kinds]
  BY <1>2, <1>3, <1>4, ElementOfSeq
<1>6. ResultInHand.kind \in was[ResultInHand.req] /\ PartOf[ResultInHand.req.addr] = resAt.part
  BY <1>1, <1>2, <1>4 DEF ResultsOK
<1> QED BY <1>1, <1>2, <1>5, <1>6

\* A message already on the topic stays as it is.
LEMMA AskedNext ==
  ASSUME DInv, AskedOK, [ClassifyNext]_allVars
  PROVE  /\ AskedOK'
         /\ \A p \in Partitions : \A i \in 1 .. Len(asked[p]) : asked'[p][i] = asked[p][i]
<1>1. CASE UNCHANGED <<asked, produced>>
  BY <1>1 DEF AskedOK
<1>2. ASSUME NEW r \in Requests, Ask(r)
      PROVE  /\ AskedOK'
             /\ \A p \in Partitions : \A i \in 1 .. Len(asked[p]) : asked'[p][i] = asked[p][i]
  <2> DEFINE p == PartOf[r.addr]
  <2>1. p \in Partitions
    BY ClassificationAssumption
  <2>2. produced' = [produced EXCEPT ![p] = @ + 1] /\ asked' = [asked EXCEPT ![p] = Append(@, r)]
    BY <1>2 DEF Ask, Produce
  <2>3. asked[p] \in Seq(Requests)
    BY <2>1 DEF AskedOK
  <2>4. /\ Append(asked[p], r) \in Seq(Requests) /\ Len(Append(asked[p], r)) = Len(asked[p]) + 1
        /\ \A i \in 1 .. Len(asked[p]) : Append(asked[p], r)[i] = asked[p][i]
    BY <2>3, AppendProperties
  <2>5. asked'[p] = Append(asked[p], r) /\ \A q \in Partitions \ {p} : asked'[q] = asked[q]
    BY <2>1, <2>2 DEF AskedOK
  <2>6. asked' \in [Partitions -> Seq(Requests)]
    BY <2>1, <2>2, <2>4 DEF AskedOK
  <2>7. \A q \in Partitions : Len(asked'[q]) = produced'[q]
    BY <2>1, <2>2, <2>4, <2>5 DEF AskedOK, DInv, ReaderOK, OffsetsOK
  <2>8. ASSUME NEW q \in Partitions, NEW i \in 1 .. Len(asked[q]) PROVE asked'[q][i] = asked[q][i]
    BY <2>4, <2>5
  <2> QED BY <2>6, <2>7, <2>8 DEF AskedOK
<1> QED BY <1>1, <1>2, AskedMoves

\* Request of a message that stays in hand.
LEMMA SameRequest ==
  ASSUME DInv, AskedOK, [ClassifyNext]_allVars, stage = "handling", at' = at
  PROVE  Request' = Request
<1>1. at.part \in Partitions /\ at.off \in 1 .. Len(asked[at.part])
  BY RequestInHand
<1>2. asked'[at.part][at.off] = asked[at.part][at.off]
  BY <1>1, AskedNext
<1> QED BY <1>2 DEF Request

-----------------------------------------------------------------------------
(* The chains, the days and the cache.                                     *)

LEMMA KindOfCode == \A c \in Codes : AddressKind(c) \in Kinds
  BY DEF Codes, AddressKind, Kinds

\* No kind is forgotten, and a change is noted on its day.
LEMMA WorldNext ==
  ASSUME WorldOK, [ClassifyNext]_allVars
  PROVE  /\ WorldOK' /\ now' \in {now, now + 1}
         /\ \A r \in Requests : /\ was[r] \subseteq was'[r]
                                /\ \/ code'[r] = code[r] /\ changed'[r] = changed[r]
                                   \/ now' = now /\ changed'[r] = now
<1>1. CASE UNCHANGED world
  BY <1>1 DEF WorldOK, world
<1>2. CASE NextDay
  BY <1>2 DEF NextDay, WorldOK
<1>3. ASSUME NEW r \in Requests, CodeChanges(r)
      PROVE  /\ WorldOK' /\ now' = now
             /\ \A q \in Requests : /\ was[q] \subseteq was'[q]
                                    /\ \/ code'[q] = code[q] /\ changed'[q] = changed[q]
                                       \/ changed'[q] = now
  <2>1. PICK c \in Codes : /\ code' = [code EXCEPT ![r] = c]
                           /\ was' = [was EXCEPT ![r] = @ \cup {AddressKind(c)}]
                           /\ changed' = [changed EXCEPT ![r] = now] /\ now' = now
    BY <1>3 DEF CodeChanges
  <2>2. AddressKind(c) \in Kinds
    BY KindOfCode
  <2>3. /\ code' \in [Requests -> Codes] /\ was' \in [Requests -> SUBSET Kinds]
        /\ changed' \in [Requests -> Nat] /\ now' \in Nat
    BY <2>1, <2>2 DEF WorldOK
  <2>4. \A q \in Requests : changed'[q] <= now' /\ AddressKind(code'[q]) \in was'[q]
    BY <2>1 DEF WorldOK
  <2>5. \A q \in Requests : /\ was[q] \subseteq was'[q]
                            /\ \/ code'[q] = code[q] /\ changed'[q] = changed[q]
                               \/ changed'[q] = now
    BY <2>1 DEF WorldOK
  <2> QED BY <2>1, <2>3, <2>4, <2>5 DEF WorldOK
<1> QED BY <1>1, <1>2, <1>3, WorldMoves

\* The entry of a request is of that request only.
LEMMA EntryKept ==
  ASSUME NEW r \in Requests, NEW q \in Requests, NEW k, NEW e \in Cached(q, k), e.key = cacheKey(r)
  PROVE  e \in Entry(r) \/ (r = q /\ e.kind = k /\ e.until = now + TTL)
<1>1. cacheKey(r) = cacheKey(q) => r = q
  BY ClassificationAssumption DEF cacheKey
<1> QED BY <1>1 DEF Cached, Entry

LEMMA CacheNext ==
  ASSUME DInv, AskedOK, WorldOK, HandOK, CacheOK, [ClassifyNext]_allVars
  PROVE  CacheOK'
<1> SUFFICES ASSUME NEW r \in Requests, NEW e \in Entry(r)'
             PROVE  /\ e.kind \in was'[r] /\ e.until \in Nat
                    /\ now' < e.until /\ e.until <= now' + TTL
                    /\ e.kind # AddressKind(code'[r]) => e.until <= changed'[r] + TTL
  BY DEF CacheOK
<1>1. e \in cache' /\ e.key = cacheKey(r)
  BY DEF Entry, cacheKey
<1>2. /\ WorldOK' /\ was[r] \subseteq was'[r] /\ now' \in {now, now + 1}
      /\ \/ code'[r] = code[r] /\ changed'[r] = changed[r]
         \/ now' = now /\ changed'[r] = now
  BY WorldNext
<1>3. TTL \in Nat \ {0} /\ now \in Nat /\ now' \in Nat /\ changed[r] \in Nat /\ changed'[r] \in Nat
  BY <1>2, ClassificationAssumption DEF WorldOK
<1>4. ASSUME e \in Entry(r), now' < e.until
      PROVE  /\ e.kind \in was'[r] /\ e.until \in Nat
             /\ now' < e.until /\ e.until <= now' + TTL
             /\ e.kind # AddressKind(code'[r]) => e.until <= changed'[r] + TTL
  BY <1>2, <1>3, <1>4 DEF CacheOK
<1>5. CASE UNCHANGED cache
  <2>1. e \in Entry(r)
    BY <1>1, <1>5 DEF Entry
  <2>2. CASE now' = now
    BY <2>1, <2>2, <1>4 DEF CacheOK
  <2>3. CASE NextDay
    BY <2>1, <2>3, <1>1, <1>4 DEF NextDay
  <2> QED BY <2>2, <2>3, WorldMoves DEF world, CodeChanges
<1>6. CASE NextDay
  BY <1>1, <1>4, <1>6 DEF NextDay, Entry
<1>7. CASE CacheSet /\ ~UNCHANGED cache
  <2>1. At("set") /\ cache' = Cached(Request, kind) /\ UNCHANGED world
    BY <1>7 DEF CacheSet, ServiceOnly
  <2>2. Request \in Requests
    BY <2>1, RequestInHand DEF At
  <2>3. e \in Entry(r) \/ (r = Request /\ e.kind = kind /\ e.until = now + TTL)
    BY <1>1, <2>1, <2>2, EntryKept
  <2>4. CASE e \in Entry(r)
    BY <2>1, <2>4, <1>4 DEF CacheOK, world
  <2>5. CASE r = Request /\ e.kind = kind /\ e.until = now + TTL
    BY <2>1, <2>5, <1>3 DEF HandOK, world
  <2> QED BY <2>3, <2>4, <2>5
<1> QED BY <1>5, <1>6, <1>7, CacheMoves

\* While a message is in hand no day passes, so a kind just read is at most a change behind.
LEMMA HandNext ==
  ASSUME DInv, AskedOK, WorldOK, HandOK, CacheOK, [ClassifyNext]_allVars
  PROVE  HandOK'
<1>1. /\ WorldOK' /\ \A r \in Requests : was[r] \subseteq was'[r]
      /\ \A r \in Requests : \/ code'[r] = code[r] /\ changed'[r] = changed[r]
                             \/ now' = now /\ changed'[r] = now
  BY WorldNext
<1>2. TTL \in Nat \ {0} /\ now \in Nat /\ \A r \in Requests : changed[r] \in Nat
  BY ClassificationAssumption DEF WorldOK
<1>3. stage = "handling" => Request \in Requests /\ now' = now
  BY RequestInHand, WorldMoves DEF NextDay, CodeChanges, world
<1>4. stage = "handling" /\ at' = at => Request' = Request
  BY SameRequest
<1>5. CASE UNCHANGED <<step, kind, stage, at>>
  <2>1. CASE stage = "handling"
    BY <1>1, <1>2, <1>3, <1>4, <1>5, <2>1 DEF HandOK, At
  <2>2. CASE stage # "handling"
    BY <1>5, <2>2 DEF HandOK, At
  <2> QED BY <2>1, <2>2
<1>6. CASE stage' # "handling" /\ UNCHANGED step
  BY <1>6 DEF HandOK, At
<1>7. CASE step' = "get"
  BY <1>7 DEF HandOK, At
<1>8. CASE CacheHits
  <2>1. /\ stage = "handling" /\ stage' = "handling" /\ at' = at /\ step' = "publish"
        /\ UNCHANGED world /\ \E e \in Entry(Request) : kind' = e.kind
    BY <1>8 DEF CacheHits, At, ServiceOnly, vars, consumer
  <2>2. PICK e \in Entry(Request) : kind' = e.kind
    BY <2>1
  <2>3. /\ e.kind \in was[Request] /\ e.until \in Nat /\ now < e.until
        /\ e.kind # AddressKind(code[Request]) => e.until <= changed[Request] + TTL
    BY <2>1, <1>3 DEF CacheOK
  <2>4. e.kind # AddressKind(code[Request]) => now - changed[Request] < TTL
    BY <2>1, <2>3, <1>2, <1>3
  <2> QED BY <2>1, <2>2, <2>3, <2>4, <1>3, <1>4 DEF HandOK, At, world
<1>9. CASE CacheMisses
  BY <1>9 DEF CacheMisses, HandOK, At
<1>10. CASE LookUp
  <2>1. /\ stage = "handling" /\ stage' = "handling" /\ at' = at /\ step' = "set"
        /\ UNCHANGED world /\ kind' = AddressKind(code[Request])
    BY <1>10 DEF LookUp, At, ServiceOnly, vars, consumer
  <2> QED BY <2>1, <1>3, <1>4 DEF HandOK, At, world, WorldOK
<1>11. CASE CacheSet
  <2>1. /\ stage = "handling" /\ stage' = "handling" /\ at' = at /\ step = "set" /\ step' = "publish"
        /\ UNCHANGED world /\ kind' = kind
    BY <1>11 DEF CacheSet, At, ServiceOnly, vars, consumer
  <2> QED BY <2>1, <1>2, <1>3, <1>4 DEF HandOK, At, world
<1> QED BY <1>5, <1>6, <1>7, <1>8, <1>9, <1>10, <1>11, HandMoves

-----------------------------------------------------------------------------
(* The results and their reader.                                           *)

\* A publish appends one result, of a kind its address has had, to the partition of the address.
LEMMA OneResult ==
  ASSUME DInv, AskedOK, WorldOK, HandOK, ResultsOK, At("publish"), Published
  PROVE  \E q \in Partitions :
           /\ PartOf[Request.addr] = q /\ Request \in Requests /\ Result.req = Request
           /\ Result \in [req : Requests, kind : Kinds] /\ Result.kind \in was[Request]
           /\ results' = [results EXCEPT ![q] = Append(results[q], Result)]
           /\ Append(results[q], Result) \in Seq([req : Requests, kind : Kinds])
           /\ Len(Append(results[q], Result)) = Len(results[q]) + 1
           /\ \A i \in 1 .. Len(results[q]) : Append(results[q], Result)[i] = results[q][i]
           /\ Append(results[q], Result)[Len(results[q]) + 1] = Result
<1> DEFINE q == PartOf[Request.addr]
<1>1. Request \in Requests
  BY RequestInHand DEF At
<1>2. q \in Partitions
  BY <1>1, ClassificationAssumption
<1>3. kind \in was[Request] /\ kind \in Kinds
  BY <1>1 DEF HandOK, WorldOK
<1>4. Result \in [req : Requests, kind : Kinds] /\ Result.req = Request /\ Result.kind = kind
  BY <1>1, <1>3 DEF Result
<1>5. results[q] \in Seq([req : Requests, kind : Kinds])
  BY <1>2 DEF ResultsOK
<1>6. /\ Append(results[q], Result) \in Seq([req : Requests, kind : Kinds])
      /\ Len(Append(results[q], Result)) = Len(results[q]) + 1
      /\ \A i \in 1 .. Len(results[q]) : Append(results[q], Result)[i] = results[q][i]
      /\ Append(results[q], Result)[Len(results[q]) + 1] = Result
  BY <1>4, <1>5, AppendProperties
<1>7. results' = [results EXCEPT ![q] = Append(results[q], Result)]
  BY DEF Published
<1> QED BY <1>1, <1>2, <1>3, <1>4, <1>6, <1>7

LEMMA ResultsNext ==
  ASSUME DInv, AskedOK, WorldOK, HandOK, ResultsOK, [ClassifyNext]_allVars
  PROVE  ResultsOK'
<1>1. \A r \in Requests : was[r] \subseteq was'[r]
  BY WorldNext
<1>2. CASE UNCHANGED results
  <2> SUFFICES ASSUME NEW p \in Partitions, NEW i \in 1 .. Len(results[p])
               PROVE  results[p][i].kind \in was'[results[p][i].req]
    BY <1>2 DEF ResultsOK
  <2>1. results[p] \in Seq([req : Requests, kind : Kinds])
    BY DEF ResultsOK
  <2>2. results[p][i] \in [req : Requests, kind : Kinds]
    BY <2>1, ElementOfSeq
  <2> QED BY <2>2, <1>1 DEF ResultsOK
<1>3. CASE At("publish") /\ Published /\ UNCHANGED world
  <2>1. PICK q \in Partitions :
           /\ PartOf[Request.addr] = q /\ Request \in Requests /\ Result.req = Request
           /\ Result \in [req : Requests, kind : Kinds] /\ Result.kind \in was[Request]
           /\ results' = [results EXCEPT ![q] = Append(results[q], Result)]
           /\ Append(results[q], Result) \in Seq([req : Requests, kind : Kinds])
           /\ Len(Append(results[q], Result)) = Len(results[q]) + 1
           /\ \A i \in 1 .. Len(results[q]) : Append(results[q], Result)[i] = results[q][i]
           /\ Append(results[q], Result)[Len(results[q]) + 1] = Result
    BY <1>3, OneResult
  <2>2. results' \in [Partitions -> Seq([req : Requests, kind : Kinds])]
    BY <2>1 DEF ResultsOK
  <2>3. ASSUME NEW p \in Partitions, NEW i \in 1 .. Len(results'[p])
        PROVE  PartOf[results'[p][i].req.addr] = p /\ results'[p][i].kind \in was[results'[p][i].req]
    <3>1. CASE p # q \/ i \in 1 .. Len(results[p])
      <4>1. i \in 1 .. Len(results[p]) /\ results'[p][i] = results[p][i]
        BY <2>1, <2>3, <3>1 DEF ResultsOK
      <4> QED BY <4>1 DEF ResultsOK
    <3>2. CASE p = q /\ i \notin 1 .. Len(results[p])
      <4>1. results'[p][i] = Result
        <5>1. results'[p] = Append(results[q], Result) /\ results[q] \in Seq([req : Requests, kind : Kinds])
          BY <2>1, <3>2 DEF ResultsOK
        <5>2. i = Len(results[q]) + 1
          BY <2>1, <2>3, <3>2, <5>1, LenProperties
        <5> QED BY <2>1, <5>1, <5>2
      <4> QED BY <2>1, <3>2, <4>1
    <3> QED BY <3>1, <3>2
  <2> QED BY <1>3, <2>2, <2>3 DEF ResultsOK, world
<1> QED BY <1>2, <1>3, ResultsMove

LEMMA ReaderStep ==
  ASSUME DInv, AskedOK, WorldOK, HandOK, ResultsOK, [ClassifyNext]_allVars
  PROVE  [Reader!Next]_(Reader!consumer)
<1>1. CASE UNCHANGED <<results, reader>>
  BY <1>1 DEF reader, Reader!consumer
<1>2. CASE At("publish") /\ Published /\ UNCHANGED reader
  <2>1. PICK q \in Partitions :
           /\ results' = [results EXCEPT ![q] = Append(results[q], Result)]
           /\ Len(Append(results[q], Result)) = Len(results[q]) + 1
    BY <1>2, OneResult
  <2>2. [p \in Partitions |-> Len(results'[p])]
          = [[p \in Partitions |-> Len(results[p])] EXCEPT ![q] = @ + 1]
    BY <2>1 DEF ResultsOK
  <2>3. Reader!Produce(q)
    BY <1>2, <2>2 DEF Reader!Produce, reader
  <2> QED BY <2>3 DEF Reader!Next
<1>3. CASE UNCHANGED results /\ \E p \in Partitions : Results!Fetch(p)
  BY <1>3 DEF Results!Fetch, Reader!Fetch, Reader!Next
<1>4. CASE UNCHANGED results /\ (Results!Commit \/ Results!CommitFails \/ Results!Restart)
  BY <1>4 DEF Results!Commit, Reader!Commit, Results!CommitFails, Reader!CommitFails,
              Results!Restart, Reader!Restart, Reader!Next
<1>5. CASE StoreResult \/ StoreFails
  BY <1>5 DEF StoreResult, StoreFails, AggregatorOnly, Results!HandlerReturnsNil, Reader!HandlerReturnsNil,
              Results!HandlerFails, Reader!HandlerFails, Reader!Next
<1> QED BY <1>1, <1>2, <1>3, <1>4, <1>5, ReaderMoves, ResultsMove

-----------------------------------------------------------------------------
(* The table.                                                              *)

LEMMA LostMoves ==
  [ClassifyNext]_allVars =>
    \/ lost' = lost
    \/ stage = "handling" /\ lost' = lost \cup {Request}
    \/ resStage = "handling" /\ lost' = lost \cup {ResultInHand.req}
BY DEF ClassifyNext, Handle, NextDay, CodeChanges, Ask, Receive, ReceiveResult, CacheHits, CacheMisses,
       LookUp, UnknownChain, LookUpFails, CacheSet, Publish, PublishFails, Acknowledge, ServiceRestarts,
       HandleClassifyResult, StoreResult, StoreFails, CommitResult, AggregatorRestarts, allVars, At

LEMMA RowsNext ==
  ASSUME DInv, Reader!ReaderOK, AskedOK, WorldOK, ResultsOK, RowsOK, [ClassifyNext]_allVars
  PROVE  RowsOK'
<1>1. lost' \subseteq Requests
  <2>1. stage = "handling" => Request \in Requests
    BY RequestInHand
  <2>2. resStage = "handling" => ResultInHand.req \in Requests
    BY ResultInHandTyped
  <2> QED BY <2>1, <2>2, LostMoves DEF RowsOK
<1>2. \A r \in Requests : was[r] \subseteq was'[r]
  BY WorldNext
<1>3. CASE UNCHANGED rows
  BY <1>1, <1>2, <1>3 DEF RowsOK
<1>4. CASE (StoreResult \/ StoreFails) /\ UpsertClassification(ResultInHand)
  <2>1. /\ ResultInHand.req \in Requests /\ ResultInHand.kind \in Kinds
        /\ ResultInHand.kind \in was[ResultInHand.req]
    BY <1>4, ResultInHandTyped DEF StoreResult, StoreFails
  <2>2. rows' = [rows EXCEPT ![ResultInHand.req] = ResultInHand.kind]
    BY <1>4 DEF UpsertClassification
  <2> QED BY <1>1, <1>2, <2>1, <2>2 DEF RowsOK
<1>5. UNCHANGED rows \/ ((StoreResult \/ StoreFails) /\ UpsertClassification(ResultInHand))
  BY ReaderMoves DEF StoreResult, StoreFails
<1> QED BY <1>3, <1>4, <1>5

\* Storing the result in hand settles its address: an earlier one of the address is not its last.
LEMMA StoreSettles ==
  ASSUME Reader!ReaderOK, ResultsOK, RowsOK, SettledSoFar, StoreResult \/ StoreFails
  PROVE  SettledSoFar'
<1>1. /\ resAt.part \in Partitions /\ resAt.off \in 1 .. Len(results[resAt.part])
      /\ resAt.off = resNext[resAt.part] - 1
      /\ ResultInHand.req \in Requests /\ PartOf[ResultInHand.req.addr] = resAt.part
  BY ResultInHandTyped DEF StoreResult, StoreFails
<1>2. /\ results' = results /\ resNext' = resNext /\ resStage' # "handling" /\ resStage = "handling"
      /\ lost \subseteq lost'
      /\ \/ UpsertClassification(ResultInHand)
         \/ UNCHANGED rows /\ ResultInHand.req \in lost'
  BY DEF StoreResult, StoreFails, AggregatorOnly, Results!HandlerReturnsNil, Results!HandlerFails
<1>3. ResultInHand = results[resAt.part][resAt.off]
  BY DEF ResultInHand
<1> SUFFICES ASSUME NEW p \in Partitions, NEW i \in 1 .. Len(results[p]), i < resNext[p],
                    \A j \in i + 1 .. Len(results[p]) : results[p][j].req # results[p][i].req
             PROVE  rows'[results[p][i].req] = results[p][i].kind \/ results[p][i].req \in lost'
  BY <1>2 DEF SettledSoFar
<1>4. PartOf[results[p][i].req.addr] = p
  BY DEF ResultsOK
<1>5. CASE p = resAt.part /\ i = resAt.off
  BY <1>1, <1>2, <1>3, <1>5 DEF UpsertClassification, RowsOK
<1>6. CASE results[p][i].req = ResultInHand.req /\ ~(p = resAt.part /\ i = resAt.off)
  <2>1. p = resAt.part
    BY <1>1, <1>4, <1>6
  <2>2. resAt.off \in Int /\ i \in Int /\ i # resAt.off /\ resNext[p] \in Int
    BY <1>1, <1>6, <2>1 DEF Reader!ReaderOK, Reader!OffsetsOK
  <2>3. resAt.off \in i + 1 .. Len(results[p])
    BY <1>1, <2>1, <2>2
  <2> QED BY <1>3, <1>6, <2>1, <2>3
<1>7. CASE results[p][i].req # ResultInHand.req
  <2>1. ~(resAt.part = p /\ resAt.off = i)
    BY <1>3, <1>7
  <2>2. rows[results[p][i].req] = results[p][i].kind \/ results[p][i].req \in lost
    BY <2>1 DEF SettledSoFar
  <2>3. results[p] \in Seq([req : Requests, kind : Kinds])
    BY DEF ResultsOK
  <2>4. results[p][i] \in [req : Requests, kind : Kinds]
    BY <2>3, ElementOfSeq
  <2>5. rows'[results[p][i].req] = rows[results[p][i].req]
    BY <1>2, <1>7, <2>4 DEF UpsertClassification, RowsOK
  <2> QED BY <1>2, <2>2, <2>5
<1> QED BY <1>5, <1>6, <1>7

LEMMA PublishSettles ==
  ASSUME DInv, AskedOK, WorldOK, HandOK, ResultsOK, Reader!ReaderOK, SettledSoFar,
         At("publish"), Published, UNCHANGED <<reader, rows>>, lost \subseteq lost'
  PROVE  SettledSoFar'
<1>1. PICK q \in Partitions :
        /\ results' = [results EXCEPT ![q] = Append(results[q], Result)]
        /\ Len(Append(results[q], Result)) = Len(results[q]) + 1
        /\ \A i \in 1 .. Len(results[q]) : Append(results[q], Result)[i] = results[q][i]
  BY OneResult
<1>2. \A p \in Partitions :
        /\ Len(results[p]) \in Nat /\ resNext[p] \in Nat /\ resNext[p] <= Len(results[p]) + 1
        /\ Len(results'[p]) >= Len(results[p])
        /\ \A i \in 1 .. Len(results[p]) : results'[p][i] = results[p][i]
  BY <1>1 DEF ResultsOK, Reader!ReaderOK, Reader!OffsetsOK
<1> SUFFICES ASSUME NEW p \in Partitions, NEW i \in 1 .. Len(results'[p]), i < resNext[p],
                    ~(resStage = "handling" /\ resAt.part = p /\ resAt.off = i),
                    \A j \in i + 1 .. Len(results'[p]) : results'[p][j].req # results'[p][i].req
             PROVE  rows[results'[p][i].req] = results'[p][i].kind \/ results'[p][i].req \in lost'
  BY DEF SettledSoFar, reader
<1>3. i \in 1 .. Len(results[p]) /\ results'[p][i] = results[p][i]
  BY <1>2
<1>4. \A j \in i + 1 .. Len(results[p]) : results[p][j].req # results[p][i].req
  <2> SUFFICES ASSUME NEW j \in i + 1 .. Len(results[p]) PROVE results[p][j].req # results[p][i].req
    OBVIOUS
  <2>1. j \in i + 1 .. Len(results'[p]) /\ j \in 1 .. Len(results[p])
    BY <1>2, <1>3
  <2> QED BY <1>2, <1>3, <2>1
<1> QED BY <1>3, <1>4 DEF SettledSoFar

LEMMA SettledNext ==
  ASSUME DInv, AskedOK, WorldOK, HandOK, ResultsOK, Reader!ReaderOK, RowsOK, SettledSoFar,
         [ClassifyNext]_allVars
  PROVE  SettledSoFar'
<1>1. CASE UNCHANGED <<results, reader, rows>> /\ lost \subseteq lost'
  BY <1>1 DEF SettledSoFar, reader
<1>2. CASE At("publish") /\ Published /\ UNCHANGED <<reader, rows>> /\ lost \subseteq lost'
  BY <1>2, PublishSettles
<1>3. CASE StoreResult \/ StoreFails
  BY <1>3, StoreSettles
<1>4. ASSUME NEW p \in Partitions, Results!Fetch(p), UNCHANGED <<results, rows, lost>>
      PROVE  SettledSoFar'
  <2>1. /\ resStage = "idle" /\ resStage' = "handling" /\ resAt' = [part |-> p, off |-> resNext[p]]
        /\ resNext' = [resNext EXCEPT ![p] = @ + 1]
    BY <1>4 DEF Results!Fetch
  <2> SUFFICES ASSUME NEW q \in Partitions, NEW i \in 1 .. Len(results[q]), i < resNext'[q],
                      ~(p = q /\ resNext[p] = i),
                      \A j \in i + 1 .. Len(results[q]) : results[q][j].req # results[q][i].req
               PROVE  rows[results[q][i].req] = results[q][i].kind \/ results[q][i].req \in lost
    BY <1>4, <2>1 DEF SettledSoFar
  <2>2. i < resNext[q]
    BY <2>1 DEF Reader!ReaderOK, Reader!OffsetsOK
  <2> QED BY <2>1, <2>2 DEF SettledSoFar
<1>5. CASE (Results!Commit \/ Results!CommitFails) /\ UNCHANGED <<results, rows, lost>>
  BY <1>5 DEF SettledSoFar, Results!Commit, Results!CommitFails
<1>6. CASE Results!Restart /\ UNCHANGED <<results, rows, lost>>
  <2> SUFFICES ASSUME NEW p \in Partitions, NEW i \in 1 .. Len(results[p]), i < resCommitted[p] + 1,
                      \A j \in i + 1 .. Len(results[p]) : results[p][j].req # results[p][i].req
               PROVE  rows[results[p][i].req] = results[p][i].kind \/ results[p][i].req \in lost
    BY <1>6 DEF SettledSoFar, Results!Restart
  <2>1. i < resNext[p] /\ ~(resStage = "handling" /\ resAt.part = p /\ resAt.off = i)
    BY DEF Reader!ReaderOK, Reader!OffsetsOK, Reader!InHandOK
  <2> QED BY <2>1 DEF SettledSoFar
<1> QED BY <1>1, <1>2, <1>3, <1>4, <1>5, <1>6, ReaderMoves, ResultsMove

-----------------------------------------------------------------------------
(* The theorems.                                                           *)

LEMMA ClassificationInit == ClassifyInit => CInv
<1> SUFFICES ASSUME ClassifyInit PROVE CInv
  OBVIOUS
<1>1. DInit /\ Results!Init
  BY DEF ClassifyInit
<1>2. asked = [p \in Partitions |-> << >>] /\ results = [p \in Partitions |-> << >>]
  BY DEF ClassifyInit
<1>3. /\ code = FirstCode /\ was = [r \in Requests |-> {AddressKind(code[r])}]
      /\ changed = [r \in Requests |-> 0] /\ now = 0
  BY DEF ClassifyInit
<1>4. cache = {} /\ step = "get" /\ rows = [r \in Requests |-> ""] /\ lost = {}
  BY DEF ClassifyInit
<1>5. \A p \in Partitions : asked[p] = << >> /\ results[p] = << >>
  BY <1>2
<1>6. \A p \in Partitions : Len(asked[p]) = 0 /\ Len(results[p]) = 0
  BY <1>5, EmptySeq
<1>7. Reader!ReaderOK
  <2>1. [p \in Partitions |-> Len(results[p])] = [p \in Partitions |-> 0]
    BY <1>6
  <2>2. Reader!Init
    BY <1>1, <2>1 DEF Results!Init, Reader!Init
  <2> QED BY <2>2, Reader!ReaderInit, DeliveryAssumption
<1>8. AskedOK
  <2>1. \A p \in Partitions : produced[p] = 0
    BY <1>1 DEF DInit, Init
  <2>2. asked \in [Partitions -> Seq(Requests)]
    BY <1>2, EmptySeq
  <2> QED BY <1>6, <2>1, <2>2 DEF AskedOK
<1>9. ResultsOK /\ SettledSoFar
  <2>1. results \in [Partitions -> Seq([req : Requests, kind : Kinds])]
    BY <1>2, EmptySeq
  <2>2. \A i \in 1 .. 0 : FALSE
    OBVIOUS
  <2>3. ASSUME NEW p \in Partitions, NEW i \in 1 .. Len(results[p]) PROVE FALSE
    BY <1>6, <2>2
  <2> QED BY <2>1, <2>3 DEF ResultsOK, SettledSoFar
<1>10. WorldOK
  <2>1. code \in [Requests -> Codes]
    BY <1>3, ClassificationAssumption
  <2>2. \A r \in Requests : AddressKind(code[r]) \in Kinds
    BY <2>1, KindOfCode
  <2>3. was \in [Requests -> SUBSET Kinds] /\ \A r \in Requests : AddressKind(code[r]) \in was[r]
    BY <1>3, <2>2
  <2>4. changed \in [Requests -> Nat] /\ now \in Nat /\ \A r \in Requests : changed[r] <= now
    BY <1>3
  <2> QED BY <2>1, <2>3, <2>4 DEF WorldOK
<1>11. CacheOK /\ HandOK /\ RowsOK
  BY <1>4 DEF CacheOK, Entry, HandOK, RowsOK, At
<1> QED BY <1>1, DeliveryInit, <1>7, <1>8, <1>9, <1>10, <1>11 DEF CInv

LEMMA ClassificationNext == CInv /\ [ClassifyNext]_allVars => CInv'
<1> SUFFICES ASSUME CInv, [ClassifyNext]_allVars PROVE CInv'
  OBVIOUS
<1> USE DEF CInv
<1>1. DInv'
  BY ServiceDelivers, DeliveryKeeps
<1>2. Reader!ReaderOK'
  BY ReaderStep, Reader!ReaderNext, DeliveryAssumption
<1>3. AskedOK' /\ WorldOK'
  BY AskedNext, WorldNext
<1>4. ResultsOK' /\ CacheOK' /\ HandOK' /\ RowsOK' /\ SettledSoFar'
  BY ResultsNext, CacheNext, HandNext, RowsNext, SettledNext
<1> QED BY <1>1, <1>2, <1>3, <1>4

LEMMA ClassificationAlways == ClassifySpec => []CInv
  BY ClassificationInit, ClassificationNext, PTL DEF ClassifySpec

\* The service, its topics and both readers stay well formed whatever fails (runner.go:20-43,
\* kafka.go:82-114).
THEOREM ClassifyTypes == ClassifySpec => []ClassifyTypeOK
<1>1. CInv => ClassifyTypeOK
  <2> SUFFICES ASSUME CInv PROVE ClassifyTypeOK
    OBVIOUS
  <2>1. DTypeOK
    <3>1. ASSUME NEW p \in Partitions
          PROVE  committed[p] \in 0 .. produced[p] /\ next[p] \in committed[p] + 1 .. produced[p] + 1
      <4>1. /\ produced[p] \in Nat /\ next[p] \in Nat /\ committed[p] \in Nat
            /\ committed[p] < next[p] /\ next[p] <= produced[p] + 1
        BY DEF CInv, DInv, ReaderOK, OffsetsOK
      <4> QED BY <4>1
    <3>2. stage # "idle" => at \in Message /\ at.off \in 1 .. produced[at.part]
      BY DEF CInv, DInv, ReaderOK, OffsetsOK, InHandOK, Message
    <3> QED BY <3>1, <3>2 DEF DTypeOK, CInv, DInv, ReaderOK, InHandOK, HistoriesOK
  <2>2. ASSUME NEW p \in Partitions
        PROVE  /\ resCommitted[p] \in 0 .. Len(results[p])
               /\ resNext[p] \in resCommitted[p] + 1 .. Len(results[p]) + 1
    <3>1. /\ Len(results[p]) \in Nat /\ resNext[p] \in Nat /\ resCommitted[p] \in Nat
          /\ resCommitted[p] < resNext[p] /\ resNext[p] <= Len(results[p]) + 1
      BY DEF CInv, ResultsOK, Reader!ReaderOK, Reader!OffsetsOK
    <3> QED BY <3>1
  <2>3. resStage # "idle" => resAt.part \in Partitions /\ resAt.off \in 1 .. Len(results[resAt.part])
    BY <2>2 DEF CInv, Reader!ReaderOK, Reader!OffsetsOK, Reader!InHandOK
  <2>4. \A r \in Requests : changed[r] \in 0 .. now
    BY DEF CInv, WorldOK
  <2> QED BY <2>1, <2>2, <2>3, <2>4 DEF ClassifyTypeOK, CInv, AskedOK, ResultsOK, WorldOK, HandOK, RowsOK,
                                        Reader!ReaderOK, Reader!InHandOK
<1> QED BY <1>1, ClassificationAlways, PTL

\* A request the group is past was classified, dropped with a logged error or failed to be
\* published: restarts and failing commits of the service skip none (runner.go:20-43).
THEOREM RequestsSeen == ClassifySpec => []NothingSkippedUnseen
<1>1. CInv => NothingSkippedUnseen
  BY SeenIsEnough DEF CInv
<1> QED BY <1>1, ClassificationAlways, PTL

\* The offset the service committed never moves back (kafka.go:109).
THEOREM RequestsCommitted == ClassifySpec => CommittedMonotone
<1>1. CInv /\ [ClassifyNext]_allVars => [\A p \in Partitions : committed'[p] >= committed[p]]_vars
  BY ServiceDelivers, StepIsNext, ReaderNext DEF CInv, DInv, NeverBack
<1> QED BY <1>1, ClassificationAlways, PTL DEF ClassifySpec, CommittedMonotone

\* The classification service on its requests, and the aggregator on the results, take only the
\* steps of a consumer, and no others change offsets or topics: the offsets of both readers
\* behave as Consumer.Run's, however calls fail and processes restart (kafka.go:86-112).
THEOREM BothConsume == ClassifySpec => Spec /\ Results!Spec
<1>1. ClassifyInit => Init /\ Results!Init
  BY DEF ClassifyInit, DInit
<1>2. [ClassifyNext]_allVars => [Next]_consumer
  BY ServiceDelivers, StepIsNext
<1>3. CInv /\ [ClassifyNext]_allVars => [Results!Next]_(Results!consumer)
  <2>1. [Reader!Next]_(Reader!consumer) => [Results!Next]_(Results!consumer)
    BY DEF Reader!Next, Reader!consumer, Reader!Produce, Reader!Fetch, Reader!HandlerReturnsNil,
           Reader!HandlerFails, Reader!Commit, Reader!CommitFails, Reader!Restart,
           Results!Next, Results!consumer, Results!Produce, Results!Fetch, Results!HandlerReturnsNil,
           Results!HandlerFails, Results!Commit, Results!CommitFails, Results!Restart
  <2> QED BY <2>1, ReaderStep DEF CInv
<1> QED BY <1>1, <1>2, <1>3, ClassificationAlways, PTL DEF ClassifySpec, Spec, Results!Spec

\* No address is ever given a kind it only has on another chain, or never had: not by the
\* cache, the results or the table (classifier.go:26-60).
THEOREM KindsTrue == ClassifySpec => []KindsWereTrue
<1>1. CInv => KindsWereTrue
  BY DEF CInv, KindsWereTrue, CacheOK, HandOK, ResultsOK, RowsOK
<1> QED BY <1>1, ClassificationAlways, PTL

\* What the cache answers, and what is about to be published, was true less than TTL days ago,
\* whenever Redis fails and however often the address is asked for (classifier.go:15, 48-55).
THEOREM StaleBounded == ClassifySpec => []StaleWithinTTL
<1>1. CInv => StaleWithinTTL
  <2> SUFFICES ASSUME CInv, NEW r \in Requests, NEW e \in Entry(r), e.kind # AddressKind(code[r])
               PROVE  now - changed[r] < TTL
    BY DEF StaleWithinTTL, CInv, HandOK
  <2>1. e.until \in Nat /\ now < e.until /\ e.until <= changed[r] + TTL
    BY DEF CInv, CacheOK
  <2> QED BY <2>1, ClassificationAssumption DEF CInv, WorldOK
<1> QED BY <1>1, ClassificationAlways, PTL

\* When the aggregator has handled all results of a partition, the table has the last one of
\* each address, in whatever order redelivery stored them (aggregator.go:69-79, repo.go:181-189).
THEOREM Settled == ClassifySpec => []TableSettles
<1>1. CInv => TableSettles
  <2> SUFFICES ASSUME CInv, NEW p \in Partitions, resStage = "idle", resNext[p] = Len(results[p]) + 1,
                      NEW i \in 1 .. Len(results[p]),
                      \A j \in i + 1 .. Len(results[p]) : results[p][j].req # results[p][i].req
               PROVE  rows[results[p][i].req] = results[p][i].kind \/ results[p][i].req \in lost
    BY DEF TableSettles
  <2>1. i < resNext[p]
    BY DEF CInv, ResultsOK
  <2> QED BY <2>1 DEF CInv, SettledSoFar
<1> QED BY <1>1, ClassificationAlways, PTL
=============================================================================

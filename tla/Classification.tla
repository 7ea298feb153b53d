--------------------------- MODULE Classification ---------------------------
(***************************************************************************)
(* The classification service and what becomes of its answers.  Its loop   *)
(* is Delivery's reader of classify.requests; between the fetch and the    *)
(* return of Runner.Handle stand the cache, the chain and the publish.     *)
(* The aggregator's third reader stores the results, last one wins.        *)
(***************************************************************************)
EXTENDS Delivery, Sequences, FiniteSets

CONSTANTS Requests,   \* requests the aggregator may publish, by chain name and address
          Registered, \* chain names the registry has a client for
          PartOf,     \* address -> partition: both topics are keyed by it
          FirstCode,  \* what each chain has at the requested address at first
          TTL,        \* of a cache entry, in days: 30 in the build
          MaxDays,    \* bound: days
          MaxChanges  \* bound: addresses whose code changes

\* AddressKind by the code at the head: none, 23 bytes that begin ef0100, or other code.
Codes == {"none", "delegation", "program"}
AddressKind(c) ==
  CASE c = "none" -> "eoa" [] c = "delegation" -> "delegated" [] c = "program" -> "contract"

ASSUME ClassificationAssumption ==
  /\ FirstCode \in [Requests -> Codes]
  /\ \A r \in Requests : PartOf[r.addr] \in Partitions
  /\ \A q, r \in Requests : q.chain = r.chain /\ q.addr = r.addr => q = r
  /\ TTL \in Nat \ {0} /\ MaxDays \in Nat /\ MaxChanges \in Nat

VARIABLES asked,    \* partition -> the requests of the topic
          code,     \* request -> what the chain has at its address
          was,      \* request -> kinds its address has had (history)
          changed,  \* request -> the day its code last changed (history)
          now,      \* the day
          cache,    \* the entries of Redis
          step,     \* where Runner.Handle is: get, lookup, set or publish
          kind,     \* the kind in hand
          results,  \* partition -> the results of the topic
          resNext, resCommitted, resStage, resAt, \* the aggregator's reader of them
          rows,     \* table address_classification: request -> kind, "" if no row
          lost      \* requests whose lookup, publish or upsert failed (history)

world == <<code, was, changed, now>>
reader == <<resNext, resCommitted, resStage, resAt>>
service == <<cache, step, kind>>
allVars == <<vars, asked, world, service, results, reader, rows, lost>>

Results == INSTANCE Consumer WITH
  produced <- [p \in Partitions |-> Len(results[p])],
  next <- resNext, committed <- resCommitted, stage <- resStage, at <- resAt

ClassifyInit ==
  /\ asked = [p \in Partitions |-> << >>] /\ results = [p \in Partitions |-> << >>]
  /\ DInit /\ Results!Init
  /\ code = FirstCode
  /\ was = [r \in Requests |-> {AddressKind(code[r])}]
  /\ changed = [r \in Requests |-> 0] /\ now = 0
  /\ cache = {} /\ step = "get" /\ kind = ""
  /\ rows = [r \in Requests |-> ""] /\ lost = {}

-----------------------------------------------------------------------------
(* The chains, the days and the aggregator's requests.                     *)

CodeChanges(r) ==
  /\ r.chain \in Registered
  /\ Cardinality({q \in Requests : Cardinality(was[q]) > 1}) < MaxChanges
  /\ Cardinality(was[r]) = 1
  /\ \E c \in Codes \ {code[r]} :
       /\ code' = [code EXCEPT ![r] = c]
       /\ was' = [was EXCEPT ![r] = @ \cup {AddressKind(c)}]
       /\ changed' = [changed EXCEPT ![r] = now]
  /\ UNCHANGED <<vars, asked, now, service, results, reader, rows, lost>>

\* Redis drops an entry TTL after its Set.  No message is in hand for a whole day: the
\* retries of Client.Do and the writers' attempts are bounded.
NextDay ==
  /\ now < MaxDays /\ stage = "idle" /\ resStage = "idle"
  /\ now' = now + 1
  /\ cache' = {e \in cache : now' < e.until}
  /\ UNCHANGED <<vars, asked, code, was, changed, step, kind, results, reader, rows, lost>>

Ask(r) ==
  LET p == PartOf[r.addr] IN
  /\ produced[p] < MaxMessages /\ Produce(p)
  /\ asked' = [asked EXCEPT ![p] = Append(@, r)]
  /\ UNCHANGED <<handled, failed, failures, restarts, world, service, results, reader, rows, lost>>

-----------------------------------------------------------------------------
(* Runner.Handle and Classifier.Classify.                                  *)

Request == asked[at.part][at.off]

\* A mutation of cacheKey: the chain is left out.
cacheKeyByAddress(r) == <<r.addr>>
cacheKey(r) == <<r.chain, r.addr>>

Entry(r) == {e \in cache : e.key = cacheKey(r)}
Cached(r, k) == (cache \ Entry(r)) \cup {[key |-> cacheKey(r), kind |-> k, until |-> now + TTL]}

At(label) == stage = "handling" /\ step = label
ServiceOnly == UNCHANGED <<asked, world, results, reader, rows>>

Receive(p) == DFetch(p) /\ step' = "get" /\ kind' = "" /\ UNCHANGED <<cache, lost>> /\ ServiceOnly

\* A mutation of CacheHits: a hit renews the entry.
CacheHitsAndRenews ==
  /\ At("get") /\ \E e \in Entry(Request) : kind' = e.kind /\ cache' = Cached(Request, e.kind)
  /\ step' = "publish"
  /\ UNCHANGED <<vars, lost>> /\ ServiceOnly

CacheHits ==
  /\ At("get") /\ \E e \in Entry(Request) : kind' = e.kind
  /\ step' = "publish"
  /\ UNCHANGED <<vars, cache, lost>> /\ ServiceOnly

\* A mutation of CacheMisses: an unreachable Redis fails the classification.
CacheMissesOnly ==
  /\ At("get")
  /\ \/ Entry(Request) = {} /\ step' = "lookup" /\ UNCHANGED vars
     \/ DNil /\ UNCHANGED step
  /\ UNCHANGED <<kind, cache, lost>> /\ ServiceOnly

\* redis.Nil, or any other error of Get: whether the entry is there or not, the chain is asked.
CacheMisses ==
  /\ At("get")
  /\ step' = "lookup"
  /\ UNCHANGED <<vars, cache, kind, lost>> /\ ServiceOnly

\* LatestBlock, then AddressKind at that block.
LookUp ==
  /\ At("lookup") /\ Request.chain \in Registered
  /\ kind' = AddressKind(code[Request])
  /\ step' = "set"
  /\ UNCHANGED <<vars, cache, lost>> /\ ServiceOnly

\* Classify returns an error and Handle returns nil: the request is committed.
UnknownChain ==
  /\ At("lookup") /\ Request.chain \notin Registered
  /\ DNil
  /\ UNCHANGED <<service, lost>> /\ ServiceOnly

LookUpFails ==
  /\ At("lookup") /\ Request.chain \in Registered
  /\ failures < MaxFailures /\ failures' = failures + 1
  /\ HandlerReturnsNil /\ handled' = handled \cup {at}
  /\ lost' = lost \cup {Request}
  /\ UNCHANGED <<failed, restarts, service>> /\ ServiceOnly

\* A failing Set is logged; the entry may have been written all the same.
CacheSet ==
  /\ At("set")
  /\ cache' \in {cache, Cached(Request, kind)}
  /\ step' = "publish"
  /\ UNCHANGED <<vars, kind, lost>> /\ ServiceOnly

Result == [req |-> Request, kind |-> kind]
Published == results' = [results EXCEPT ![PartOf[Request.addr]] = Append(@, Result)]

Publish ==
  /\ At("publish") /\ Published /\ DNil
  /\ UNCHANGED <<asked, world, service, reader, rows, lost>>

\* PublishJSON returns an error, the result on the topic or not.
PublishFails ==
  /\ At("publish") /\ (Published \/ UNCHANGED results) /\ DFail
  /\ lost' = lost \cup {Request}
  /\ UNCHANGED <<asked, world, service, reader, rows>>

Acknowledge == (DCommit \/ DCommitFails) /\ UNCHANGED <<service, lost>> /\ ServiceOnly

ServiceRestarts == DRestart /\ UNCHANGED <<service, lost>> /\ ServiceOnly

-----------------------------------------------------------------------------
(* Aggregator.HandleClassifyResult under its own Consumer.Run.             *)

AggregatorOnly == UNCHANGED <<consumer, handled, failed, asked, world, service, results>>

ReceiveResult(p) == AggregatorOnly /\ Results!Fetch(p) /\ UNCHANGED <<failures, restarts, rows, lost>>

\* A mutation of UpsertClassification: ON CONFLICT DO NOTHING.
InsertClassification(res) == rows' = [rows EXCEPT ![res.req] = IF @ = "" THEN res.kind ELSE @]

\* INSERT ... ON CONFLICT (chain, address) DO UPDATE SET address_type = EXCLUDED.address_type
UpsertClassification(res) == rows' = [rows EXCEPT ![res.req] = res.kind]

ResultInHand == results[resAt.part][resAt.off]

StoreResult ==
  /\ AggregatorOnly
  /\ resStage = "handling" /\ UpsertClassification(ResultInHand) /\ Results!HandlerReturnsNil
  /\ UNCHANGED <<failures, restarts, lost>>

StoreFails ==
  /\ AggregatorOnly
  /\ resStage = "handling" /\ failures < MaxFailures /\ failures' = failures + 1
  /\ UpsertClassification(ResultInHand) \/ UNCHANGED rows
  /\ Results!HandlerFails
  /\ lost' = lost \cup {ResultInHand.req}
  /\ UNCHANGED restarts

CommitResult ==
  /\ AggregatorOnly
  /\ \/ Results!Commit /\ UNCHANGED failures
     \/ failures < MaxFailures /\ failures' = failures + 1 /\ Results!CommitFails
  /\ UNCHANGED <<restarts, rows, lost>>

AggregatorRestarts ==
  /\ AggregatorOnly
  /\ restarts < MaxRestarts /\ restarts' = restarts + 1
  /\ Results!Restart
  /\ UNCHANGED <<failures, rows, lost>>

Handle == CacheHits \/ CacheMisses \/ LookUp \/ UnknownChain \/ LookUpFails \/ CacheSet \/ Publish \/ PublishFails
HandleClassifyResult == StoreResult \/ StoreFails

ClassifyNext ==
  \/ \E r \in Requests : CodeChanges(r) \/ Ask(r)
  \/ NextDay
  \/ \E p \in Partitions : Receive(p) \/ ReceiveResult(p)
  \/ Handle \/ Acknowledge \/ ServiceRestarts
  \/ HandleClassifyResult \/ CommitResult \/ AggregatorRestarts

ClassifySpec == ClassifyInit /\ [][ClassifyNext]_allVars

\* Both processes keep running (see DFairSpec); days and chains need not move.
ClassifyFairSpec ==
  /\ ClassifySpec
  /\ \A p \in Partitions : SF_allVars(Receive(p)) /\ SF_allVars(ReceiveResult(p))
  /\ WF_allVars(Handle \/ Acknowledge)
  /\ WF_allVars(HandleClassifyResult \/ CommitResult)

-----------------------------------------------------------------------------
(* Properties                                                              *)

Kinds == {"eoa", "delegated", "contract"}

\* The service and the topics are well formed; the results reader stays inside its topic.
ClassifyTypeOK ==
  /\ DTypeOK
  /\ \A p \in Partitions : Len(asked[p]) = produced[p]
  /\ asked \in [Partitions -> Seq(Requests)]
  /\ results \in [Partitions -> Seq([req : Requests, kind : Kinds])]
  /\ code \in [Requests -> Codes] /\ was \in [Requests -> SUBSET Kinds]
  /\ \A r \in Requests : changed[r] \in 0 .. now
  /\ step \in {"get", "lookup", "set", "publish"}
  /\ rows \in [Requests -> Kinds \cup {""}] /\ lost \subseteq Requests
  /\ \A p \in Partitions : /\ resCommitted[p] \in 0 .. Len(results[p])
                           /\ resNext[p] \in resCommitted[p] + 1 .. Len(results[p]) + 1
  /\ resStage \in {"idle", "handling", "committing"}
  /\ resStage # "idle" => resAt.part \in Partitions /\ resAt.off \in 1 .. Len(results[resAt.part])

\* Whatever is cached, in hand, published or stored for an address of a chain was its kind
\* on that very chain at some time: chains are never mixed up, whichever of cache, chain,
\* topics and restarts it went through (classifier.go:26-60, repo.go:181-189).
KindsWereTrue ==
  /\ \A r \in Requests : \A e \in Entry(r) : e.kind \in was[r]
  /\ At("set") \/ At("publish") => kind \in was[Request]
  /\ \A p \in Partitions : \A i \in 1 .. Len(results[p]) :
       results[p][i].kind \in was[results[p][i].req]
  /\ \A r \in Requests : rows[r] # "" => rows[r] \in was[r]

\* A kind that the cache would answer, or that is about to be published, and that is no longer
\* true became so less than TTL days ago: an address asked for all the time is looked up again
\* (cacheTTL, classifier.go:15).
StaleWithinTTL ==
  /\ \A r \in Requests : \A e \in Entry(r) : e.kind # AddressKind(code[r]) => now - changed[r] < TTL
  /\ At("publish") /\ kind # AddressKind(code[Request]) => now - changed[Request] < TTL

\* Once all results of a partition are handled, the table has the last one published for each
\* address, redelivered or not, unless a write of its failed (aggregator.go:69-79).
TableSettles ==
  \A p \in Partitions : resStage = "idle" /\ resNext[p] = Len(results[p]) + 1 =>
    \A i \in 1 .. Len(results[p]) :
      LET r == results[p][i].req IN
      (\A j \in i + 1 .. Len(results[p]) : results[p][j].req # r) =>
        rows[r] = results[p][i].kind \/ r \in lost

\* Every address asked for under a known chain gets its row: restarts of either process and
\* Redis failing at any time do not lose it, a failed lookup, publish or upsert of it does
\* (classifier.go:37-39, runner.go:29).
AskedLeadsToRow ==
  \A r \in Requests : r.chain \in Registered =>
    (\E i \in 1 .. Len(asked[PartOf[r.addr]]) : asked[PartOf[r.addr]][i] = r)
      ~> (rows[r] # "" \/ r \in lost)
=============================================================================

---------------------------- MODULE Distribution ----------------------------
(***************************************************************************)
(* The distribution of a snapshot: the gateway's getDistribution and, for  *)
(* callers of the gRPC service, GetDistribution alone, over the reads of   *)
(* storage.Repo, while the aggregator fills the snapshot and stores        *)
(* classifications.  Each read is one statement; no transaction spans two. *)
(***************************************************************************)
EXTENDS Metrics, SequencesExt

CONSTANTS Chains,     \* chain names in address_classification
          Values,     \* bound: the balances
          MaxHolders, \* bound: their number
          MaxUpserts  \* bound: classifications stored

ASSUME DistributionAssumption ==
  Values \subseteq Int \ {0} /\ MaxHolders \in Nat /\ MaxUpserts \in Nat

VARIABLES state,      \* of the row in snapshots, "absent" if there is none
          balances,   \* the rows in balances
          held,       \* the balances that TryComplete will insert
          classified, \* the rows of address_classification
          upserts,
          via,        \* who asks: the gateway or a client of the service
          pc,         \* idle, holders, meta or replied
          holders,    \* the rows that SnapshotHolders returned
          asOf,       \* the classifications at that moment (history)
          reply

database == <<state, balances, held, classified, upserts>>
request == <<via, pc, holders, asOf, reply>>
vars == <<database, request>>

NoReply == [code |-> 0]

Init ==
  /\ held \in UNION {[1 .. n -> Values] : n \in 0 .. MaxHolders}
  /\ state = "absent" /\ balances = << >>
  /\ classified = {} /\ upserts = 0
  /\ via \in {"gateway", "service"} /\ pc = "idle"
  /\ holders = {} /\ asOf = {} /\ reply = NoReply

-----------------------------------------------------------------------------
(* The aggregator's transactions, each visible at its commit.              *)

Ingest ==
  /\ state = "absent" /\ state' = "scanning"
  /\ UNCHANGED <<balances, held, classified, upserts, request>>

Complete ==
  /\ state = "scanning" /\ state' = "ready" /\ balances' = held
  /\ UNCHANGED <<held, classified, upserts, request>>

\* Holders are classified on the snapshot's chain, and wherever else they hold a token.
Upsert(chain, addr, kind) ==
  /\ upserts < MaxUpserts /\ upserts' = upserts + 1
  /\ classified' = {c \in classified : c.chain # chain \/ c.addr # addr}
                     \cup {[chain |-> chain, addr |-> addr, kind |-> kind]}
  /\ UNCHANGED <<state, balances, held, request>>

-----------------------------------------------------------------------------
(* The reads.                                                              *)

Row(addr, chain, kind) == [addr |-> addr, on |-> chain, balance |-> balances[addr], kind |-> kind]

\* balances LEFT JOIN address_classification ON address: a row per classification of a holder.
\* A balance is negative when the scan began after transfers to its holder.
SnapshotHolders ==
  LET kept == {a \in DOMAIN balances : balances[a] > 0} IN
  {Row(c.addr, c.chain, c.kind) : c \in {d \in classified : d.addr \in kept}} \cup
  {Row(a, "", "") : a \in {b \in kept : \A c \in classified : c.addr # b}}

Replies(code) == pc' = "replied" /\ reply' = [code |-> code]

\* A mutation of SnapshotStatus: a row is enough.
StatusOfAnyRow ==
  /\ via = "gateway" /\ pc = "idle"
  /\ IF state = "absent" THEN Replies(404) ELSE pc' = "holders" /\ UNCHANGED reply
  /\ UNCHANGED <<database, via, holders, asOf>>

\* getDistribution: 404 without a row, 409 until it is ready.
SnapshotStatus ==
  /\ via = "gateway" /\ pc = "idle"
  /\ CASE state = "absent"   -> Replies(404)
       [] state = "scanning" -> Replies(409)
       [] OTHER              -> pc' = "holders" /\ UNCHANGED reply
  /\ UNCHANGED <<database, via, holders, asOf>>

StatusFails ==
  /\ via = "gateway" /\ pc = "idle"
  /\ Replies(500)
  /\ UNCHANGED <<database, via, holders, asOf>>

\* A client of the service asks without looking at the state first.
CallService ==
  /\ via = "service" /\ pc = "idle"
  /\ pc' = "holders"
  /\ UNCHANGED <<database, via, holders, asOf, reply>>

ReadHolders ==
  /\ pc = "holders"
  /\ holders' = SnapshotHolders /\ asOf' = classified
  /\ pc' = "meta"
  /\ UNCHANGED <<database, via, reply>>

BalancesOf(rows) == LET q == SetToSeq(rows) IN [i \in DOMAIN q |-> q[i].balance]

\* A mutation of Kept: only known accounts are kept.
KeptAccounts(rows) == {h \in rows : h.kind = "eoa"}
Kept(rows) == {h \in rows : h.kind \notin {"contract", "delegated"}}

\* SnapshotMeta finds the row only when it is ready.
ReadMeta ==
  /\ pc = "meta"
  /\ IF state = "ready"
     THEN /\ pc' = "replied"
          /\ reply' = [code |-> 200, raw |-> Compute(BalancesOf(holders)),
                       filtered |-> Compute(BalancesOf(Kept(holders)))]
     ELSE Replies(502)
  /\ UNCHANGED <<database, via, holders, asOf>>

\* A query or the call fails, or its five seconds are over.
ServiceFails ==
  /\ pc \in {"holders", "meta"}
  /\ Replies(502)
  /\ UNCHANGED <<database, via, holders, asOf>>

GetDistribution == CallService \/ ReadHolders \/ ReadMeta \/ ServiceFails
getDistribution == SnapshotStatus \/ StatusFails

Next ==
  \/ Ingest \/ Complete
  \/ \E c \in Chains, a \in DOMAIN held, k \in {"eoa", "contract", "delegated"} : Upsert(c, a, k)
  \/ getDistribution \/ GetDistribution

Spec == Init /\ [][Next]_vars

-----------------------------------------------------------------------------
(* Properties                                                              *)

Answered == reply.code = 200
Answers == {<<reply.raw, BalancesOf(holders)>>, <<reply.filtered, BalancesOf(Kept(holders))>>}

\* The metrics answered, raw and filtered, are what their names promise of the very balances
\* answered for: the Gini coefficient half the relative mean difference over all pairs, which
\* for n holders is at most 1 - 1/n, so 0 for a single one and never the 1 of metrics.go:62;
\* Nakamoto the least number of holders, the largest or not, with more than half of the total,
\* whatever the rounding of the half; the concentration index the chance that two units drawn
\* at random have one holder; each holder and unit in one bucket, the richest in the highest
\* one in use (metrics.go:30-139).  Gini and index are meant before rounding.
MetricsMeetDefinitions ==
  Answered => \A answer \in Answers :
    LET m == answer[1]  list == answer[2] IN
    /\ list # << >> => IsGini(m.gini, list) /\ IsNakamoto(m.nakamoto, list) /\ IsHHI(m.hhi, list)
    /\ ArePartition(m.buckets, list)

\* No address is classified on two chains.
OneChainEach == \A c, d \in classified : c.addr = d.addr => c.chain = d.chain

Held == {a \in DOMAIN held : held[a] > 0}

\* An answer is about a whole snapshot: each holder once, when no address is classified on
\* two chains, however completion and classification fall between the reads.  Only a caller
\* of the service that skipped the gateway's check may get one with no holders at all, when
\* the snapshot completed between its two reads (server.go:31-35, handlers.go:113).
AnswerWhole ==
  Answered =>
    \/ /\ {h.addr : h \in holders} = Held
       /\ OneChainEach => reply.raw.holders = Cardinality(Held)
    \/ via = "service" /\ reply.raw.holders = 0

Programs(a) == {c \in asOf : c.addr = a /\ c.kind \in {"contract", "delegated"}}

\* The filtered metrics leave out the holders then known as contracts or delegated accounts,
\* and keep every other, classified or not (server.go:44-47).
FilteredLeavesOutPrograms ==
  Answered /\ OneChainEach /\ holders # {} =>
    reply.filtered.holders = Cardinality({a \in Held : Programs(a) = {}})
=============================================================================

---------------------------- MODULE DeployBlock -----------------------------
(***************************************************************************)
(* Client.FindDeployBlock: a binary search over the chain's history for    *)
(* the block a contract appeared in.  HasCodeAt goes through Client.Do,    *)
(* which retries what isRetryable calls transient.                         *)
(***************************************************************************)
EXTENDS Integers

CONSTANTS Heads,      \* blocks LatestBlock may answer
          MaxAttempts \* of one call: 5 in the build

ASSUME DeployAssumption ==
  /\ Heads \subseteq Nat
  /\ MaxAttempts \in Nat \ {0}

VARIABLES code,     \* the blocks at which the address has code, as the archive node knows them
          latest,
          lo, hi,   \* the search interval; hi is also the answer
          asked,    \* the block of the getCode call in hand
          attempt,
          pc        \* which getCode call is in hand: head, genesis, search; or found, failed

vars == <<code, latest, lo, hi, asked, attempt, pc>>

\* Any history: never deployed, deployed once, destroyed and deployed again.
Init ==
  /\ \E h \in Heads : latest = h /\ code \in SUBSET (0 .. h)
  /\ lo = 0 /\ hi = latest
  /\ asked = latest
  /\ attempt = 1
  /\ pc \in {"head", "failed"} \* failed: LatestBlock is not retried

Calling == pc \in {"head", "genesis", "search"}

Ask(block) == asked' = block /\ attempt' = 1

Middle(l, h) == l + (h - l) \div 2

\* The next turn of the loop, or the end of it.
Search(l, h) ==
  /\ lo' = l /\ hi' = h
  /\ IF l + 1 < h THEN pc' = "search" /\ Ask(Middle(l, h))
                  ELSE pc' = "found" /\ UNCHANGED <<asked, attempt>>

HeadAnswers ==
  /\ pc = "head"
  /\ IF asked \in code THEN pc' = "genesis" /\ Ask(0)
                       ELSE pc' = "failed" /\ UNCHANGED <<asked, attempt>>
  /\ UNCHANGED <<code, latest, lo, hi>>

\* A mutation of GenesisAnswers: the edge case is left out.
GenesisIgnored ==
  /\ pc = "genesis"
  /\ Search(0, latest)
  /\ UNCHANGED <<code, latest>>

GenesisAnswers ==
  /\ pc = "genesis"
  /\ IF asked \in code
     THEN pc' = "found" /\ hi' = 0 /\ UNCHANGED <<lo, asked, attempt>>
     ELSE Search(0, latest)
  /\ UNCHANGED <<code, latest>>

\* A mutation of SearchAnswers: a block with code is excluded from the interval.
SearchExcludesHit ==
  /\ pc = "search"
  /\ IF asked \in code THEN Search(lo, asked - 1) ELSE Search(asked, hi)
  /\ UNCHANGED <<code, latest>>

\* Another: a block without code does not narrow it.
SearchKeepsMiss ==
  /\ pc = "search"
  /\ IF asked \in code THEN Search(lo, asked) ELSE Search(lo, hi)
  /\ UNCHANGED <<code, latest>>

SearchAnswers ==
  /\ pc = "search"
  /\ IF asked \in code THEN Search(lo, asked) ELSE Search(asked, hi)
  /\ UNCHANGED <<code, latest>>

\* A mutation of CallRetries: attempts are not limited.
RetryWithoutLimit ==
  /\ Calling
  /\ attempt' = attempt + 1
  /\ UNCHANGED <<code, latest, lo, hi, asked, pc>>

\* A transient error: the same call again, as long as attempts are left.
CallRetries ==
  /\ Calling /\ attempt < MaxAttempts
  /\ attempt' = attempt + 1
  /\ UNCHANGED <<code, latest, lo, hi, asked, pc>>

\* An error that is not transient (a pruned node's), the last attempt's, or a
\* cancelled context: FindDeployBlock returns it.
CallFails ==
  /\ Calling
  /\ pc' = "failed"
  /\ UNCHANGED <<code, latest, lo, hi, asked, attempt>>

Next == HeadAnswers \/ GenesisAnswers \/ SearchAnswers \/ CallRetries \/ CallFails

Spec == Init /\ [][Next]_vars

-----------------------------------------------------------------------------
(* Properties                                                              *)

\* Every variable has its type, and the call in hand is inside the interval.
DeployTypeOK ==
  /\ latest \in Nat /\ code \subseteq 0 .. latest
  /\ lo \in Nat /\ hi \in Nat /\ hi <= latest
  /\ asked \in Nat /\ attempt \in 1 .. MaxAttempts
  /\ pc \in {"head", "genesis", "search", "found", "failed"}
  /\ pc = "head" => asked = latest
  /\ pc = "genesis" => asked = 0 /\ latest \in code
  /\ pc = "search" => lo < asked /\ asked < hi

\* The search keeps a block without code below one with code.
Straddles == pc = "search" => lo \notin code /\ hi \in code

\* The block found is one the contract appeared in: it has code there and none in the
\* block before, for any history of the address (deploy.go:66-87).
FoundIsDeployment ==
  pc = "found" => hi \in code /\ (hi = 0 \/ hi - 1 \notin code)

\* The address had code from some block on and never lost it.
DeployedOnce == \A m, n \in 0 .. latest : m \in code /\ m <= n => n \in code

\* For a contract that was never destroyed the search finds the first block with code,
\* so a scan from there leaves no Transfer log behind it (scanner.go:72-77).
FoundIsFirst ==
  pc = "found" /\ DeployedOnce => \A n \in code : hi <= n

\* The search ends: the interval shrinks at every turn, and a call is not retried for ever
\* (deploy.go:75, client.go:80).
SearchEnds == <>(pc \in {"found", "failed"})
=============================================================================

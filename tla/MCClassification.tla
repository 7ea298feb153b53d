-------------------------- MODULE MCClassification --------------------------
(* Instances of Classification for TLC: an address held on two chains, and   *)
(* one asked for without a chain, as after a restart of the aggregator.      *)
EXTENDS Classification

CONSTANTS a, p1

MCRequests == {[chain |-> "ethereum", addr |-> a], [chain |-> "polygon", addr |-> a]}
MCFirstCode == [r \in MCRequests |-> IF r.chain = "polygon" THEN "program" ELSE "none"]
MCPartOf == [x \in {a} |-> p1]
=============================================================================

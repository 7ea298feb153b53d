---------------------------- MODULE MCAggregator ----------------------------
(* Instances of Aggregator for TLC: one token whose chain mints, moves and   *)
(* empties balances over a few blocks, and one or two jobs on it.            *)
EXTENDS Polling, SequencesExt

CONSTANTS s1, s2, tok, zero, a, b

L(key, block, src, dst, value) ==
  [key |-> key, block |-> block, src |-> src, dst |-> dst, value |-> value]

\* a is emptied again in block 2; the next holder appears in block 4.
MCLogs == [t \in Tokens |->
  {L(1, 1, zero, a, 2), L(2, 2, a, b, 2), L(3, 4, b, a, 1)}]

MCTokenOf == [s \in Snapshots |-> tok]
MCChainOf == [t \in Tokens |-> "ethereum"]

Plan(from, to, size) == ToSet(buildChunks(from, to, size))

\* One job over blocks 1..4, in chunks of two.
PlansOne == [s \in Snapshots |-> {Plan(1, 4, 2)}]

\* s1 scans block 1; s2 scans blocks that touch it, or that leave a gap.
PlansShared == [s \in Snapshots |->
  IF s = s1 THEN {Plan(1, 1, 2)} ELSE {Plan(2, 4, 2), Plan(3, 4, 2)}]

\* to_block = 0 as well, within the chain's transfers: the second run sees one more block,
\* which holds a transfer.
PlansHead == [s \in Snapshots |-> {Plan(1, 3, 2), Plan(1, 4, 2)}]

\* to_block = 0: the head has moved by one block when the job runs again.
PlansDrift == [s \in Snapshots |-> {Plan(1, 5, 2), Plan(1, 6, 2)}]
=============================================================================

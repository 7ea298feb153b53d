----------------------------- MODULE MCLogFetch -----------------------------
(* Instances of LogFetch for TLC: a chunk of a few blocks, one of its logs    *)
(* reorged away and one with addresses that are not indexed.                  *)
EXTENDS LogFetch

G(key, block, topics, removed) ==
  [key |-> key, block |-> block, topics |-> topics, removed |-> removed]

MCRawLogs ==
  {G(1, 1, 3, FALSE), G(2, 2, 3, FALSE), G(3, 2, 3, TRUE), G(4, 3, 1, FALSE),
   G(5, 4, 3, FALSE), G(6, 5, 3, FALSE), G(7, 7, 3, FALSE), G(8, 9, 3, FALSE)}
=============================================================================

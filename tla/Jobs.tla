-------------------------------- MODULE Jobs --------------------------------
(***************************************************************************)
(* What a snapshot job asks for, and the chain it is answered from.  A     *)
(* token stands for a (chain, token) pair; a Transfer is one ERC-20        *)
(* Transfer log, its key the (block, log index) order of the chain.        *)
(***************************************************************************)
EXTENDS Chunks

CONSTANTS Snapshots,  \* job ids, which are the ids of table snapshots
          Tokens,     \* (chain, token) pairs
          TokenOf,    \* the pair a job asks for
          Addrs, ZeroAddr,
          Logs,       \* per token, the Transfer logs on its chain
          Plans       \* per job, the chunk plans its runs may resolve to

Transfer == [key : Nat, block : Nat, src : Addrs, dst : Addrs, value : Nat]

ASSUME JobsAssumption ==
  /\ TokenOf \in [Snapshots -> Tokens]
  /\ ZeroAddr \in Addrs

ASSUME LogsAssumption ==
  \A t \in Tokens : /\ IsFiniteSet(Logs[t])
                    /\ Logs[t] \subseteq Transfer
                    /\ \A l, m \in Logs[t] : l.key = m.key => l = m

ASSUME PlansAssumption ==
  \A s \in Snapshots : \A p \in Plans[s] :
    IsFiniteSet(p) /\ p # {} /\ p \subseteq BlockRange

ChunkLogs(s, c) == {l \in Logs[TokenOf[s]] : l.block \in Blocks(c)}

\* The batches of a plan, each a chunk and its place in that chunk.
BatchesOf(s, plan) ==
  UNION {{<<c, i>> : i \in 1 .. BatchCount(ChunkLogs(s, c))} : c \in plan}
=============================================================================

------------------------------ MODULE Planning ------------------------------
(***************************************************************************)
(* Scanner.Run up to its dispatch loop, for a job without a from_block:    *)
(* the deploy-block search, the block interval resolved from its outcome,  *)
(* and the plan; with the batches each chunk of the plan will be put on    *)
(* the topic in.                                                           *)
(***************************************************************************)
EXTENDS DeployBlock, Chunks

CONSTANTS Sizes,    \* chunk sizes of a scanner, and caps of an endpoint (0: none)
          ToBlocks  \* of the job, or the head when it names none

\* Below the wrap of uint64, as are the blocks of a chain.  A job's to_block is request data that
\* nothing compares with the head (handlers.go:43, scanner.go:61): jobs with one within a chunk
\* of 2^64, for which the loop of buildChunks wraps, are left out.
ASSUME PlanningAssumption ==
  /\ Sizes \subseteq Nat /\ ToBlocks \subseteq Nat
  /\ \A n \in Sizes, t \in ToBlocks : t + n <= Word

VARIABLES range, size, plan

planVars == <<range, size, plan>>
allVars == <<vars, planVars>>

PlanInit ==
  /\ Init
  /\ range = [from |-> 0, to |-> 0] /\ size = 1 /\ plan = << >>

FindDeployBlock == Next /\ UNCHANGED planVars

\* A mutation of FromBlock: the block after the deployment.
FromNextBlock == IF pc = "found" THEN hi + 1 ELSE 0

\* A search that failed, for whatever reason, means a scan from block 0.
FromBlock == IF pc = "found" THEN hi ELSE 0

\* A from_block above the to_block is an error: nothing is planned.
Plan ==
  /\ pc \in {"found", "failed"} /\ plan = << >>
  /\ \E to \in ToBlocks, max \in Sizes \ {0}, cap \in Sizes :
       /\ FromBlock <= to
       /\ range' = [from |-> FromBlock, to |-> to]
       /\ size' = ChunkSize(max, cap)
       /\ plan' = buildChunks(FromBlock, to, size')
  /\ UNCHANGED vars

PlanNext == FindDeployBlock \/ Plan

\* Each call and each backoff of the search returns.
PlanSpec == PlanInit /\ [][PlanNext]_allVars /\ WF_allVars(FindDeployBlock)

-----------------------------------------------------------------------------
(* Properties                                                              *)

\* The chunks of a plan follow one another without gap or overlap from the first block
\* to the last, and none is larger than asked (scanner.go:218-231).
PlanTiles ==
  plan # << >> =>
    /\ plan[1].from = range.from /\ plan[Len(plan)].to = range.to
    /\ \A i \in DOMAIN plan : plan[i].to - plan[i].from \in 0 .. size - 1
    /\ \A i \in 1 .. Len(plan) - 1 : plan[i + 1].from = plan[i].to + 1

\* The plan of a job without from_block leaves out no block, up to its to_block, in which
\* a contract that was never destroyed may have emitted a Transfer: neither a search that
\* went wrong nor the chunking loses history (deploy.go:51-88, scanner.go:72-106).
PlanCoversHistory ==
  plan # << >> /\ DeployedOnce =>
    \A n \in code : n <= range.to => \E i \in DOMAIN plan : n \in Blocks(plan[i])

\* One Transfer log in each block of the chunk where the contract has code.
InChunk(c) == {[key |-> b, block |-> b] : b \in code \cap Blocks(c)}
Keys(ls) == {l.key : l \in ls}

\* The batches of a chunk hold its logs once each, in order, and no batch but that of an
\* empty chunk is empty or holds more than the maximum (scanner.go:133-164).
BatchesPartition ==
  \A i \in DOMAIN plan :
    LET ls == InChunk(plan[i])
        n  == BatchCount(ls)
    IN  /\ n >= 1
        /\ UNION {Batch(ls, k) : k \in 1 .. n} = ls
        /\ \A k \in 1 .. n : Cardinality(Batch(ls, k)) <= MaxTransferPerBatch
        /\ ls # {} => \A k \in 1 .. n : Batch(ls, k) # {}
        /\ \A k, m \in 1 .. n : k < m =>
             \A x \in Keys(Batch(ls, k)) : \A y \in Keys(Batch(ls, m)) : x < y
=============================================================================

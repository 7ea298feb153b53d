------------------------------ MODULE Delivery ------------------------------
(***************************************************************************)
(* Consumer with the history of its handler calls, bounded for TLC: what a *)
(* topic's reader delivers, and what it loses.                             *)
(***************************************************************************)
EXTENDS Consumer

CONSTANTS MaxMessages,  \* bound: messages per partition
          MaxFailures,  \* bound: failing handler calls
          MaxRestarts   \* bound: restarts

ASSUME DeliveryAssumption ==
  MaxMessages \in Nat /\ MaxFailures \in Nat /\ MaxRestarts \in Nat

VARIABLES handled,  \* messages whose handler returned nil at least once
          failed,   \* messages whose handler returned an error at least once
          failures, restarts

vars == <<consumer, handled, failed, failures, restarts>>

DInit ==
  /\ Init
  /\ handled = {} /\ failed = {}
  /\ failures = 0 /\ restarts = 0

DProduce ==
  /\ \E p \in Partitions : produced[p] < MaxMessages /\ Produce(p)
  /\ UNCHANGED <<handled, failed, failures, restarts>>

DFetch(p) == Fetch(p) /\ UNCHANGED <<handled, failed, failures, restarts>>

DNil ==
  /\ HandlerReturnsNil
  /\ handled' = handled \cup {at}
  /\ UNCHANGED <<failed, failures, restarts>>

DFail ==
  /\ failures < MaxFailures
  /\ HandlerFails
  /\ failed' = failed \cup {at} /\ failures' = failures + 1
  /\ UNCHANGED <<handled, restarts>>

DCommit == Commit /\ UNCHANGED <<handled, failed, failures, restarts>>

DCommitFails ==
  /\ failures < MaxFailures /\ failures' = failures + 1
  /\ CommitFails
  /\ UNCHANGED <<handled, failed, restarts>>

DRestart ==
  /\ restarts < MaxRestarts
  /\ Restart
  /\ restarts' = restarts + 1
  /\ UNCHANGED <<handled, failed, failures>>

DNext ==
  \/ DProduce
  \/ \E p \in Partitions : DFetch(p)
  \/ DNil \/ DFail \/ DCommit \/ DCommitFails \/ DRestart

DSpec == DInit /\ [][DNext]_vars

\* FetchMessage returns a message of each partition that has some, again and again
\* (the reader's channel is fair); handlers return and commits are attempted.
DFairSpec ==
  /\ DSpec
  /\ \A p \in Partitions : SF_vars(DFetch(p))
  /\ WF_vars(DNil \/ DFail) /\ WF_vars(DCommit \/ DCommitFails)

-----------------------------------------------------------------------------
Message == [part : Partitions, off : Nat]

\* Offsets stay inside the log and the group never commits past the reader.
DTypeOK ==
  /\ \A p \in Partitions : /\ committed[p] \in 0 .. produced[p]
                           /\ next[p] \in committed[p] + 1 .. produced[p] + 1
  /\ stage \in {"idle", "handling", "committing"}
  /\ stage # "idle" => at \in Message /\ at.off \in 1 .. produced[at.part]
  /\ handled \subseteq Message /\ failed \subseteq Message

Passed(p) == {[part |-> p, off |-> o] : o \in 1 .. committed[p]}

\* A committed message was given to the handler, which returned nil or an error:
\* nothing is skipped unseen, across restarts and failed commits (kafka.go:86-112).
NothingSkippedUnseen ==
  \A p \in Partitions : Passed(p) \subseteq handled \cup failed

\* The group's offset never moves back: a message of a partition is committed only
\* after those fetched before it.
CommittedMonotone ==
  [][\A p \in Partitions : committed'[p] >= committed[p]]_vars

\* Every message reaches the handler, restarts and failing handlers notwithstanding.
EveryMessageDelivered ==
  \A p \in Partitions : \A o \in 1 .. MaxMessages :
    produced[p] >= o ~> [part |-> p, off |-> o] \in handled \cup failed

\* "handler failed; will reprocess" (kafka.go:104): a message is committed only when
\* its handler returned nil at least once.
FailedMessagesReprocessed ==
  \A p \in Partitions : Passed(p) \subseteq handled
=============================================================================

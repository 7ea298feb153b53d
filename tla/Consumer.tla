------------------------------ MODULE Consumer ------------------------------
(***************************************************************************)
(* messaging.Consumer.Run for one process of a consumer group: the offsets *)
(* of its partitions and the stage of the message in hand.  FetchMessage   *)
(* moves the reader's own position; only CommitMessages moves the group's. *)
(***************************************************************************)
EXTENDS Integers

CONSTANT Partitions

VARIABLES produced,   \* messages in each partition
          next,       \* offset of the reader's next fetch (offsets count from 1)
          committed,  \* offset committed by the group; a restart resumes after it
          stage,      \* "idle", "handling" or "committing"
          at          \* the message in hand

consumer == <<produced, next, committed, stage, at>>

Init ==
  /\ produced = [p \in Partitions |-> 0]
  /\ next = [p \in Partitions |-> 1]
  /\ committed = [p \in Partitions |-> 0]
  /\ stage = "idle"
  /\ \E p \in Partitions : at = [part |-> p, off |-> 0]

Produce(p) ==
  /\ produced' = [produced EXCEPT ![p] = @ + 1]
  /\ UNCHANGED <<next, committed, stage, at>>

\* A mutation of Fetch: the offset is committed as soon as the message is read.
FetchAutoCommits(p) ==
  /\ stage = "idle" /\ next[p] <= produced[p]
  /\ stage' = "handling"
  /\ at' = [part |-> p, off |-> next[p]]
  /\ next' = [next EXCEPT ![p] = @ + 1]
  /\ committed' = [committed EXCEPT ![p] = next[p]]
  /\ UNCHANGED produced

Fetch(p) ==
  /\ stage = "idle" /\ next[p] <= produced[p]
  /\ stage' = "handling"
  /\ at' = [part |-> p, off |-> next[p]]
  /\ next' = [next EXCEPT ![p] = @ + 1]
  /\ UNCHANGED <<produced, committed>>

HandlerReturnsNil ==
  /\ stage = "handling" /\ stage' = "committing"
  /\ UNCHANGED <<produced, next, committed, at>>

\* "handler failed; will reprocess": logged, and the loop fetches the next message.
HandlerFails ==
  /\ stage = "handling" /\ stage' = "idle"
  /\ UNCHANGED <<produced, next, committed, at>>

Commit ==
  /\ stage = "committing" /\ stage' = "idle"
  /\ committed' = [committed EXCEPT ![at.part] = at.off]
  /\ UNCHANGED <<produced, next, at>>

\* A failing commit is only logged.
CommitFails ==
  /\ stage = "committing" /\ stage' = "idle"
  /\ UNCHANGED <<produced, next, committed, at>>

\* Mutations of Restart: the new process resumes at the committed message, at the
\* first one, or after the last one.
RestartAt(offset) ==
  /\ stage' = "idle" /\ next' = offset
  /\ UNCHANGED <<produced, committed, at>>

RestartAtCommitted == RestartAt(committed)
RestartAtFirst == RestartAt([p \in Partitions |-> 1])
RestartAtLatest == RestartAt([p \in Partitions |-> produced[p] + 1])

\* The process stops (crash, or a cancelled context) and a new one joins the group.
Restart ==
  /\ stage' = "idle"
  /\ next' = [p \in Partitions |-> committed[p] + 1]
  /\ UNCHANGED <<produced, committed, at>>

Next ==
  \/ \E p \in Partitions : Produce(p) \/ Fetch(p)
  \/ HandlerReturnsNil \/ HandlerFails
  \/ Commit \/ CommitFails
  \/ Restart

Spec == Init /\ [][Next]_consumer
=============================================================================

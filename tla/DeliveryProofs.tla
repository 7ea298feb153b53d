--------------------------- MODULE DeliveryProofs ---------------------------
(***************************************************************************)
(* What holds of the offsets of every reader (Consumer), however its       *)
(* handler, its commits and its process fail, and the theorems about       *)
(* Delivery, for any partitions and any numbers of messages, failures and  *)
(* restarts.                                                               *)
(***************************************************************************)
EXTENDS Delivery, TLAPS

\* The group's offset is behind the reader's position, and that inside the log.
OffsetsOK ==
  /\ produced \in [Partitions -> Nat] /\ next \in [Partitions -> Nat]
  /\ committed \in [Partitions -> Nat]
  /\ \A p \in Partitions : committed[p] < next[p] /\ next[p] <= produced[p] + 1

\* The message in hand is the last one fetched of its partition, and not committed.
InHandOK ==
  /\ stage \in {"idle", "handling", "committing"}
  /\ stage # "idle" =>
       /\ at.part \in Partitions /\ at.off \in Nat
       /\ at = [part |-> at.part, off |-> at.off]
       /\ at.off = next[at.part] - 1 /\ committed[at.part] < at.off

ReaderOK == OffsetsOK /\ InHandOK

NeverBack == \A p \in Partitions : committed'[p] >= committed[p]

LEMMA ReaderInit == Init => ReaderOK
  BY DEF Init, ReaderOK, OffsetsOK, InHandOK

LEMMA ReaderNext == ReaderOK /\ [Next]_consumer => ReaderOK' /\ NeverBack
<1> SUFFICES ASSUME ReaderOK, [Next]_consumer PROVE ReaderOK' /\ NeverBack
  OBVIOUS
<1> USE DEF ReaderOK, NeverBack
<1>1. ASSUME NEW p \in Partitions, Produce(p) PROVE ReaderOK' /\ NeverBack
  <2>1. OffsetsOK' /\ NeverBack
    BY <1>1 DEF Produce, OffsetsOK
  <2>2. InHandOK'
    BY <1>1 DEF Produce, InHandOK
  <2> QED BY <2>1, <2>2
<1>2. ASSUME NEW p \in Partitions, Fetch(p) PROVE ReaderOK' /\ NeverBack
  <2>1. OffsetsOK' /\ NeverBack /\ next'[p] = next[p] + 1
    BY <1>2 DEF Fetch, OffsetsOK
  <2>2. stage' = "handling" /\ at' = [part |-> p, off |-> next[p]] /\ committed' = committed
    BY <1>2 DEF Fetch
  <2>3. InHandOK'
    BY <2>1, <2>2 DEF InHandOK, OffsetsOK
  <2> QED BY <2>1, <2>3
<1>3. CASE HandlerReturnsNil \/ HandlerFails \/ CommitFails
  <2>1. OffsetsOK' /\ NeverBack
    BY <1>3 DEF HandlerReturnsNil, HandlerFails, CommitFails, OffsetsOK
  <2>2. InHandOK'
    BY <1>3 DEF HandlerReturnsNil, HandlerFails, CommitFails, InHandOK
  <2> QED BY <2>1, <2>2
<1>4. CASE Commit
  <2>1. /\ at.part \in Partitions /\ at.off = next[at.part] - 1
        /\ committed[at.part] < at.off /\ at.off \in Nat
    BY <1>4 DEF Commit, InHandOK
  <2>2. OffsetsOK' /\ NeverBack
    BY <1>4, <2>1 DEF Commit, OffsetsOK
  <2>3. InHandOK'
    BY <1>4 DEF Commit, InHandOK
  <2> QED BY <2>2, <2>3
<1>5. CASE Restart
  <2>1. OffsetsOK' /\ NeverBack
    BY <1>5 DEF Restart, OffsetsOK
  <2>2. InHandOK'
    BY <1>5 DEF Restart, InHandOK
  <2> QED BY <2>1, <2>2
<1>6. CASE UNCHANGED consumer
  BY <1>6 DEF consumer, OffsetsOK, InHandOK
<1> QED BY <1>1, <1>2, <1>3, <1>4, <1>5, <1>6 DEF Next

-----------------------------------------------------------------------------
(* The histories of the handler's calls.                                   *)

HistoriesOK == handled \subseteq Message /\ failed \subseteq Message

\* Every message the reader is past was given to the handler, which returned or is at it.
PastIsSeen ==
  \A p \in Partitions : \A o \in 1 .. next[p] - 1 :
    \/ [part |-> p, off |-> o] \in handled \cup failed
    \/ stage = "handling" /\ at = [part |-> p, off |-> o]

\* The offsets alone do not say that a commit passes only what was handled: that the reader's
\* position, never behind the group's, is past nothing unseen does.
DInv == ReaderOK /\ HistoriesOK /\ PastIsSeen

\* What a step does to the reader and to the histories, whoever takes it and whatever the
\* bounds are: the service of Classification takes these steps too.
DeliveryStep ==
  \/ /\ \/ \E p \in Partitions : Produce(p) \/ Fetch(p)
        \/ Commit \/ CommitFails \/ Restart \/ UNCHANGED consumer
     /\ UNCHANGED <<handled, failed>>
  \/ HandlerReturnsNil /\ handled' = handled \cup {at} /\ UNCHANGED failed
  \/ HandlerFails /\ failed' = failed \cup {at} /\ UNCHANGED handled

LEMMA DNextIsStep == [DNext]_vars => DeliveryStep
  BY DEF DNext, DProduce, DFetch, DNil, DFail, DCommit, DCommitFails, DRestart, DeliveryStep, vars

LEMMA StepIsNext == DeliveryStep => [Next]_consumer
  BY DEF DeliveryStep, Next

LEMMA DeliveryInit == DInit => DInv
<1> SUFFICES ASSUME DInit PROVE DInv
  OBVIOUS
<1>1. ReaderOK
  BY ReaderInit DEF DInit
<1>2. HistoriesOK /\ PastIsSeen
  BY DEF DInit, Init, HistoriesOK, PastIsSeen
<1> QED BY <1>1, <1>2 DEF DInv

LEMMA DeliveryKeeps == DInv /\ DeliveryStep => DInv'
<1> SUFFICES ASSUME DInv, DeliveryStep PROVE DInv'
  OBVIOUS
<1>1. ReaderOK'
  BY StepIsNext, ReaderNext DEF DInv
<1>2. stage # "idle" => at \in Message
  BY DEF DInv, ReaderOK, InHandOK, Message
<1>3. HistoriesOK'
  BY <1>2 DEF DInv, HistoriesOK, DeliveryStep, HandlerReturnsNil, HandlerFails
<1>4. PastIsSeen'
  <2>1. ASSUME NEW p \in Partitions, Fetch(p), UNCHANGED <<handled, failed>> PROVE PastIsSeen'
    <3> SUFFICES ASSUME NEW q \in Partitions, NEW o \in 1 .. next'[q] - 1
                 PROVE  \/ [part |-> q, off |-> o] \in handled \cup failed
                        \/ at' = [part |-> q, off |-> o]
      BY <2>1 DEF PastIsSeen, Fetch
    <3>1. CASE q = p /\ o = next[p]
      BY <2>1, <3>1 DEF Fetch
    <3>2. CASE ~(q = p /\ o = next[p])
      <4>1. o \in 1 .. next[q] - 1
        BY <2>1, <3>2 DEF Fetch, DInv, ReaderOK, OffsetsOK
      <4> QED BY <2>1, <4>1 DEF DInv, PastIsSeen, Fetch
    <3> QED BY <3>1, <3>2
  <2>2. CASE (\E p \in Partitions : Produce(p)) /\ UNCHANGED <<handled, failed>>
    BY <2>2 DEF DInv, PastIsSeen, Produce
  <2>3. CASE (Commit \/ CommitFails \/ UNCHANGED consumer) /\ UNCHANGED <<handled, failed>>
    BY <2>3 DEF DInv, PastIsSeen, Commit, CommitFails, consumer
  <2>4. CASE Restart /\ UNCHANGED <<handled, failed>>
    <3> SUFFICES ASSUME NEW p \in Partitions, NEW o \in 1 .. next'[p] - 1
                 PROVE  [part |-> p, off |-> o] \in handled \cup failed
      BY <2>4 DEF PastIsSeen
    <3>1. o \in 1 .. committed[p]
      BY <2>4 DEF Restart, DInv, ReaderOK, OffsetsOK
    <3>2. o \in 1 .. next[p] - 1 /\ (at # [part |-> p, off |-> o] \/ stage # "handling")
      BY <3>1 DEF DInv, ReaderOK, OffsetsOK, InHandOK
    <3> QED BY <3>2 DEF DInv, PastIsSeen
  <2>5. CASE HandlerReturnsNil /\ handled' = handled \cup {at} /\ UNCHANGED failed
    BY <2>5 DEF DInv, PastIsSeen, HandlerReturnsNil
  <2>6. CASE HandlerFails /\ failed' = failed \cup {at} /\ UNCHANGED handled
    BY <2>6 DEF DInv, PastIsSeen, HandlerFails
  <2> QED BY <2>1, <2>2, <2>3, <2>4, <2>5, <2>6 DEF DeliveryStep
<1> QED BY <1>1, <1>3, <1>4 DEF DInv

LEMMA DeliveryAlways == DSpec => []DInv
<1>1. DInv /\ [DNext]_vars => DInv'
  BY DNextIsStep, DeliveryKeeps
<1> QED BY <1>1, DeliveryInit, PTL DEF DSpec

LEMMA SeenIsEnough == DInv => NothingSkippedUnseen
<1> SUFFICES ASSUME DInv, NEW p \in Partitions, NEW o \in 1 .. committed[p]
             PROVE  [part |-> p, off |-> o] \in handled \cup failed
  BY DEF NothingSkippedUnseen, Passed
<1>1. o \in 1 .. next[p] - 1 /\ (at # [part |-> p, off |-> o] \/ stage # "handling")
  BY DEF DInv, ReaderOK, OffsetsOK, InHandOK
<1> QED BY <1>1 DEF DInv, PastIsSeen

\* No committed message was kept from the handler: however often it fails, commits fail or the
\* process restarts, a commit passes only messages that were handled or failed (kafka.go:82-114).
THEOREM NothingSkipped == DSpec => []NothingSkippedUnseen
  BY DeliveryAlways, SeenIsEnough, PTL

\* The group's offset of a partition never moves back (kafka.go:109).
THEOREM CommitsForward == DSpec => CommittedMonotone
<1>1. DInv /\ [DNext]_vars => [\A p \in Partitions : committed'[p] >= committed[p]]_vars
  BY DNextIsStep, StepIsNext, ReaderNext DEF DInv, NeverBack
<1> QED BY <1>1, DeliveryAlways, PTL DEF DSpec, CommittedMonotone
=============================================================================

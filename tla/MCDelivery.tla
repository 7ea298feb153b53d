----------------------------- MODULE MCDelivery -----------------------------
(* Instances of Delivery for TLC: the partitions of a topic.                 *)
EXTENDS Delivery
=============================================================================

-------------------------- MODULE MCKafkaConsumer --------------------------
(* Instances of KafkaConsumer for TLC.                                     *)
EXTENDS KafkaConsumer, TLC

Symmetry == Permutations(Members) \union Permutations(Partitions)
=============================================================================

--------------------------- MODULE MCOutboxRelay ---------------------------
(* Instances of OutboxRelay for TLC.                                       *)
EXTENDS OutboxRelay, TLC

Symmetry == Permutations(Relays) \union Permutations(Tasks)
=============================================================================

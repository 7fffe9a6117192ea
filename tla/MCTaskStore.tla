---------------------------- MODULE MCTaskStore ----------------------------
(* Instances of TaskStore for TLC.                                         *)
EXTENDS TaskStore, TLC

Symmetry == Permutations(Clients) \union Permutations(Tasks) \union Permutations(Hashes)
=============================================================================

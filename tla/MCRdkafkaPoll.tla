--------------------------- MODULE MCRdkafkaPoll ---------------------------
(* Instances of RdkafkaPoll for TLC.                                       *)
EXTENDS RdkafkaPoll, TLC

Symmetry == Permutations(Partitions)
=============================================================================

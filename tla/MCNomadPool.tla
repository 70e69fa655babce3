---------------------------- MODULE MCNomadPool ----------------------------
(* NomadPool with CRs that all name the same pool.                         *)
EXTENDS NomadPool, TLC

MCPoolName == [c \in CRs |-> CHOOSE p \in Pools : TRUE]

Symmetry == Permutations(CRs)
=============================================================================

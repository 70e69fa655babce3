--------------------------- MODULE MCNomadCluster ---------------------------
(* NomadCluster with the symmetry of its opaque values, for safety runs.   *)
EXTENDS NomadCluster, TLC

Symmetry == Permutations(Addr) \cup Permutations(Token) \cup Permutations(Key)
=============================================================================

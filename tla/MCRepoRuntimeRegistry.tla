----------------------- MODULE MCRepoRuntimeRegistry -----------------------
(* Small instances of RepoRuntimeRegistry for TLC. *)
EXTENDS RepoRuntimeRegistry, TLC

ServerSymmetry == Permutations(Servers)
=============================================================================

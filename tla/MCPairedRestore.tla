-------------------------- MODULE MCPairedRestore --------------------------
(* An instance of PairedRestore for TLC: ids and files are interchangeable. *)
EXTENDS PairedRestore, TLC

Alike == Permutations(Files) \cup Permutations(Snapshots)
=============================================================================

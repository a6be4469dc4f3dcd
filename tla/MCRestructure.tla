--------------------------- MODULE MCRestructure ---------------------------
(* A provider with one node and a consumer with one node. *)
EXTENDS Restructure

MCRepoOf    == [n1 |-> "r1", n2 |-> "r2"]
MCDependsOn == [n \in {"n1", "n2"} |-> {}]
MCProviders == [r1 |-> {}, r2 |-> {"r1"}]

\* Bound: the process ends only in runs in which the operator began no build early.
CrashesApart == crashes = 0 \/ early = {}
=============================================================================

-------------------------- MODULE MCBatchTopology --------------------------
(* Every caller on three nodes: two that batches want and one between them. *)
EXTENDS BatchTopology, TLC

CONSTANTS n1, n2, n3, b1, b2

\* Two batches that both want n2, and the string order of the paths.
MCBatchNodes == (b1 :> {n1, n2}) @@ (b2 :> {n2})
MCPathRank   == (n1 :> 1) @@ (n2 :> 2) @@ (n3 :> 3)

\* n3 is already above n2: n1 can reach n2 through it, or directly.
MCInitialDeps == {<<n3, n2>>}

\* Transactions with every nesting of locks in the code, and the callers
\* that read or change batches and maintenance.
MCPrograms == {AddNodeDep(n1), RemoveNodeDep(n3), CatalogThenNodes({n1, n2}), DeclStage(n2),
               NodeWrite({n1, n2}), AdminMutation, AdminSnapshot, StablePointSnapshot(b1)}
                 \cup {ReserveIndependentContentBatch(b) : b \in Batches}
=============================================================================

--------------------------- MODULE MCRepoActivity ---------------------------
(* Small instances of RepoActivity for TLC. *)
EXTENDS RepoActivityCallers, TLC

CONSTANTS n1, n2, b1, b2

\* Two batches that both want n2, and the string order of the two paths.
MCBatchNodes == (b1 :> {n1, n2}) @@ (b2 :> {n2})
MCPathRank   == (n1 :> 1) @@ (n2 :> 2)

\* Ownership: the callers that read or change batches and maintenance.
OwnerPrograms == {AddNodeDep(n1), AdminMutation, AdminSnapshot}
                    \cup {ReserveIndependentContentBatch(b) : b \in Batches} \cup {StablePointSnapshot(b1)}
=============================================================================

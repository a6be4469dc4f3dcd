------------------------ MODULE RepoActivityCallers ------------------------
(***************************************************************************)
(* The programs the rest of the application runs against RepoActivity:     *)
(* each operator is one caller, with the contexts in the order in which it *)
(* nests them.                                                             *)
(***************************************************************************)
EXTENDS RepoActivity

CONSTANTS MathlibIndex, BuildCache  \* a catalog lock, the build-cache lock

\* NodeDependencyComponent.add_node_dep: the graph and one node, then the
\* check against the active batches, then the write.
AddNodeDep(n) == <<Write(Topology)>> \o NodeWrite({n}) \o <<Query, Body>>

\* remove_node_dep takes the same contexts and asks nothing.
RemoveNodeDep(n) == <<Write(Topology)>> \o NodeWrite({n}) \o <<Body>>

\* RepoActivityComponent.catalog_then_nodes around its body.
CatalogThenNodes(ns) == <<Write(MathlibIndex)>> \o NodeWrite(ns) \o <<Body>>

\* add_decl_dependencies_transaction and the stage it calls back: the index
\* enters its catalog again, and the node's file is checked in the build
\* cache.  (The index leaves its own entry earlier; the order is the same.)
DeclStage(n) == <<Write(MathlibIndex), Write(MathlibIndex)>> \o NodeWrite({n}) \o <<Write(BuildCache), Body>>

\* _reserve_independent_content_batch of the semantic scheduler: the body is
\* the independence check, which raises when the batch fails it.
ReserveIndependentContentBatch(b) == <<Write(Topology), Body, Reserve(b)>>

\* ApplicationSnapshotRuntime.create_repo_stable_point_snapshot.
StablePointSnapshot(c) == <<Maintain(c), Body>>

\* _run_repo_admin_mutation around a method that enters the catalog, and
\* around one that takes a snapshot itself.
AdminMutation == <<Maintain(NoBatch), Write(MathlibIndex), Body>>
AdminSnapshot == <<Maintain(NoBatch)>> \o StablePointSnapshot(NoBatch)
=============================================================================

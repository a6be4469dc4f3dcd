---------------------------- MODULE MCRepoServer ----------------------------
(* Small instances of RepoServer for TLC: the agents ask for one view, the *)
(* provider's session for another.                                         *)
EXTENDS RepoServer, TLC

CONSTANTS AgentView, ProviderView

MCViews == {AgentView, ProviderView}
MCViewOf == [m \in Requests |-> IF m = Provider THEN ProviderView ELSE AgentView]

TaskSymmetry == Permutations(Clients) \cup Permutations(Routes) \cup Permutations(Unloaders)
=============================================================================

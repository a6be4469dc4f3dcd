--------------------------- MODULE BatchTopology ---------------------------
(***************************************************************************)
(* The dependency edges between nodes (services/node/dependency.py) edited *)
(* under RepoActivity's locks while the semantic scheduler reserves batches *)
(* of nodes that must not depend on one another.                           *)
(*                                                                         *)
(* The module gives the bodies that RepoActivity leaves open their effect: *)
(* a dependency edit checks the batches it was told of and then writes one *)
(* edge, a reservation first checks the edges there are.                   *)
(***************************************************************************)
EXTENDS RepoActivityCallers

CONSTANT InitialDeps  \* the edges there are when the process starts

VARIABLES
    deps,    \* edges <<m, n>>: m's contract has a dependency on n
    answer   \* the batches active_batches last returned to each thread

topologyVars == <<vars, deps, answer>>

\* _has_local_dep_path: what the walk from start reaches is the least set of
\* nodes with start in it that no edge leaves.  (Callers ask of two nodes.)
HasDepPath(edges, start, target) ==
    \A reached \in SUBSET Nodes :
        start \in reached /\ (\A e \in edges : e[1] \in reached => e[2] \in reached)
            => target \in reached

\* No member reaches another (check_content_batch_independent, and the loop
\* of _check_active_batch_topology_candidate).
Independent(edges, b) ==
    \A m, n \in BatchNodes[b] : m # n => ~HasDepPath(edges, m, n)

TopologyInit == Init /\ deps = InitialDeps /\ answer = [t \in Threads |-> {}]

Asks(p)      == \E i \in DOMAIN p : p[i].op = "query"
Reserves(p)  == \E i \in DOMAIN p : p[i].op = "reserve"
EditsDeps(p) == p[1] = Write(Topology) /\ ~Reserves(p)
Edited(p)    == (CHOOSE i \in DOMAIN p : p[i].lock \in Nodes)

\* The callers that reserve a batch, edit the graph or ask for the active
\* batches: there are no others.
ASSUME TopologyPrograms ==
    \A p \in Programs \ {<<>>} :
        /\ Reserves(p) => \E b \in Batches : p = ReserveIndependentContentBatch(b)
        /\ EditsDeps(p) => \E n \in Nodes : p \in {AddNodeDep(n), RemoveNodeDep(n)}
        /\ Asks(p) => EditsDeps(p)

\* active_batches inside _check_active_batch_topology_candidate.
LearnBatches(t) ==
    /\ ActiveBatches(t)
    /\ answer' = [answer EXCEPT ![t] = batches]
    /\ UNCHANGED deps

\* add_node_dep after that check: the new edge is written, or the candidate
\* graph makes members of an active batch dependent and the edit is refused.
AddEdge(t, m, n) ==
    /\ pc[t] = "call" /\ Asks(prog[t]) /\ m = prog[t][Edited(prog[t])].lock /\ n # m
    /\ LET candidate == deps \cup {<<m, n>>} IN
       \/ /\ \A b \in answer[t] : Independent(candidate, b)
          /\ BodyReturns(t) /\ deps' = candidate
       \/ /\ \E b \in answer[t] : ~Independent(candidate, b)
          /\ BodyRaises(t) /\ UNCHANGED deps
    /\ UNCHANGED answer

\* remove_node_dep drops an edge of its node, or finds none.
RemoveEdge(t, n) ==
    /\ pc[t] = "call" /\ EditsDeps(prog[t]) /\ ~Asks(prog[t])
    /\ LET m == prog[t][Edited(prog[t])].lock IN
       \/ BodyReturns(t) /\ deps' = deps \ {<<m, n>>}
       \/ BodyRaises(t) /\ UNCHANGED deps
    /\ UNCHANGED answer

\* Mutant: the reservation relies on the preflight of the submission.
CheckPreflighted(t, b) ==
    /\ pc[t] = "call" /\ Reserves(prog[t]) /\ b \in {prog[t][i].batch : i \in DOMAIN prog[t]}
    /\ BodyReturns(t)
    /\ UNCHANGED <<deps, answer>>

\* check_content_batch_independent, called again under the topology lock.
CheckIndependent(t, b) ==
    /\ pc[t] = "call" /\ Reserves(prog[t]) /\ b \in {prog[t][i].batch : i \in DOMAIN prog[t]}
    /\ \/ Independent(deps, b) /\ BodyReturns(t)
       \/ ~Independent(deps, b) /\ BodyRaises(t)
    /\ UNCHANGED <<deps, answer>>

\* The bodies of the callers that do not touch the graph.
OtherBody(t) ==
    /\ pc[t] = "call" /\ ~EditsDeps(prog[t]) /\ ~Reserves(prog[t])
    /\ BodyReturns(t) \/ BodyRaises(t)
    /\ UNCHANGED <<deps, answer>>

\* RepoActivity's Step with the effects filled in.
TopologyStep(t) ==
    \/ LearnBatches(t)
    \/ \E m, n \in Nodes : AddEdge(t, m, n)
    \/ \E n \in Nodes : RemoveEdge(t, n)
    \/ \E b \in Batches : CheckIndependent(t, b)
    \/ OtherBody(t)
    \/ Protocol(t) /\ UNCHANGED <<deps, answer>>

TopologyNext ==
    \/ \E t \in Threads : TopologyStep(t)
    \/ \E t \in Threads, p \in Programs : Start(t, p) /\ UNCHANGED <<deps, answer>>
    \/ Environment /\ UNCHANGED <<deps, answer>>

\* The Coordinator does not commit while a decision is being taken from its
\* frontier (RepoActivity's finding is what happens when it does).
TopologySpec == TopologyInit /\ [][TopologyNext /\ Quiet]_topologyVars
                    /\ \A t \in Threads : WF_topologyVars(TopologyStep(t))

\* Edges join nodes, and a thread is only ever told of batches.
TopologyTypeOK ==
    /\ TypeOK
    /\ deps \subseteq Nodes \X Nodes
    /\ answer \in [Threads -> SUBSET Batches]

\* The members of a batch that is reserved and pending stay independent of
\* one another, whatever edits race its reservation: the check and the
\* reservation, and the question and the edge, are each under the topology
\* lock (_reserve_independent_content_batch and add_node_dep).
ReservedBatchIndependent ==
    \A b \in held : frontier = b => Independent(deps, b)
=============================================================================

---------------------------- MODULE Restructure ----------------------------
(***************************************************************************)
(* The restructure run of a workspace: app/restructure.py,                 *)
(* services/restructure/ and flows/restructure/.                           *)
(*                                                                         *)
(* A supervisor gives every task (the declared and the proved stage of a   *)
(* content node, the declared and the final build of a repository) a       *)
(* binding in run.json, a reservation of the workspace's budget and a flow *)
(* of the kit.  Its tick, the operator's retries and builds run one after  *)
(* the other in the server's event loop and save several files each; the   *)
(* agents and the builds run in threads of their own; the process may end  *)
(* between any two saves.                                                  *)
(*                                                                         *)
(* Repositories come with their plans, and the run is to prove them.  A    *)
(* task is <<node or repo, stage>>; a request is a task with the epoch of  *)
(* its binding.                                                            *)
(***************************************************************************)
EXTENDS Integers, FiniteSets

CONSTANTS
    Repos, Nodes,
    RepoOf,       \* the repository of a node
    DependsOn,    \* the nodes of its own repository that a node depends on
    Providers,    \* the repositories that a repository depends on
    MaxAgents, MaxBuilds,  \* the budget of the workspace
    MaxRepairs,   \* max_repair_attempts of a build
    MaxRetries,   \* bound: requests of the operator
    MaxCrashes    \* bound: ends of the process

\* validate_repo asks for a content node in every plan, and _assert_acyclic that
\* no dependencies of nodes or of repositories go round.
ASSUME PlanAssumption ==
    /\ Repos \cap Nodes = {} /\ IsFiniteSet(Repos) /\ IsFiniteSet(Nodes)
    /\ RepoOf \in [Nodes -> Repos] /\ Providers \in [Repos -> SUBSET Repos]
    /\ DependsOn \in [Nodes -> SUBSET Nodes]
    /\ \A n \in Nodes : \A m \in DependsOn[n] : RepoOf[m] = RepoOf[n]
    /\ \A r \in Repos : \E n \in Nodes : RepoOf[n] = r
ASSUME AcyclicAssumption ==
    /\ \A S \in (SUBSET Repos) \ {{}} : \E r \in S : Providers[r] \cap S = {}
    /\ \A S \in (SUBSET Nodes) \ {{}} : \E n \in S : DependsOn[n] \cap S = {}
ASSUME BoundAssumption ==
    /\ MaxAgents \in Nat \ {0} /\ MaxBuilds \in Nat \ {0}
    /\ {MaxRepairs, MaxRetries, MaxCrashes} \subseteq Nat

VARIABLES
    run,       \* its status, and the tasks its blocked_issues are about
    binding,   \* the current binding of each task
    work,      \* the ContentWork of each node
    decls,     \* the stage its declarations are registered for, 0 if they are drafts
    reserved,  \* the requests whose reservation is not released
    flow,      \* the flow of the current request of each task
    queue,     \* the flows the kit's scheduler has, lost with the process
    frozen,    \* builds compiling a complete view that its repository still matches
    fresh,     \* ghost: builds since whose view no source they see was changed
    torn,      \* ghost: the process ended inside a retry, its nodes saved
    early,     \* ghost: builds whose binding the operator began before they were ready
    retries, crashes

vars == <<run, binding, work, decls, reserved, flow, queue, frozen, fresh, torn, early, retries, crashes>>

Builds   == Repos \X {"declared", "final"}
Contents == Nodes \X {"declared", "proved"}
Tasks    == Builds \cup Contents
IsBuild(k) == k \in Builds
Home(k)    == IF IsBuild(k) THEN k[1] ELSE RepoOf[k[1]]

\* How far a node is: 0 is the plan stage.
Level(s) == IF s = "declared" THEN 1 ELSE 2

\* A repository and those that depend on it: the least set with it that has the
\* consumers of its members.
HasConsumers(S) == \A c \in Repos : Providers[c] \cap S # {} => c \in S
Below(r) == {c \in Repos : \A S \in SUBSET Repos : r \in S /\ HasConsumers(S) => c \in S}

\* RestructureTaskBinding, ContentWork and the phases of a flow.  A task that was
\* never bound is treated like one whose binding is stale.
Epochs  == Nat \cup {-1}
Binding == [epoch : Epochs, res : BOOLEAN, bound : BOOLEAN, stale : BOOLEAN,
            outcome : {"none", "ok", "bad"}, pins : SUBSET (Repos \X Epochs)]
ContentWork == [there : BOOLEAN, epoch : Nat, stage : 0..2, base : BOOLEAN, issue : BOOLEAN]
Phases  == {"none", "start", "work", "build", "compile", "repair", "fix", "ok", "bad"}
Unbound == [epoch |-> -1, res |-> FALSE, bound |-> FALSE, stale |-> TRUE, outcome |-> "none", pins |-> {}]
NoWork  == [there |-> FALSE, epoch |-> 0, stage |-> 0, base |-> FALSE, issue |-> FALSE]
NoFlow  == [phase |-> "none", repairs |-> 0]
First(k) == [phase |-> IF IsBuild(k) THEN "build" ELSE "start", repairs |-> 0]
Restarted(phase) == CASE phase = "work" -> "start" [] phase = "compile" -> "build"
                      [] phase = "fix" -> "repair" [] OTHER -> phase

Init ==
    /\ run = [status |-> "prepared", blocked |-> {}]
    /\ binding = [k \in Tasks |-> Unbound]
    /\ work = [n \in Nodes |-> NoWork] /\ decls = [n \in Nodes |-> 0]
    /\ reserved = {} /\ flow = [k \in Tasks |-> NoFlow] /\ queue = {}
    /\ frozen = {} /\ fresh = {} /\ torn = FALSE /\ early = {}
    /\ retries = 0 /\ crashes = 0

Request(k)   == <<k, binding[k].epoch>>
Live(k)      == ~binding[k].stale /\ binding[k].outcome = "none"
InFlight(k)  == binding[k].bound /\ Live(k)
Succeeded(k) == ~binding[k].stale /\ binding[k].outcome = "ok"
Ended(k)     == flow[k].phase \in {"ok", "bad"}
StatusStays(issues) == IF run.status = "prepared" THEN "running" ELSE run.status
StatusOf(issues) == IF issues = {} THEN "running" ELSE "blocked"
Staled(S)    == [k \in Tasks |-> IF k \in S THEN [binding[k] EXCEPT !.stale = TRUE] ELSE binding[k]]
Unreserved(S) == reserved \ {Request(k) : k \in {j \in S : binding[j].res}}

\* The process ends: the queue is lost and the steps begin again.
Ends(flows) ==
    /\ crashes < MaxCrashes /\ crashes' = crashes + 1
    /\ queue' = {} /\ frozen' = {}
    /\ flow' = [k \in Tasks |-> [flows[k] EXCEPT !.phase = Restarted(@)]]
Crash == Ends(flow) /\ UNCHANGED <<run, binding, work, decls, reserved, fresh, torn, early, retries>>
-----------------------------------------------------------------------------
(* The frontier. *)

\* A node has passed a stage: its work says so and the task was consumed.
Passed(n, s) == Succeeded(<<n, s>>) /\ work[n].stage >= Level(s)
NodesOf(r)   == {n \in Nodes : RepoOf[n] = r}

\* _repo_at_least
RepoAtLeast(r, s) == \A n \in NodesOf(r) : Passed(n, s) /\ ~work[n].issue
AllBuilt(s) == \A r \in Repos : Succeeded(<<r, s>>)
Advances == run.status \in {"running", "blocked"}

\* workspace_frontier, the barrier of _start_content_items and the guards of
\* advance_run: the tasks that may be dispatched.
Ready(k) ==
    \/ /\ k \in Contents /\ k[2] = "declared" /\ ~Passed(k[1], "declared") /\ ~work[k[1]].issue
       /\ \A m \in DependsOn[k[1]] : Passed(m, "declared")
       /\ \A p \in Providers[RepoOf[k[1]]] : \A m \in NodesOf(p) : Passed(m, "declared")
    \/ /\ k \in Contents /\ k[2] = "proved" /\ ~Passed(k[1], "proved") /\ ~work[k[1]].issue
       /\ \A m \in Nodes : Passed(m, "declared")
       /\ AllBuilt("declared")
    \/ /\ k \in Builds /\ k[2] = "declared" /\ Advances
       /\ RepoAtLeast(k[1], "declared")
       /\ \A p \in Providers[k[1]] : Succeeded(<<p, "declared">>)
    \/ /\ k \in Builds /\ k[2] = "final" /\ Advances
       /\ AllBuilt("declared") /\ RepoAtLeast(k[1], "proved")
       /\ \A p \in Providers[k[1]] : Succeeded(<<p, "final">>)
-----------------------------------------------------------------------------
(* The supervisor. *)

\* The final builds that a final build is pinned to: the current ones.
Pins(k) == IF k \in Builds /\ k[2] = "final"
           THEN {<<p, binding[<<p, "final">>].epoch>> : p \in Providers[k[1]]} ELSE {}
Wanted(k) == IF k \in Contents THEN work[k[1]].epoch ELSE 0

SameKind(q, k) == IsBuild(q[1]) <=> IsBuild(k)
Limit(k) == IF IsBuild(k) THEN MaxBuilds ELSE MaxAgents
AdmittedAnew(q, k) == Cardinality({x \in reserved : SameKind(x, k)}) < Limit(k)
AdmittedBeyond(q, k) == \/ q \in reserved
                        \/ Cardinality({x \in reserved : SameKind(x, k)}) <= Limit(k)
Admitted(q, k) == \/ q \in reserved
                  \/ Cardinality({x \in reserved : SameKind(x, k)}) < Limit(k)

\* The binding that a dispatch works on.  The operator's (again) replaces that of a
\* build that failed too, and names no pins.
Failed(k) == ~binding[k].stale /\ binding[k].outcome = "bad"
Rebinds(k, again) == binding[k].stale \/ (again /\ Failed(k))
Intent(k, again) ==
    IF Rebinds(k, again)
    THEN [epoch |-> IF Wanted(k) > binding[k].epoch THEN Wanted(k) ELSE binding[k].epoch + 1,
          res |-> FALSE, bound |-> FALSE, stale |-> FALSE, outcome |-> "none",
          pins |-> IF again THEN {} ELSE Pins(k)]
    ELSE binding[k]

\* The flow is adopted if the request has one.
FlowAfter(k, again, n) ==
    IF n >= 4 /\ (Rebinds(k, again) \/ flow[k] = NoFlow) THEN First(k)
    ELSE IF Rebinds(k, again) THEN NoFlow ELSE flow[k]
EnqueuedAfter(k, n) == IF n = 6 THEN queue \cup {k} ELSE queue \ {k}

\* _dispatch: its writes are 1 the binding, 2 the reservation, 3 its id in the
\* binding, 4 the flow, 5 its id in the binding, and 6 the flow is enqueued.
\* After the first, a request that is not admitted waits for the next tick; the
\* process may end after each of the others.
Dispatch(k, again, n) ==
    LET b == Intent(k, again)
        q == <<k, b.epoch>>
        issues == IF again /\ binding[k].outcome = "bad" THEN run.blocked \ {k} ELSE run.blocked
        admitted == b.res \/ Admitted(q, k)
        flows == [flow EXCEPT ![k] = FlowAfter(k, again, n)]
    IN  /\ Rebinds(k, again) \/ (Live(k) /\ ~Ended(k))
        /\ IF admitted THEN n > 1 ELSE n = 1
        /\ run' = IF Rebinds(k, again) THEN [status |-> StatusOf(issues), blocked |-> issues] ELSE run
        /\ binding' = [binding EXCEPT ![k] = [b EXCEPT !.res = @ \/ n >= 3, !.bound = @ \/ n >= 5]]
        /\ reserved' = IF n >= 2 /\ ~b.res THEN reserved \cup {q} ELSE reserved
        /\ IF n \in {1, 6}
           THEN flow' = flows /\ queue' = EnqueuedAfter(k, n) /\ UNCHANGED <<frozen, crashes>>
           ELSE Ends(flows)
        /\ early' = IF ~Rebinds(k, again) THEN early
                    ELSE IF again /\ ~Ready(k) THEN early \cup {k} ELSE early \ {k}
        /\ UNCHANGED <<work, decls, fresh, torn>>

\* start_workspace_frontier and the start_build calls of advance_run.
Starts(k) == Ready(k) /\ \E n \in 1..6 : Dispatch(k, FALSE, n) /\ UNCHANGED retries

\* start_restructure_build asks for nothing but a build that has not succeeded.
Asks == retries < MaxRetries /\ retries' = retries + 1
OperatorBuild(k) == IsBuild(k) /\ Asks /\ \E n \in 1..6 : Dispatch(k, TRUE, n)

\* reconcile, for one flow that has ended.  The process may end before the run
\* is saved.
Reconcile(k, cut) ==
    LET failed == flow[k].phase = "bad"
        issues == run.blocked \cup (IF failed THEN {k} ELSE {})
    IN  /\ InFlight(k) /\ Ended(k)
        /\ reserved' = Unreserved({k})
        /\ work' = IF failed /\ k \in Contents
                   THEN [work EXCEPT ![k[1]].there = TRUE, ![k[1]].issue = TRUE] ELSE work
        /\ IF cut
           THEN Ends(flow) /\ UNCHANGED <<run, binding>>
           ELSE /\ binding' = [binding EXCEPT ![k].outcome = flow[k].phase]
                /\ run' = [status |-> StatusOf(issues), blocked |-> issues]
                /\ UNCHANGED <<flow, queue, frozen, crashes>>
        /\ UNCHANGED <<decls, fresh, torn, early, retries>>

\* The end of advance_run.
Finished == AllBuilt("declared") /\ AllBuilt("final") /\ run.blocked = {}
CompleteRun ==
    /\ Advances /\ Finished
    /\ run' = [run EXCEPT !.status = "completed"]
    /\ UNCHANGED <<binding, work, decls, reserved, flow, queue, frozen, fresh, torn, early, retries, crashes>>
-----------------------------------------------------------------------------
(* The operator's retries. *)

NoContentWriter(S) == \A k \in S \cap Contents : ~InFlight(k)
NoWriter(S) == \A k \in S : ~InFlight(k)

\* The last part of retry_content and reopen_declared.
Invalidate(S) ==
    /\ binding' = Staled(S) /\ reserved' = Unreserved(S)
    /\ run' = [status |-> StatusOf(run.blocked \ S), blocked |-> run.blocked \ S]

\* The process ends before the run is saved; the contents are.
Tears(S) ==
    /\ torn' = TRUE /\ Ends(flow) /\ UNCHANGED <<run, binding>>
    /\ reserved' \in {reserved, Unreserved(S)}

RetryStage(n) == IF work[n].base THEN "proved" ELSE "declared"
RetriedRepo(n) == {RepoOf[n]}
RetriedRepos(n) == Below(RepoOf[n])
RetriedBy(n) ==
    {k \in Tasks : /\ ~binding[k].stale
                   /\ \/ k = <<n, RetryStage(n)>>
                      \/ /\ IsBuild(k) /\ k[1] \in RetriedRepos(n)
                         /\ RetryStage(n) = "declared" \/ k[2] = "final"}

\* retry_content
Retry(n, cut) ==
    LET S == RetriedBy(n)
    IN  /\ Asks /\ NoWriter(S)
        /\ work' = [work EXCEPT ![n] =
               [there |-> TRUE, epoch |-> @.epoch + 1, base |-> @.base, issue |-> FALSE,
                stage |-> IF RetryStage(n) = "proved" THEN 1 ELSE 0]]
        /\ IF cut THEN Tears(S)
           ELSE Invalidate(S) /\ UNCHANGED <<flow, queue, frozen, torn, crashes>>
        /\ UNCHANGED <<decls, fresh, early>>

\* The nodes whose interface may rest on that of a node.
RestsOn(m, n) == n \in DependsOn[m] \/ RepoOf[n] \in Providers[RepoOf[m]]
HasDependents(S) == \A m \in Nodes : (\E n \in S : RestsOn(m, n)) => m \in S
Dependents(n) == {m \in Nodes : \A S \in SUBSET Nodes : n \in S /\ HasDependents(S) => m \in S}
ReopenedBy(n) ==
    {k \in Tasks : /\ ~binding[k].stale
                   /\ IF IsBuild(k) THEN \E m \in Dependents(n) : RepoOf[m] = k[1]
                      ELSE k[1] \in Dependents(n)}

\* reopen_declared
Opened(M) == [m \in Nodes |-> IF m \in M /\ work[m].there
    THEN [work[m] EXCEPT !.stage = 0, !.epoch = @ + 1, !.base = FALSE, !.issue = FALSE]
    ELSE work[m]]
Drafted(M) == [m \in Nodes |-> IF m \in M /\ work[m].there THEN 0 ELSE decls[m]]
Reopen(n, cut) ==
    LET S == ReopenedBy(n)
    IN  /\ Asks /\ NoWriter(S)
        /\ IF cut THEN Tears(S) /\ \E M \in (SUBSET Dependents(n)) \ {{}} : work' = Opened(M) /\ decls' = Drafted(M)
           ELSE /\ Invalidate(S) /\ work' = Opened(Dependents(n)) /\ decls' = Drafted(Dependents(n))
                /\ UNCHANGED <<flow, queue, frozen, torn, crashes>>
        /\ UNCHANGED <<fresh, early>>
-----------------------------------------------------------------------------
(* The steps of the flows. *)

\* validate_execution
Valid(k) == InFlight(k) /\ Request(k) \in reserved
At(k, phase) == k \in queue /\ flow[k].phase = phase
Goes(k, phase) == flow' = [flow EXCEPT ![k].phase = phase]

\* The builds that see the sources a task may edit: every build of its
\* repository and below when interfaces change, else the final ones.
Seeing(k) == {j \in Builds : j[1] \in Below(Home(k)) /\ (k[2] = "declared" \/ j[2] = "final")}
\* A build compares the files of its own repository alone.
Touches(k) == /\ fresh' = fresh \ Seeing(k)
              /\ frozen' = {j \in frozen : Home(j) # Home(k)}
\* What the steps of flows never change.
Kept == UNCHANGED <<reserved, queue, torn, early, retries, crashes>>

\* current_task: what it asks of the agent that calls a tool.
Current(k) == InFlight(k) /\ (k \in Contents /\ work[k[1]].there => work[k[1]].epoch = binding[k].epoch)

\* RestructureContentAgentStep.prepare_agent
AgentStarts(k) ==
    /\ k \in Contents /\ At(k, "start")
    /\ IF Valid(k) THEN Goes(k, "work") ELSE Goes(k, "bad")
    /\ UNCHANGED <<run, binding, work, decls, frozen, fresh>> /\ Kept

\* An agent edits the files of its node and has them checked, which registers its
\* declarations; the first tool creates the ContentWork.
AgentEdits(k) ==
    /\ k \in Contents /\ At(k, "work") /\ Current(k)
    /\ work' = [work EXCEPT ![k[1]].there = TRUE] /\ decls' = [decls EXCEPT ![k[1]] = Level(k[2])]
    /\ Touches(k) /\ UNCHANGED <<run, binding, flow>> /\ Kept

\* _submit_content and the end of RestructureContentAgentStep: the stage is saved,
\* then the artifact is sealed, which may fail.
AgentSubmits(k) ==
    /\ k \in Contents /\ At(k, "work") /\ Current(k) /\ Valid(k) /\ work[k[1]].there
    /\ decls[k[1]] >= Level(k[2])
    /\ work[k[1]].base \/ k[2] = "declared"
    /\ work' = [work EXCEPT ![k[1]].stage = Level(k[2]), ![k[1]].base = TRUE]
    /\ Goes(k, "ok") \/ Goes(k, "bad")
    /\ UNCHANGED <<run, binding, decls, frozen, fresh>> /\ Kept

\* An agent is blocked, or ends without an accepted submission.
AgentGivesUp(k) ==
    /\ k \in Contents /\ At(k, "work") /\ Goes(k, "bad")
    /\ UNCHANGED <<run, binding, work, decls, frozen, fresh>> /\ Kept

\* prepare_declared_repair: what it asks, and the builds it makes stale.
Others(k) == {j \in Tasks \ {k} : ~binding[j].stale /\ Home(j) \in Below(Home(k))}
MayRepair(k) ==
    /\ \A j \in Others(k) : j[2] = "declared" /\ binding[j].outcome # "none"
    /\ \A n \in Nodes : RepoOf[n] \in Below(Home(k)) => work[n].stage < 2
Prepares(k) ==
    LET S == Others(k) \cap Builds
    IN  /\ MayRepair(k) /\ binding' = Staled(S)
        /\ run' = [run EXCEPT !.blocked = @ \ S]

\* on_step_terminal, of a build that failed.
Fails(k) ==
    IF flow[k].repairs < MaxRepairs
    THEN flow' = [flow EXCEPT ![k] = [phase |-> "repair", repairs |-> @.repairs + 1]]
    ELSE Goes(k, "bad")

\* _validate_catalogue: the declarations of every node of the plan are registered.
Catalogued(k) == \A n \in NodesOf(k[1]) : decls[n] >= Level(k[2])

\* RestructureBuildStep.run, up to the frozen view; the build lock admits one.
BuildStarts(k) ==
    LET repaired == k[2] = "declared" /\ flow[k].repairs > 0
    IN  /\ IsBuild(k) /\ At(k, "build")
        /\ \A j \in Builds : j[1] = k[1] => ~At(j, "compile")
        /\ \/ /\ ~Valid(k) /\ Goes(k, "bad")
              /\ UNCHANGED <<run, binding, frozen, fresh>>
           \/ /\ Valid(k) /\ repaired /\ ~MayRepair(k) /\ Fails(k)
              /\ UNCHANGED <<run, binding, frozen, fresh>>
           \/ /\ Valid(k) /\ Goes(k, "compile")
              /\ IF repaired THEN Prepares(k) ELSE UNCHANGED <<run, binding>>
              /\ frozen' = (IF Catalogued(k) THEN frozen \cup {k} ELSE frozen) /\ fresh' = fresh \cup {k}
        /\ UNCHANGED <<work, decls>> /\ Kept

\* The rest of it: only a complete view that its repository still matches is accepted.
BuildEnds(k) ==
    /\ IsBuild(k) /\ At(k, "compile") /\ frozen' = frozen \ {k}
    /\ \/ k \in frozen /\ Catalogued(k) /\ Goes(k, "ok")
       \/ Fails(k)
    /\ UNCHANGED <<run, binding, work, decls, fresh>> /\ Kept

\* RestructureRepoRepairAgentStep.prepare_agent
RepairStarts(k) ==
    /\ IsBuild(k) /\ At(k, "repair")
    /\ \/ /\ Valid(k) /\ (k[2] = "declared" => MayRepair(k)) /\ Goes(k, "fix")
          /\ IF k[2] = "declared" THEN Prepares(k) ELSE UNCHANGED <<run, binding>>
       \/ /\ ~Valid(k) \/ (k[2] = "declared" /\ ~MayRepair(k))
          /\ Goes(k, "bad") /\ UNCHANGED <<run, binding>>
    /\ UNCHANGED <<work, decls, frozen, fresh>> /\ Kept

RepairEdits(k) ==
    /\ IsBuild(k) /\ At(k, "fix") /\ Current(k)
    /\ decls' = [n \in Nodes |-> IF RepoOf[n] = k[1] /\ work[n].there THEN Level(k[2]) ELSE decls[n]]
    /\ Touches(k) /\ UNCHANGED <<run, binding, work, flow>> /\ Kept

RepairEnds(k) ==
    /\ IsBuild(k) /\ At(k, "fix") /\ (Goes(k, "build") \/ Goes(k, "bad"))
    /\ UNCHANGED <<run, binding, work, decls, frozen, fresh>> /\ Kept

FlowStep(k) == \/ AgentStarts(k) \/ AgentSubmits(k) \/ AgentGivesUp(k) \/ BuildStarts(k) \/ BuildEnds(k)
               \/ RepairStarts(k) \/ RepairEnds(k)
Edits(k) == AgentEdits(k) \/ RepairEdits(k)

Next ==
    \/ Crash \/ CompleteRun
    \/ \E k \in Tasks :
          \/ Starts(k) \/ OperatorBuild(k) \/ FlowStep(k) \/ Edits(k)
          \/ \E cut \in BOOLEAN : Reconcile(k, cut)
    \/ \E n \in Nodes, cut \in BOOLEAN : Retry(n, cut) \/ Reopen(n, cut)

Spec == Init /\ [][Next]_vars
-----------------------------------------------------------------------------
(* Properties. *)

TypeOK ==
    /\ run \in [status : {"prepared", "running", "blocked", "completed"}, blocked : SUBSET Tasks]
    /\ binding \in [Tasks -> Binding]
    /\ work \in [Nodes -> ContentWork] /\ decls \in [Nodes -> 0..2]
    /\ reserved \subseteq Tasks \X Epochs
    /\ flow \in [Tasks -> [phase : Phases, repairs : 0..MaxRepairs]]
    /\ queue \subseteq Tasks /\ frozen \subseteq Builds /\ fresh \subseteq Builds
    /\ torn \in BOOLEAN /\ early \subseteq Builds /\ retries \in 0..MaxRetries /\ crashes \in 0..MaxCrashes

\* A build counts as succeeded only as long as no agent changed a source that it
\* compiled, or an interface of a provider, and the final builds it was pinned to
\* are the current ones: what retries, reopening and repairs make stale reaches
\* every repository below, whatever is interrupted.
\* Builds that the operator began before they were ready are excepted, with all
\* that rests on one.
Early == {j \in early : ~binding[j].stale}
Trusted(k) == \A j \in Early : k \notin Seeing(j)
BuildsAreCurrent ==
    \A k \in Builds : Succeeded(k) /\ Trusted(k) =>
        /\ k \in fresh
        /\ \A pin \in binding[k].pins :
              Succeeded(<<pin[1], "final">>) /\ binding[<<pin[1], "final">>].epoch = pin[2]

\* Proof work starts on declared builds of what is declared now: when a proof task
\* may be dispatched, no view of a declared build that counts was changed since, by
\* an agent of its contents or by the repair of a provider.  It does not hold where
\* the operator began builds early, and is why the others speak of Early.
ProofsStartOnFreshBuilds ==
    (\E n \in Nodes : Ready(<<n, "proved">>)) => \A r \in Repos : <<r, "declared">> \in fresh

\* No two agents write to a node: the agents of its stages and the repair agents
\* of its repository's builds, those of replaced requests included; but the repair
\* of a build that the operator began early.
Writes(k, n) == (k[1] = n /\ At(k, "work")) \/ (k[1] = RepoOf[n] /\ At(k, "fix"))
OneWriterPerNode ==
    \A n \in Nodes : (\A j \in Early : RepoOf[n] # j[1]) =>
        Cardinality({k \in Tasks : Writes(k, n)}) <= 1

\* The agents and builds at work stay within the budget of the workspace.
AtWork(k) == k \in queue /\ flow[k].phase \in {"work", "compile", "fix"}
WorkWithinBudget ==
    \A kind \in {Builds, Contents} :
        Cardinality({k \in kind : AtWork(k)}) <= IF kind = Builds THEN MaxBuilds ELSE MaxAgents

\* A reservation that nothing gives back: its request was replaced before it was
\* written into the binding, or waits for a flow that no tick starts any more.
Lost == \E q \in reserved :
    \/ Request(q[1]) # q \/ ~Live(q[1])
    \/ q[1] \notin queue /\ ~Ended(q[1]) /\ ~Ready(q[1])

\* A task that the next tick, the kit's scheduler or its own step moves on.
Works(k) == k \in queue /\ ~Ended(k)
Pending(k) == Rebinds(k, FALSE) \/ (Live(k) /\ ~Ended(k) /\ k \notin queue)
Moves(k) ==
    \/ Ready(k) /\ Pending(k) /\ (binding[k].res \/ Admitted(<<k, Intent(k, FALSE).epoch>>, k))
    \/ InFlight(k) /\ Ended(k)
    \/ Works(k)

\* A run that says "running" has something left that moves it: it never waits,
\* with nothing to show an operator, for a flow that no one starts or a slot that
\* no one frees, unless the process ended inside a retry or a reservation was lost.
RunningMoves ==
    run.status = "running" => torn \/ Lost \/ Finished \/ \E k \in Tasks : Moves(k)
=============================================================================

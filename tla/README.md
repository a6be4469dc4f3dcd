# Lean Constellation in TLA+

Formal models of the parts of Lean Constellation (`src/lean_constellation/`)
whose correctness depends on the order in which threads, coroutines, server
processes, flows and operators act. TLC checks the models on small instances;
TLAPS proves the invariants that matter most for every value of the constants.

Paths below are relative to `src/lean_constellation/`. "The runtime kit" is
`agent_runtime_kit`, which runs flows, steps and agents; it is a dependency and
not in this repository, so it is modelled from how the flows use it.

## 1. The system

Lean Constellation lets agents write Lean repositories. A **server** process
(`app/server.py`) has a workspace of repositories. For each repository it loads
a **runtime** (services over the repository's files, plus a runtime kit with
its flows, steps and agents). Flows run agents as steps, agents call tools over
MCP, tools call services, services edit files. Operators use the admin HTTP API.

| Component | State | Operations | What is hard | What makes it correct |
|---|---|---|---|---|
| Repository activity, `services/concurrency/repo_activity.py` | re-entrant locks, active batches, node owners, persisted keys, maintenance owner and depth, transaction counter | `reserve/release_content_batch`, `active_batches`, `maintenance`, `topology/node/catalog/build_cache_write` | agent tools, the scheduler and the admin API use it at once from threads; ownership is rebuilt from a flow's persisted phase | maintenance excludes transactions and incompatible batches; owners and batches agree; calls return |
| Runtime registry and writer lease, `app/repo_runtime_registry.py` | per repository: runtime, state, lease | load, unload, shutdown, pause, resume, mark failed | several servers on one workspace; a load has many steps that may fail in different ways | one writer; work runs under the lease; record and pause gate agree |
| Scheduler loop, `app/scheduler_loop.py` | none of its own | one tick per loaded active record | shares `record.lock` and the event loop with the routes | skips no repository that has an open gate |
| Admin HTTP and MCP router, `app/admin_http.py`, `mcp/http.py` | cached MCP managers, their runners and locks | routes, `_get_manager`, `cleanup_repo` | coroutines that take a threading lock; state taken before an await and used after it | every request returns; managers do not outlive their runtime |
| Coordinator flow, `flows/coordinator/` | phase, pending dispatch, awaited dispatch or requirement, summary | `create_next_step`, `on_step_terminal`, `after_step_terminal_stable`, `can/on_exit_waiting` | a long protocol of submissions, checkpoints, children, callbacks, rejected releases, retries and resets | never stuck; each dispatch called back once, after its children; completed means published |
| Semantic scheduler, `app/semantic_scheduler.py` | run leases and budgets | policies that decide which flow may advance | decisions from state that tools change | batches are reserved before they run and released before the callback |
| Snapshots, `app/runtime.py`, `services/validation_snapshot/snapshot_restore.py` | the runtime's store, the repository's files, checkpoints of both, the restore interlock | stable-point snapshot, paired restore with its options | two stores restored one after the other while work, pauses and resumes go on; crash between any two steps | a checkpoint is one moment of both stores; a restore that was cut short is completed before work goes on |
| Admin API, `app/admin_api.py`, `app/operator_data/` | none of its own | operator commands under maintenance | run beside agents | no edit under an agent's feet |
| Content node task, declaration rounds, `flows/content_node_task/` | phase, dispatched child, a round's stage, retries and outcome | plan, dispatch, stage worker, reviewer, gate, final audit, result, closeout | the records of a round and the flow that executes it are two things; steps fail and are restarted by an operator | a round's result is earned, a closed round is final, a ready node has no open round |
| Declaration graph, `services/decl_graph/` | declarations and their revisions, strategy and rounds, projections | create, update, restore, delete, stage mutation, closeout | closeout commits several records and rolls back by hand; invalidation along dependencies | an open revision belongs to the open round; no accepted stage rests on an invalidated one |
| Nodes, `services/node/` | node tree, contracts, dependencies | edit tree, contracts, dependencies | edits race reserved batches | members of a batch are independent |
| Releases, `services/validation_snapshot/release_finalizer.py`, `services/repo_workspace/` | manifests, publication, dependencies, git commits and refs | prepare, commit, roll back, clean up and restore a release | several stores written in order with a rollback by hand; crash between any two; the worktree may have moved since the candidate was prepared | a commit holds what was prepared; what consumers are told of exists; a published release never changes |
| Requirements, `repo_requirement.py`, `repo_preparation.py` | one file per requirement, the provider's preparation input | submit, reconcile with a release, resume, attach, handle | three writers load, change and save whole records with nothing between them; crash between load and save | what is satisfied is offered; what is handled is attached; a wait is answered |
| Repository lifecycle, `flows/repo_lifecycle/` | preparation phase, requirement | prepare, resume, continue | two repositories wait on each other | a waiting consumer is resumed |
| Restructure, `app/restructure.py`, `services/restructure/`, `flows/restructure/` | bindings of tasks to flows in `run.json`, reservations of the budget, the stage of each content | dispatch, reconcile, retry, reopen, build, repair | one operation saves up to six files; agents, builds, the operator and the end of the process meet between any two | an accepted build is current; one writer per node; the budget holds; a run that says it runs has something to do |
| Material, adapter, mathlib, Lean projection, external clients | files and caches | read, parse, build, fetch | input and output | parsing and layout; not a matter of interleaving |
| Agents, tools, prompts | none | wrappers of the services | - | - |

How they interact: the Coordinator commits its phase; repository activity reads
that phase to rebuild batch ownership; the scheduler's policy reserves a batch
under the topology lock and releases it before the callback; node edits ask
repository activity which batches are active; snapshots and operator commands
take maintenance; a Coordinator ends in a release, whose commit reconciles the
requirements of the repositories that wait for it; the restructure run drives
repositories through stages of its own with the same kit; the registry decides
which process may do any of this, and the server's event loop and threads drive it.

The full list of what can go wrong, with the line where it bites and the
property that would notice, is `hazards` in `PROJECT.json`.

## 2. Modules

| Module | Models | Remarks |
|---|---|---|
| `RepoActivity` | `repo_activity.py` | threads run programs of requests |
| `RepoActivityCallers` | its callers | one operator per caller: the order in which it nests its contexts |
| `RepoExclusion` | - | abstract: what transactions and maintenance promise |
| `BatchTopology` | `node/dependency.py`, reservation in `semantic_scheduler.py` | composes with `RepoActivity`: gives the bodies of its programs an effect |
| `CoordinatorFlow` | `flows/coordinator/`, the frontier and checkpoint checks that read it | |
| `RepoRuntimeRegistry` | `repo_runtime_registry.py`, `scheduler_loop.py`, the writer lease | several processes |
| `RepoServer` | `admin_http.py`, `mcp/http.py` | one process |
| `PairedRestore` | `app/runtime.py`, `snapshot_restore.py` | checkpoints and restores of two stores |
| `ReleaseCommit` | `release_finalizer.py`, `git_release.py`, `repo_release.py`, `dependency_release.py` | one repository, its commits and refs |
| `DeclRound` | `decl_round/`, `content_node_task/flows.py`, `services/decl_graph/` | one content node |
| `Requirement` | `repo_requirement.py`, `repo_preparation.py`, the resume gate and route, reconciliation | a consumer and a provider |
| `Restructure` | `app/restructure.py`, `services/restructure/`, `flows/restructure/` | a workspace of repositories |
| `RepoActivityProofs`, `ServerProofs` (registry and server), `PairedRestoreProofs`, `RequirementProofs`, `CoordinatorFlowProofs`, `DeclRoundProofs`, `ReleaseCommitProofs`, `RestructureProofs` | - | theorems |
| `MC*` | - | instances for TLC |

Definitions whose comment starts with "Mutant:" are plausible bugs of the
definition that follows. No specification uses them; they exist so that it can
be shown that a property notices them (`mutants` in `PROJECT.json`).

### RepoActivity

State: `lockOwner`, `lockDepth` (the RLocks of `_topology`, `_nodes`,
`_catalogs`, `_build_caches`), `batches` and `nodeOwner`, `persistedKeys`,
`maintOwner` and `maintDepth`, `activeTx`; the threads' programs; `frontier`,
the batch the persisted Coordinator flow has pending; and a ghost, `held`, the
batches a caller reserved and has not released.

A `with self._control` block is one step. `lock.acquire()`, the control block
after it, the read of the frontier, the rehydration it feeds, the decrement of
the counter and `lock.release()` are steps of their own. A context manager stays
open until its program ends or raises; open contexts are then left innermost
first. `RecoveryRequired`, `RefuseTransaction`, `RefuseMaintenance`,
`RefuseReservation` and `BodyRaises` are the exceptions. The environment
releases batches, drops all of them (`pause_runtime`), commits a new frontier
and restarts the process. The batch identity is a hash of the nodes and of the
submission in the code, a model value with its nodes here; so that one identity
with other nodes, which the code refuses, cannot arise.

One repository root is modelled: all tables are keyed by root, and the only
thing shared between roots is `_control`, whose blocks never wait.

`CommitFrontier` commits no batch that is still held: the policy's `decide()`
releases a batch before the callback step it is handed back to may run.

### CoordinatorFlow

State: the persisted flow (`phase`, `status`, `error`, the pending dispatch's
kind and source, the awaited dispatch, whether a requirement is awaited,
whether a ready summary is set), the current step, the last terminal step, whether its
stable hook is still to run, the child flows that run, and the lineage of
dispatches. A step is named by its number.

`CreateNextStep` is `create_next_step`. Each outcome of a step is one action
that consumes the result and commits the flow, as `on_step_terminal` does in one
edit; `NothingStable`, `RecordSnapshot` and `CommitPreparedRelease` are the hook,
which runs in a step of its own after that commit; `OnExitWaiting` is both
waiting functions. `RetryContentSnapshot`, `ResetForCurrentTruth` and `RecoverAgentStep` are the
operator's. The last is the generic `recover_agent_step`: a new step in place of a
turn of the Coordinator that raised or was suspended. The kit is taken to give it the
prompt of the one it replaces, and therefore the callback that the other did not answer:
`CallbackOnce` allows a second callback step only in place of such a turn
(`Unanswered`), and `ReleasedUntilRejection` follows a rejected release until the woken
turn ends, recovered or not.

`PersistedBatch` is what repository activity would read from this flow
(`_persisted_content_batches`), and `SnapshotEligible` what `app/runtime.py`
would answer to a snapshot of it: two files that read the same phases.

Assumed of the runtime kit: one step at a time per flow; the hook runs after
the flow's commit and before the next step. A crash between the commit and the
hook is not modelled.

### BatchTopology

Adds the edges and each thread's last answer from `active_batches`. An edit
checks the candidate graph against that answer and writes the edge; a
reservation checks independence and then reserves, both under the topology lock.
`TopologyStep` gives every body of `RepoActivity` its effect, so that all callers
run against one another and against the edges; `InitialDeps` are the edges the
process starts with.

### RepoRuntimeRegistry

For each process the record's `state`, whether it has a runtime, the pause gate
of that runtime and whether agents or steps run; and the process that holds the
file lock. The operations of one process are serialised by `record.lock`, so
each is one step, except a load: other processes can be refused between the
lease and its end. The end of a load is one of: loaded, homes failed (a result),
exception.

### RepoServer

Coroutines interleave at their awaits. `lock` is the worker thread that holds
`record.lock` across steps (a load on behalf of an MCP request, or the
reconciliation); `blocked` is the coroutine in which the event loop waits for it.
Critical sections of coroutines contain no await and are one step. An MCP
request takes the cached manager of its view or creates one: lock of the view,
load in a thread, start, cache. `Unload` drops the runtime under `record.lock`
and, as no await lies between, takes the first cached view out of the cache;
`Stopped` is a manager's end, after which `cleanup_repo` takes the next one
(`StopNext`). Between these steps requests of views still in `todo` are served by
managers of the dropped runtime, and others load the repository anew. Unloads may
overlap, and one that finds nothing loaded stops managers all the same. The
scheduler tick, and the index of views, take `record.lock` as a route does and are
not separate actions. Left out are the gated test-control routes `repo_start_step`
and `repo_wait_step` (`admin_http.py:888-892`): they hold `record.lock` while they
wait for an agent's step, so with them a request may wait as long as that step.

### PairedRestore

State: the runtime kit's store (`ark`), the repository's files (`lc`), whether the
derived indexes describe them, the pause gate, a running step, the checkpoint
directories, the interlock file, and the snapshot or restore in progress. A
version is the number of the step of work that wrote it, so that a store and a
file agree when their numbers do.

Creation is `CheckStable`, `SnapshotArk`, `MakeDirectory`, `WriteArchive`; a restore
is `LoadOrCreateInterlock`, `RestoreArk`, `MarkArk`, one `PruneFile` or `CopyFile` per
file, `RebuildIndexes`, `RemoveInterlock`, and may fail or end with the process
(`Crash`) after each. Ticks, edits, `Pause`, `ResumeRuntime` (which reads the
interlock) and `RegistryResume` (which does not) run in between. The ghosts are
`lived`, the pairs the repository had while it worked, and `overtaken`: work
started behind an interlock.

Assumed: repository edits are transactions, which maintenance refuses; the kit's
snapshot and restore of its own store are atomic, as its callers use them; one
process; a restore without `prune` keeps extra files, as the code says it does.

### ReleaseCommit

State: the worktree (content, dependencies, docs, model summary, publication,
manifests), git (commits, refs, branch, detached HEAD), the candidate of each
committer, the commit in progress, and the release a consumer was told of.

`Prepare` and `PrepareMaintenance` make candidates; a commit is `BeginCommit` (with
the check that the worktree has not moved, `NoDrift`), `SyncSummary`,
`CreateManifest`, `WritePublication`, `CommitGit`, `Notify`; what fails goes through
`RestorePublication`, `RemoveManifest`, `RestoreModel`, `RestoreDocs`, each of which
may fail itself. `CleanUpRelease` and `RestoreRelease` are the operator's. The ghost
`broken` is set when a commit was cut short or its rollback failed.

Assumed: two commits exclude one another and edits are excluded during one.
Left out: checkpoints and remotes, git commands of a human, readback warnings.
Seen while modelling: after a crash between the publication and the git commit
the latest release has no ref; a candidate on that base is then refused by
`_check_base`, and clean-up refuses the release because it is reachable. After
`restore` HEAD is detached and nothing can be committed until someone attaches it.
A failing `create_release` does not roll back the summary it wrote.

### DeclRound

State: the revisions of each declaration, the strategy and its rounds (a round
refers to one revision of a declaration, by its number, or to none: 0), the flow
of each round, the content task, a closeout in progress, and the rounds that somebody
has loaded and not saved yet (`copy`, by the round's flow or a restart; `planCopy`, by a
closing tool). The Plan agent's tools (`CreateRound`, `CreateDecl`, `OpenUpdate`,
`DiscardDraft`, `RestoreDecl`, `DeleteDecls`, `SubmitRound`, `BeginCloseout`) and the
flow's steps (`RoundStart`, `Normalize`, `PrepareTargets`, `Worker`, `Reviewer`,
`StageGate`, `FinalAudit`) act on the same records.

Whoever writes a round loads the whole record, checks it and saves it, and shares no
lock with the others, so each is two steps: `SummaryReads`/`SummaryWrites` and
`PersistReads`/`Persist` are the Plan agent's, `ResultReads`/`BuildResult` and
`StepRaises`/`StepFails` the flow's, `RestartReads`/`RestartStep` the operator's. A
closeout commits revision by revision before that, and may fail, roll back, or end
with the process (`Crash`). `Save` sets the ghost `dropped` when the round is no longer
what was loaded. The properties speak of what happens until then; that it happens is
the first observation of section 3.

Assumed: the kit runs and restarts steps; the Plan agent takes one turn at a
time. `start_round` accepts a round that already runs; no first step of a flow
meets one, and the task waits while it runs, so that it is one step. So is the operator's
own record of a running round, which wants everything at rest (`Quiet`), and so are
a reopened round and its writing back if the kit refuses the restart. A revision's
file is loaded, changed and saved in one step (`decl_catalog.py:568-615`,
`stage_mutation.py:933-975`), so that a commit of a closeout and a write of the agent
that an operator restarted do not meet on one file here. Ghosts: `unreviewed`, `lost`, `orphans`, `cut`, `dropped`.
Left out: the task's other children and its admission, `start_round` and
`gate_and_advance` by an operator, a creation of a round that is cut short, the check of
the contract's version, which summaries a closeout asks for,
`reset_content_plan_for_current_truth`.

### Requirement

State: the consumer's requirement files, its Coordinator, the release its
lakefile pins, the provider's publication and preparation input, what each
release offers, a draft of the bootstrap request, and the reconciliations and
the resume request in progress, each with the record it has loaded. Every
load and every save is a step of its own; `Save` marks a requirement `raced` when
the record saved was loaded before someone else's save.

Assumed: one consumer, one provider, one interface per requirement, one
bootstrap request at a time; `check_scope_contract_candidate` keeps a release
from offering less than its predecessor; a commit's reconciliation ends before
the provider's next release; references are visited in a fixed order. Left out:
`update_repo_requirement` (whose digest check is not repeated before it writes),
`remove_interface`, obsolete requirements (no route makes one), routes of
adapters, proof availability.

Lost updates are real and excluded from the properties by `raced`: the
reconciliation's whole-record save can overwrite `add_interface`, and the
Coordinator is resumed on a release that lacks the interface; it can overwrite
`MarkWaiting`, and the requirement is never a resume candidate. Also seen: a
requirement created after its target is prepared is in nobody's references and
is never reconciled; a dependency that is attached already is not moved to the
recorded release; a provider that continues while the resume gate runs makes the
consumer's Coordinator fail.

### Restructure

State: the run's status and blocked issues, a binding per task (epoch, reservation,
flow, stale, outcome, pins), the `ContentWork` of each node, the reservations of the
budget, the flows with the phase of their current step, and the kit's queue, which dies with the
process. A task is a stage of a node's content or a build of a repository.

`Dispatch` is `_dispatch` with its six saves; its parameter says after which one
it stops, and the process ends there if that is not where the code may stop. `Reconcile`, `Retry`
(`retry_content`) and `Reopen` (`reopen_declared`) have a cut between their saves too.
The steps of the flows are `AgentStarts`, `AgentEdits`, `AgentSubmits`, `BuildStarts`, `BuildEnds`,
`RepairStarts` and so on. Ghosts: `fresh`, the builds since whose view no source
they see was changed; `torn`, the process ended inside a retry; `early`, the builds whose
binding the operator began before they were ready.

`OperatorBuild` is `start_restructure_build`, which asks for nothing but a build that has
not succeeded: one that failed, one that was made stale, one whose contents or providers
are not ready. What such a build still has to pass is in `BuildEnds`: every declaration
of its repository registered (`Catalogued`, over `decls`), and the files of its own
repository as they were when its view was frozen (`Touches`). A provider's files are not compared.
So a build begun early may succeed on an interface that is being repaired (the
second observation of section 3), and `BuildsAreCurrent` and `OneWriterPerNode` except what rests on such a
build (`Early`, `Trusted`); the budget and `RunningMoves` have no such exception.

Assumed: ticks and routes run one after another in the event loop (dispatches of
one tick are separate actions, which allows more than the code does);
repositories come with their plans, which `PlanAssumption` and `AcyclicAssumption` take
as `validate_repo` and `_assert_acyclic` leave them; the run is to prove, not only to declare; a
failure of the catalogue counts as a failure of the build. Left out: the plan and review flows,
preparation and overwriting of a workspace, builds of providers and targets that the plan does not
name, dependencies beyond the plan, several servers, migration, sealing of artifacts.

Seen while modelling: a binding that was never started and is made stale by a
reopening gets an epoch ahead of its new `ContentWork`, and every tool call of its
agent is refused as stale; a process that ends inside a retry leaves the run idle
until it is retried (`torn`); a declared flow that fails after its submission
stored the baseline is retried at the wrong stage and stays blocked until the
node is reopened; a reservation that was acquired and not saved before a crash
is lost when a reopening replaces its request, and one held by a proof task
behind a barrier that a reopening closed keeps its slot, so that with a full
budget the run says "running" and nothing can move (`Lost`); a process that ends after a
dispatch reserved and again inside a retry that released leaves a current binding without
a reservation, whose flow fails when its agent is prepared; the route that
retries a final build drops its pins; a provider's declared build cannot be
repaired while contents of its consumers run.

## 3. Runs

| Run | Bounds | States | Shows |
|---|---|---|---|
| `activity_calls` | 2 threads, one call each, 3 nodes, 2 batches, every caller; fairness | 159,517 | locks held through bodies, owners and counters, independent batches, the persisted batch blocks maintenance, calls return, refinement of `RepoExclusion` |
| `activity_stale_frontier` | 2 threads, one call each, commits at any time | - | **finding 1** |
| `coordinator_flow` | 2 children, 13 steps, checkpoints on; fairness | 178,040 | the Coordinator is never stuck, batches and callbacks, checkpoints, releases, recovered turns; waits that end |
| `registry` | 3 processes (symmetric) | 230 | one writer, leases, gates |
| `registry_lease_leak` | 2 processes | - | **finding 2** |
| `server` | 2 views; 2 requests of agents for one, the provider's for the other; a route, an unload, a reconciliation, a load; fairness | 30,920 | managers are accounted for, and serve what is loaded; requests return |
| `paired_restore` | 2 files, 2 checkpoints, 2 steps of work (symmetric) | 2,313,369 | the two stores agree, a checkpoint is one moment, an interlock ends with its own restore |
| `paired_restore_overtaken` | 1 file, 1 checkpoint | - | **finding 3** |
| `release_commit` | 3 releases, 1 edit | 1,038,676 | commits hold what was prepared, offers exist, failures leave no trace, releases do not change |
| `decl_round` | 2 declarations, 2 stages (the second reviewed), 2 rounds or 2 tasks, 2 revisions, 1 restart, 1 retry (symmetric) | 1,392,330 | open revisions belong to the round, running rounds have flows, successes are earned, ready means closed, text is reviewed, closed is final |
| `requirement` | 1 requirement, 2 releases, 1 crash; fairness | 523,777 | answers are right, and come |
| `restructure` | a provider and a consumer with one node each; one slot for agents, two for builds; one repair, request of the operator and crash | 865,350 | builds current, one writer, budget, no idle "running" |

Why the bounds are enough. Two threads are what a race needs: every rule of
repository activity relates one thread to "another"; two batches that share a
node are needed for owner conflicts, and a third node for a path between members
of a batch. One call per thread suffices for what the run adds to the theorems, which
hold for any number of calls. Thirteen steps contain a dispatch, its checkpoints
and callback, a second one after it and a release that is rejected. With three
processes, one can lose a lease that two others want. Two clients compete for the
manager of a view while the provider's request is for another, so an unload finds two
managers and a view is asked for again while it waits for one of them; unloads that
overlap and second loads are left to the theorems (`ServerProofs`), and were checked for the two
invariants without fairness (2 unloads, 2 loads: 498,119 states). Two files can be torn apart by a crash inside a restore,
and two checkpoints and two steps of work give a restore a wrong interlock and a
wrong version to take. Three releases make a chain with a middle, an orphan and
a latest. Two rounds, revisions and tasks show what the first leaves to the
second, and a first task to the next; one restart races one closeout. A Coordinator waits for one requirement at a
time and two releases let an answer be outdated; two requirements with one
release have been checked too (427,773 states). A provider and a consumer are
what invalidation must cross; agents compete for one slot, and with two for builds the
consumer's build can run while the provider's is repaired;
`DependsOn` is empty in that instance: an edge inside a repository orders and
invalidates contents as one between repositories does.

`MaxCalls`, `MaxSteps`, `MaxLoads`, `MaxWork`, `MaxReleases`, `MaxEdits`, `MaxRounds`,
`MaxRevisions`, `MaxTasks`, `MaxRestarts`, `MaxRetries` (of `Restructure`) and `MaxCrashes` bound behaviour; each is a conjunct of the action that counts. The other
parameters (`MaxRetries` of `DeclRound`, `MaxRepairs`, `MaxAgents`, `MaxBuilds`,
`Goals`, `AgentReviewed`) are settings of the program. Two runs also have
constraints, and no theorem has any. `decl_round`: nothing is explored after the last round has been
closed, since no further round can then be opened (`RoundsAhead`); nor a second round
once there is a second task (`RoundsOrTasks`; with one declaration, 2 rounds of 2 tasks have been
checked too); nor after a save that dropped another, since the properties end there
(`NoneDropped`). `restructure`: the process ends only where the operator began no build
early (`CrashesApart`).

Deadlock is checked except in `coordinator_flow`, the `decl_round` and `restructure`,
where a flow, a task or a run ends.

### Fairness

- `BatchTopology!TopologySpec` (and `RepoActivity!QuietSpec`): weak fairness of each
  thread's steps. Nothing in the component sleeps; a thread inside a call is
  scheduled again. Weak fairness of `lock.acquire` is enough in the instance that
  is checked, since the number of programs is bounded and a lock is eventually
  free for good. `Quiet` is no fairness: nothing is committed while a decision is
  being taken from the frontier. `activity_calls` therefore says nothing of a stale frontier;
  that is finding 1, and no other run covers it.
- `CoordinatorFlow!FairSpec`: weak fairness of the flow's own advance (the loop
  ticks it) and of each child's end. The second is an assumption about the
  children, not a result. It is stated without pauses.
- `RepoServer!FairSpec`: strong fairness of each route, request, unload and of the
  reconciliation; a manager told to stop does. A lock is taken and freed again and again while others arrive,
  so weak fairness of a waiter would say nothing; `anyio.Lock` serves its waiters
  in order, and a thread that waits for `record.lock` is taken to get it in the
  end. The provider answers or gives up: if it waits for its own MCP request for ever,
  and that request for the lock held on its behalf, nothing returns.
- `Requirement!Fairness`: weak fairness of the flow and of every thread that has
  begun; of the provider's release (its project is finished some day); and of the
  operator, who reconciles a stable provider and resumes what the route lists as a
  candidate. The last two are assumptions about people and projects: nothing in
  the server reconciles by itself after a crash.

The other specifications state none. `RunningMoves` of `Restructure` says without
fairness what would let a run be idle.

### Findings

1. *Stale frontier.* `_rehydrate_persisted_batches` reads the frontier outside
   `_control` (`repo_activity.py:314`). A thread that read it before a commit
   drops the batch reserved since, and maintenance is granted against it. When
   nothing is committed inside such a decision the promise holds
   (`activity_calls`), and tables stay consistent in any case (proved).
2. *Lease leak.* A load whose agent homes fail keeps the lease
   (`repo_runtime_registry.py:634`).
3. *Overtaken restore.* The registry's resume does not read the restore interlock
   (`repo_runtime_registry.py:460`), and a restore asks only that nothing runs, so
   work may go on behind a restore that has to be completed.
Two disagreements are what the exceptions of passing runs stand for. TLC refutes each in
seconds when it is added to the configuration named.

*Closed round reopened* (`CommittedStays`, in `decl_round.cfg`). A restart of a failed step
loads and checks the round (`strategy_round.py:749`), a closeout by the called-back Plan
agent commits it (`strategy_round.py:930`), and the restart saves what it had loaded: the
committed round runs again. The check at line 857, that the failure has not been consumed
by a closeout, sees the older record; the operator's lock is not the agent's. Hence
`dropped`.

*Build begun too early* (`ProofsStartOnFreshBuilds`, in `restructure.cfg` with `MaxRetries = 2`).
`start_restructure_build` (`admin_api.py:1358`) starts a build with no current binding
whatever it rests on: `_dispatch` (`restructure.py:168`) asks for no readiness, where
`advance_run` does. An operator who starts the builds of both repositories before they are declared
has them accepted as soon as every declaration is registered, while an agent
still edits. The same happens later: the provider's declared build fails and is
repaired, and while the repair agent edits, the operator starts the consumer's build, which
freezes its view. The repair ends without success; the operator starts the provider's
build again, whose new flow has `repairs = 0`, so that `prepare_declared_repair` does not
run; both builds pass, and proof work starts on a consumer built against the older
interface. `services/restructure/repair.py:37` says that consumers "must pass a fresh full
build before the workspace proof barrier can open again". Hence `early`.

Three more observations concern what no property states. After a rejected release the
wake's agent step has prompt mode `initial`, so the finished batch counts as
pending again (`repo_activity.py:399`); it ends with that turn, or the one that replaces it
(`ReleasedUntilRejection`). An unload that overtakes `_create_manager` leaves a
manager for a dropped runtime (`mcp/http.py:204`) until the next unload; while
`cleanup_repo` waits for one manager, those behind it serve the dropped runtime as
well; there is no third way (`ServesLoadedUnlessOvertaken`). The reconciliation holds `record.lock` while it
waits for the provider (`admin_http.py:721`), and a route that wants it blocks the
loop for as long.

## 4. Proofs

`RepoActivityProofs`, for any threads, locks, nodes, batches and programs that
satisfy the assumptions of `RepoActivity` (model values distinct, a batch's
nodes are nodes, programs are sequences of well-formed requests):

- `TypeCorrect`, `TransactionsAreCounted`, `MaintenanceExclusion`,
  `LocksAreHeld`, `OwnershipConsistent`;
- `ActivityImplementsExclusion`: `Spec => Exclusion!Spec`;
- `FrontierIsRespected` and `FrontierIsRespectedByCallers`, that `QuietSpec` and
  `BatchTopology`'s `TopologySpec` imply `FrontierBlocksMaintenance`;
- `ReservedBatchesStayIndependent`: `TopologySpec => []ReservedBatchIndependent`, for any
  graph to begin with. It assumes of the programs (`TopologyPrograms`) that nothing but
  the three callers of `RepoActivityCallers` reserves, edits or asks.

None of the invariants is inductive alone. The strengthening is
`Shape /\ Counted /\ LocksCounted`. `Shape` ties each thread's program counter to
its program: `k` is within it, a thread at `admit` is at a write, one at `unlock`
has a write on top. `Counted` says the counter is the cardinality of
the set of open transactions, and that the set is finite: an exclusion argument that reads
"the counter is zero" has to conclude "nothing is open". `LocksCounted` says the
same of each lock's depth and its frames, with one owner for all frames. The
lemmas about how a step changes the set of open transactions (`AdmitOpen`,
`EndTransactionOpen`, `StepOpen`) carry the counter, the exclusion and the
refinement alike. The type invariant comes last: that a depth is a natural
number follows from its being a cardinality.

The last two rest on two more invariants. `Calm`: while nothing commits or releases
during a decision, what a thread read of the frontier still holds when it decides, every
active batch is one that came from the frontier, and after a rehydration the tables name
the persisted batch and no other (`RehydrateCalm`). `Guarded`: a thread about to write an edge
was told of the reserved pending batch, and one about to reserve has checked the batch on
the graph as it is now. It holds because both own the topology lock (`TopologyExcludes`, from
`LocksAreHeld`'s invariant), and because fewer edges make fewer paths
(`IndependentAntitone`): paths are defined by the sets no edge leaves, which says the same as
the walk in the code and needs no induction.

`ServerProofs` has the registry and the server. Of the registry, for any number of processes:
`RegistryTypeCorrect`, `WriterIsAlone`, `WorkIsLeased`, `PausedIsClosed`, all
from the inductive invariant `RegistryTypeOK /\ \A s : LeaseCovers(s)`. The strengthening
is that work belongs to a loaded runtime unless it was left behind, and that a
loading record already has the lease.

Of the server, for any routes, finite sets of views, requests and unloads, and any
number of loads: `ServerTypeCorrect`, `NoManagerIsLost`, `CacheIsCurrent`. The
inductive invariant `Accounted` adds to both properties what a request knows between
its steps: while it creates the manager of its view there is none cached, and the
runtime it holds is the loaded one or one that an unload has dropped meanwhile.
`StopNextMoves` says what one turn of `cleanup_repo` changes, wherever it stands.

`PairedRestoreProofs`, for any files, checkpoints and amount of work, and for both
ways a server may start: `CheckpointTypeCorrect`, `RestoreIsAtomic`,
`CheckpointIsConsistent`, and the action property `InterlockIsKept`. The inductive
invariant `Consistent` relates an operation in progress to the stores:
`Interrupted` (the interlock's checkpoint is complete, and once it says that the
runtime half is done that half is back), `SnapshotInHand` (the runtime copy held in
memory and the files still belong together, because work and edits wait for the
maintenance the checkpoint holds) and `RestoreInHand` (each file that is no longer
to do is back). The last is what makes a retry after a crash converge.

`RequirementProofs`, for any number of requirements, releases and ends of the
process: `RequirementTypeCorrect`, `AnswersAreTrue`, `HandledIsAttached`, and the action
property `ResumeIsAttached`. The inductive invariant `Sincere` says of every
version of a record, in its file or in the hands of one who loaded it, that its
answer is true (`Sound`): whichever save comes last, none of them can be false.
What a decision was made from still holds when it is saved, unless the record is
`raced` (`ReconcilerSound`); and releases offer no less than their predecessors
(`ProviderSound`), so that an answer does not age. The instance TLC checks has one
requirement; the theorems have any number, sharing the provider.

`CoordinatorFlowProofs`, for any children, with and without checkpoints, and any
number of steps: `FlowTypeCorrect`, `AlwaysANextStep`, `PendingIsWhatRuns`,
`OwnCheckpointsAccepted`, `CompletedIsPublished`, and the action property
`CalledBackOnce`. The inductive invariant `Coherent` adds to the properties what the
phase says of everything else: the status (`StatusFits`), the type of the step
(`StepFits`), the kind of the submission, which children may run (`ChildrenFit`). Its core
is `DispatchesFit`: a submission is dispatched at most once, and from then on until a
callback step exists `flow.dispatch` is that dispatch and was not called back
(`Undelivered`), also in a flow whose checkpoint was refused, since the operator's retry
makes it run again. `PlanFits` says that the initial plan's explorations are the
first thing ever dispatched, which is why the checkpoint after their callback can
ask for a frontier with no content batch behind it. A turn that raised leaves the
flow failed in the phase it had, so that a recovered one finds everything as the first did
(`RecoverCoherent`).

`DeclRoundProofs`, for any declarations, stages, goals, review modes, retries,
rounds, tasks and restarts: `DeclRoundTypeCorrect`, `OpenRevisionsHaveARound`,
`RunningRoundsHaveFlows`, `SuccessWasExecuted`, `ReadyLeavesNoRound`, and the action
properties `AdvancesAreReviewed` and `ClosedRoundsAreFinal`, all until a save drops
another (`dropped`), which is the best one can say, since `CommittedStays` does not hold. The inductive
invariant is `Sound`: until then, `Kept` of the records and `CopiesFit` of the records that
somebody has loaded. `DroppedForGood` says that `dropped` does not become false again, so
that a step has to preserve the two only if it drops nothing; then what it saves was
made from what is there (`SaveFinds`), as if it had loaded it now. What the check at
the load saw has to hold at the save all the same where it is not in the record:
`CopyFits` says that a flow whose result or failure is being written stays where it is,
and that a success audited before the load is one still (`CopiesMove`).

In `Kept`, `RecordsFit` is stated for any revisions and rounds, because it has to hold of
two versions of them: the files, and the copy from which a closeout in progress would
restore them (`CloseoutFits`). How the two differ is `RoundsFound` and `RevisionsFound`:
by what the closeout committed so far and by what a flow did that an operator restarted
meanwhile. `RefsFit`, that no two rounds share a revision, is what makes a closed round
final; `FlowFits`, that a draft's flow runs only while the task waits for it, is what
keeps a closeout and the first step of a flow apart. The constant-level lemmas
(`RevisionsChange`, `RoundChanges`, `RoundAdded`, `Unattached`, `Attached`, `Discarded`)
say what one operation of the decl graph service preserves, whoever calls it.

`ReleaseCommitProofs`, for any number of releases and edits: `ReleaseTypeCorrect`,
`CommitsHoldTheirRelease`, `OffersExist`, and the action properties
`FailureLeavesNoTrace` and `PublishedForEver`. The inductive invariant `IInv` adds to the
properties `NumbersFit` (a candidate is newer than its base and its head, and nothing
has a number that was not allocated), `OneRecordEach` (one id has one record, in the worktree, in
every commit and in the candidates that may still write it, so that restoring an old
tree never gives a release a second meaning), `CommitFits` (what of the worktree a
commit in progress has written, and what its rollback has put back, by where it is)
and `OrderKept`. The last is why clean-up removes nothing that anyone was told of:
unless a commit was cut short the latest release descends from every other one in its
tree (`Tidy`), in the worktree, in what a failed commit puts back and in every commit
that can be restored. A lineage is the least set that the parent links do not leave,
as the walk of `resolve_release_lineage` computes it, and needs no induction.

`RestructureProofs`, for any finite workspace whose dependencies do not go round, any
budget and any number of repairs, requests of the operator and ends of the process:
`RestructureTypeCorrect`, `SucceededBuildsAreCurrent`, `NodesHaveOneWriter`,
`BudgetIsKept` and `RunningRunMoves`. The inductive invariant `Consistent` has fourteen
parts. `WorkersAreValid`: whoever is at work is in the kit's queue, current and holds a
reservation of its own, so that work fits where reservations do (`ReservationsFit`); this
is what `validate_execution` buys, and it is lost in no save, since a crash sends every
step back to its start. The core is `NeedsAreDone`: a current build that was not begun early
has its direct needs done, the contents of its repository and the builds it rests on.
Retries, reopening and repairs keep it because what each makes stale is closed under
"sees" (`RetriedClosed`, `ReopenedClosed`, `PreparedClosed`), which in turn needs only that
the repositories below one are the least set with its consumers. Since dependencies do
not go round, it follows that a build which rests on no early one has every task that may edit
a source it sees done (`AboveFollows`), and from there that pins stay current
(`PinsAreCurrent`), that a source is never edited under a build that counts
(`ViewsAreFresh`), and with `ProvedHasBase` and `RepairIsAlone` that a node has one writer.
A build begun early has no such needs, and a build that saw it inherits nothing: this is
where `Early` enters.

`RunningMoves` is proved without fairness, as an invariant of states: suppose that a run
says "running" and nothing moves it (`Stuck`). It shows no failure, so no task failed
(`RunShowsFailures`) and no node has an issue (`IssuesShow`); hence each task succeeded or
waits for a dispatch (`StuckTasks`); a slot that is taken belongs to a task that moves, so
none that is ready waits (`StuckReady`); and the first node or repository that is not
done, which exists because dependencies do not go round, is ready (`StuckDeclared`,
`StuckBuilt`, `StuckProved`). So everything is done and the run is finished.

Assumptions are those of the modules: sets of names, requests and files are
disjoint where the code tells their members apart, `None` is not a record or a
number, bounds are naturals. Type invariants name the sets of records that a variable
may hold (`Flows`, `Steps`, `Ended`; `Record`, `Provider`, `Reconciler`), so that a proof that one
field changes need not look at the others.

Only model-checked: liveness (`CallsReturn`, `WaitReturns`, `RequestsReturn`,
`WaitIsAnswered`), since fairness and ENABLED are outside the prover's reach. Every other
property of a passing run is a theorem. No model needs induction over data: paths,
lineages, consumers and dependents are least closed sets.

## 5. Plan

Done: repository activity, batch topology, Coordinator, registry, server, paired
restore, release commit, declaration rounds, requirements, restructure run.

Left, in this order:

1. `ContentBatchPolicy`: the run leases and budgets of `semantic_scheduler.py`,
   composed with `RepoActivity` and `CoordinatorFlow`, replacing the assumption on
   `CommitFrontier`.
2. `DeclGraph`: invalidation along dependencies as functions over graphs, checked
   against a reference definition; the projection transaction.
3. `NodeTree` and the order of publication.

## 6. Not modelled

Parsing, layout and content of Lean files, source indices and resources; prompts
and tool schemas; Lake, git and network clients; provider configuration and the
command line. They are input and output, or pure functions that the tests reach.
The inner workings of the runtime kit are assumed as stated above. The scheduler's
leases, dependencies between declarations, the node tree and publication to a
remote are planned and not done; what each modelled component leaves out is under
its module above and in `components` of `PROJECT.json`.

## 7. Running

    tlc -config activity_calls.cfg MCBatchTopology
    tlapm RepoActivityProofs.tla

`PROJECT.json` names the module and configuration of every run, the source lines
of every definition, the mutants, hazards, findings and theorems.

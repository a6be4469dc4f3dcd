----------------------------- MODULE RepoServer -----------------------------
(***************************************************************************)
(* One server process around one repository: the admin routes             *)
(* (app/admin_http.py) and the MCP router (mcp/http.py) share record.lock  *)
(* and the loaded runtime.                                                 *)
(*                                                                         *)
(* Coroutines run on one event loop and interleave at their awaits only.   *)
(* A coroutine that needs record.lock while a worker thread has it blocks  *)
(* the whole loop; a worker thread that needs it just waits.  The loop's   *)
(* own critical sections contain no await, so each is one step.            *)
(***************************************************************************)
EXTENDS Naturals, FiniteSets

CONSTANTS
    Clients,     \* MCP requests from agents
    Provider,    \* the MCP request of a provider session being resumed
    Views,       \* MCP views of the repository
    ViewOf,      \* the view each MCP request asks for
    Routes,      \* admin requests that change the repository
    Unloaders,   \* admin requests that unload the repository
    Reconciler,  \* the context-maintenance reconciliation
    NoTask,
    MaxLoads     \* bound: runtimes the process loads

Requests == Clients \cup {Provider}
Tasks    == Requests \cup Routes \cup Unloaders \cup {Reconciler}

ASSUME TaskAssumption ==
    /\ Provider \notin Clients \cup Routes \cup Unloaders \cup {Reconciler}
    /\ Reconciler \notin Clients \cup Routes \cup Unloaders
    /\ Clients \cap Routes = {} /\ Clients \cap Unloaders = {} /\ Routes \cap Unloaders = {}
    /\ NoTask \notin Tasks
ASSUME ViewAssumption ==
    /\ ViewOf \in [Requests -> Views]
    /\ IsFiniteSet(Views) /\ IsFiniteSet(Clients) /\ IsFiniteSet(Unloaders)
ASSUME LoadAssumption == MaxLoads \in Nat

VARIABLES
    runtime,   \* record.runtime: 0 for None, else the number of its load
    loads,     \* runtimes loaded so far
    lock,      \* the worker thread that holds record.lock across steps
    blocked,   \* the coroutine in which the event loop waits for record.lock
    manager,   \* _managers[repo, view]: the runtime it serves, 0 for none
    running,   \* managers started and not stopped
    creating,  \* the request that holds the anyio lock of each view
    pc,        \* where each task is
    got,       \* the runtime its get_or_load returned
    todo,      \* the views whose managers an unload has still to stop
    overtaken  \* ghost: runtimes unloaded while a manager for them started

server == <<runtime, loads, lock, blocked>>
router == <<manager, running, creating>>
vars   == <<server, router, pc, got, todo, overtaken>>

Init ==
    /\ runtime = 0 /\ loads = 0
    /\ lock = NoTask /\ blocked = NoTask
    /\ manager = [v \in Views |-> 0] /\ creating = [v \in Views |-> NoTask]
    /\ running = 0
    /\ pc = [t \in Tasks |-> "idle"]
    /\ got = [t \in Tasks |-> 0]
    /\ todo = [u \in Unloaders |-> {}]
    /\ overtaken = {}

Goto(t, next) == pc' = [pc EXCEPT ![t] = next]

\* The task is answered, and what it had in hand is gone.
Return(t) == Goto(t, "idle") /\ got' = [got EXCEPT ![t] = 0]

----------------------------------------------------------------------------
(* record.lock                                                             *)

\* A coroutine proceeds when the loop is free, or waits in this very one.
OnLoop(t) == blocked \in {NoTask, t}

\* "with record.lock" on the event loop, once a worker thread has let go.
Locked(t) == OnLoop(t) /\ lock = NoTask /\ blocked' = NoTask

\* The steps of a coroutine that open with "with record.lock".
NeedsLock == {"load", "handle", "unload"}

BlockLoop(t) ==
    /\ pc[t] \in NeedsLock /\ t \notin Requests
    /\ blocked = NoTask /\ lock # NoTask
    /\ blocked' = t
    /\ UNCHANGED <<runtime, loads, lock, router, pc, got, todo, overtaken>>

\* get_or_load under record.lock: the loaded runtime, or a new one.
Loaded(t) ==
    /\ loads' = IF runtime = 0 THEN loads + 1 ELSE loads
    /\ runtime' = IF runtime = 0 THEN loads + 1 ELSE runtime
    /\ loads' <= MaxLoads
    /\ got' = [got EXCEPT ![t] = runtime']

----------------------------------------------------------------------------
(* Admin routes: _repo_model_route and its variants take the runtime, then *)
(* await the body, then handle it under record.lock.                       *)

RouteArrives(r) ==
    /\ r \in Routes /\ pc[r] = "idle" /\ blocked = NoTask
    /\ Goto(r, "load")
    /\ UNCHANGED <<server, router, got, todo, overtaken>>

RouteLoads(r) ==
    /\ pc[r] = "load" /\ r \in Routes /\ Locked(r)
    /\ Loaded(r)
    /\ Goto(r, "body")
    /\ UNCHANGED <<lock, router, todo, overtaken>>

LoadRefused(r) ==
    /\ pc[r] = "load" /\ Locked(r) /\ runtime = 0
    /\ Return(r)
    /\ UNCHANGED <<runtime, loads, lock, router, todo, overtaken>>

BodyArrives(r) ==
    /\ pc[r] = "body" /\ blocked = NoTask
    /\ Goto(r, "handle")
    /\ UNCHANGED <<server, router, got, todo, overtaken>>

Handle(r) ==
    /\ pc[r] = "handle" /\ Locked(r)
    /\ Return(r)
    /\ UNCHANGED <<runtime, loads, lock, router, todo, overtaken>>

----------------------------------------------------------------------------
(* The MCP router: __call__, _get_manager and _create_manager              *)

RequestArrives(m) ==
    /\ m \in Requests /\ pc[m] = "idle" /\ blocked = NoTask
    /\ m = Provider => pc[Reconciler] = "provider"
    /\ Goto(m, "view")
    /\ UNCHANGED <<server, router, got, todo, overtaken>>

\* The view a request asks for has a manager in the cache.
Cached(m) == manager[ViewOf[m]] # 0

\* A cached manager serves the request.
Serve(m) ==
    /\ m \in Requests /\ pc[m] = "view" /\ blocked = NoTask /\ Cached(m)
    /\ Return(m)
    /\ UNCHANGED <<server, router, todo, overtaken>>

\* Mutant: a manager is created outside the lock of its view.
CreateUnlocked(m) ==
    /\ m \in Requests /\ pc[m] = "view" /\ blocked = NoTask /\ ~Cached(m)
    /\ Goto(m, "thread")
    /\ UNCHANGED <<server, router, got, todo, overtaken>>

\* "async with lock", and the cache is looked at again inside it.
CreateManager(m) ==
    /\ m \in Requests /\ pc[m] = "view" /\ blocked = NoTask /\ ~Cached(m)
    /\ creating[ViewOf[m]] = NoTask
    /\ creating' = [creating EXCEPT ![ViewOf[m]] = m]
    /\ Goto(m, "thread")
    /\ UNCHANGED <<server, manager, running, got, todo, overtaken>>

\* The lock of the view is free again.
LeaveView(m) == creating' = [creating EXCEPT ![ViewOf[m]] = NoTask]

\* get_or_load in a worker thread: it holds record.lock for a whole load.
ThreadFindsRuntime(m) ==
    /\ m \in Requests /\ pc[m] = "thread" /\ lock = NoTask /\ runtime # 0
    /\ got' = [got EXCEPT ![m] = runtime]
    /\ Goto(m, "start")
    /\ UNCHANGED <<server, router, todo, overtaken>>

ThreadLocks(m) ==
    /\ m \in Requests /\ pc[m] = "thread" /\ lock = NoTask /\ runtime = 0
    /\ lock' = m
    /\ Goto(m, "loading")
    /\ UNCHANGED <<runtime, loads, blocked, router, got, todo, overtaken>>

\* Mutant: a failed load keeps the lock of its view.
ThreadFailsKeeping(m) ==
    /\ pc[m] = "loading"
    /\ lock' = NoTask
    /\ Return(m)
    /\ UNCHANGED <<runtime, loads, blocked, router, todo, overtaken>>

ThreadFails(m) ==
    /\ pc[m] = "loading"
    /\ lock' = NoTask /\ LeaveView(m)
    /\ Return(m)
    /\ UNCHANGED <<runtime, loads, blocked, manager, running, todo, overtaken>>

ThreadLoads(m) ==
    /\ pc[m] = "loading" /\ Loaded(m)
    /\ lock' = NoTask
    /\ Goto(m, "start")
    /\ UNCHANGED <<blocked, router, todo, overtaken>>

\* _start_manager: the runner task is started, and awaited.
StartManager(m) ==
    /\ m \in Requests /\ pc[m] = "start" /\ blocked = NoTask
    /\ running' = running + 1
    /\ Goto(m, "started")
    /\ UNCHANGED <<server, manager, creating, got, todo, overtaken>>

\* The views of the runtime, or the manager's own start, fail.
StartFails(m) ==
    /\ m \in Requests /\ pc[m] = "start" /\ blocked = NoTask
    /\ LeaveView(m)
    /\ Return(m)
    /\ UNCHANGED <<server, manager, running, todo, overtaken>>

\* Back in _create_manager: the manager is cached and serves the request.
CacheManager(m) ==
    /\ pc[m] = "started" /\ blocked = NoTask
    /\ manager' = [manager EXCEPT ![ViewOf[m]] = got[m]]
    /\ LeaveView(m)
    /\ Return(m)
    /\ UNCHANGED <<server, running, todo, overtaken>>

----------------------------------------------------------------------------
(* repo_unload: the registry drops the runtime, then cleanup_repo stops the *)
(* managers of the views that were cached, one after the other, each with  *)
(* an await in which other requests are served.                            *)

UnloadArrives(u) ==
    /\ u \in Unloaders /\ pc[u] = "idle" /\ blocked = NoTask
    /\ Goto(u, "unload")
    /\ UNCHANGED <<server, router, got, todo, overtaken>>

\* require_stable: work goes on, and the runtime is kept.
UnloadRefused(u) ==
    /\ pc[u] = "unload" /\ Locked(u) /\ runtime # 0
    /\ Return(u)
    /\ UNCHANGED <<runtime, loads, lock, router, todo, overtaken>>

\* Mutant: the first manager is stopped, and the other views are forgotten.
StopFirst(u, views) ==
    LET live == {v \in views : manager[v] # 0} IN
    \/ /\ live = {}
       /\ Return(u)
       /\ todo' = [todo EXCEPT ![u] = {}] /\ UNCHANGED manager
    \/ \E v \in live :
          /\ manager' = [manager EXCEPT ![v] = 0]
          /\ todo' = [todo EXCEPT ![u] = {}]
          /\ Goto(u, "stopping") /\ UNCHANGED got

\* _stop_manager for the views, in their order in the cache: a view without
\* a manager is passed, the first one that has a manager loses it from the
\* cache and is waited for, and those behind it stay to be done.
StopNext(u, views) ==
    LET live == {v \in views : manager[v] # 0} IN
    \/ /\ live = {}
       /\ Return(u)
       /\ todo' = [todo EXCEPT ![u] = {}] /\ UNCHANGED manager
    \/ \E v \in live, rest \in SUBSET views :
          /\ v \notin rest /\ live \ {v} \subseteq rest
          /\ manager' = [manager EXCEPT ![v] = 0]
          /\ todo' = [todo EXCEPT ![u] = rest]
          /\ Goto(u, "stopping") /\ UNCHANGED got

\* Between the registry's answer and the first await nothing else runs.  The
\* answer is ok, and the managers are stopped, when nothing was loaded too.
Unload(u) ==
    /\ pc[u] = "unload" /\ Locked(u)
    /\ runtime' = 0
    /\ StopNext(u, Views)
    /\ overtaken' = IF runtime = 0 THEN overtaken
                    ELSE overtaken \cup {got[m] : m \in {x \in Requests : pc[x] \in {"start", "started"}}}
    /\ UNCHANGED <<loads, lock, running, creating>>

\* The runner has left manager.run(), and the next view's turn comes.
Stopped(u) ==
    /\ pc[u] = "stopping" /\ blocked = NoTask
    /\ running' = running - 1
    /\ StopNext(u, todo[u])
    /\ UNCHANGED <<server, creating, overtaken>>

----------------------------------------------------------------------------
(* repo_reconcile_agent_step_context_maintenance                           *)

ReconcileArrives ==
    /\ pc[Reconciler] = "idle" /\ blocked = NoTask
    /\ Goto(Reconciler, "load")
    /\ UNCHANGED <<server, router, got, todo, overtaken>>

ReconcileLoads ==
    /\ pc[Reconciler] = "load" /\ Locked(Reconciler)
    /\ Loaded(Reconciler)
    /\ Goto(Reconciler, "queued")
    /\ UNCHANGED <<lock, router, todo, overtaken>>

\* The worker thread takes record.lock and asks the provider ...
ReconcileLocks ==
    /\ pc[Reconciler] = "queued" /\ lock = NoTask
    /\ lock' = Reconciler
    /\ Goto(Reconciler, "provider")
    /\ UNCHANGED <<runtime, loads, blocked, router, got, todo, overtaken>>

\* ... which answers, or gives up on the MCP request it may have made.
ProviderAnswers ==
    /\ pc[Reconciler] = "provider"
    /\ lock' = NoTask
    /\ Return(Reconciler)
    /\ UNCHANGED <<runtime, loads, blocked, router, todo, overtaken>>

Coroutine(t) == \/ RouteLoads(t) \/ LoadRefused(t) \/ BodyArrives(t) \/ Handle(t) \/ BlockLoop(t)
Unloading(u) == UnloadRefused(u) \/ Unload(u) \/ Stopped(u) \/ BlockLoop(u)
Request(m)   == \/ Serve(m) \/ CreateManager(m) \/ ThreadFindsRuntime(m) \/ ThreadLocks(m)
                \/ ThreadFails(m) \/ ThreadLoads(m) \/ StartManager(m) \/ StartFails(m) \/ CacheManager(m)
Arrival      == \/ \E r \in Routes : RouteArrives(r)
                \/ \E m \in Requests : RequestArrives(m)
                \/ \E u \in Unloaders : UnloadArrives(u)
Reconcile    == ReconcileLoads \/ LoadRefused(Reconciler) \/ ReconcileLocks \/ ProviderAnswers \/ BlockLoop(Reconciler)

Next == \/ Arrival
        \/ \E r \in Routes : Coroutine(r)
        \/ \E u \in Unloaders : Unloading(u)
        \/ \E m \in Requests : Request(m)
        \/ ReconcileArrives \/ Reconcile

Spec == Init /\ [][Next]_vars

\* The event loop and the worker threads go on, bodies arrive, the provider
\* answers or gives up, a manager told to stop does, and whoever waits for record.lock or for the lock of
\* a view gets it in the end, however many others come.
FairSpec ==
    /\ Spec
    /\ \A r \in Routes : SF_vars(Coroutine(r))
    /\ \A m \in Requests : SF_vars(Request(m))
    /\ \A u \in Unloaders : SF_vars(Unloading(u))
    /\ SF_vars(Reconcile)

----------------------------------------------------------------------------
Creating == {"thread", "loading", "start", "started"}

\* Types, the lock of record.lock is inside its block, the loop waits only
\* where the code takes the lock, and one request creates a view's manager.
TypeOK ==
    /\ loads \in 0..MaxLoads /\ runtime \in {0, loads}
    /\ lock \in Tasks \cup {NoTask} /\ blocked \in Tasks \cup {NoTask}
    /\ lock # NoTask => pc[lock] \in {"loading", "provider"}
    /\ blocked # NoTask => pc[blocked] \in NeedsLock
    /\ manager \in [Views -> 0..loads] /\ running \in Nat
    /\ creating \in [Views -> Requests \cup {NoTask}]
    /\ \A m \in Requests : pc[m] \in Creating => creating[ViewOf[m]] = m
    /\ pc \in [Tasks -> {"idle", "load", "body", "handle", "unload", "stopping", "view", "queued", "provider"} \cup Creating]
    /\ got \in [Tasks -> 0..loads] /\ todo \in [Unloaders -> SUBSET Views]
    /\ overtaken \subseteq 1..loads

\* Every request returns: no interleaving of coroutines that block the loop,
\* threads that load, managers that stop and views that wait for their lock
\* ends in a deadlock.
RequestsReturn == \A t \in Tasks : pc[t] # "idle" ~> pc[t] = "idle"

\* The views with a manager in the cache, the requests whose manager runs and
\* is not cached yet, and the unloads that wait for a manager to stop.
CachedViews == {v \in Views : manager[v] # 0}
Started     == {m \in Requests : pc[m] = "started"}
Stopping    == {u \in Unloaders : pc[u] = "stopping"}

\* Each manager that runs is the one cached for its view, or the one whose
\* creation is under way, or one that an unload waits for: none is left that
\* nobody stops (_get_manager, cleanup_repo).
RunningIsAccounted ==
    running = Cardinality(CachedViews) + Cardinality(Started) + Cardinality(Stopping)

\* The views whose cached managers an unload that has not returned will stop.
BeingStopped == UNION {todo[u] : u \in Unloaders}

\* A cached manager serves the runtime that is loaded, unless an unload is
\* still on its way to it, or overtook its creation (repo_unload,
\* cleanup_repo).
ServesLoadedUnlessOvertaken ==
    \A v \in Views \ BeingStopped : manager[v] \in {0, runtime} \cup overtaken
=============================================================================

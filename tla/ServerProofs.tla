---------------------------- MODULE ServerProofs ----------------------------
(***************************************************************************)
(* Proofs about the Admin server's process: RepoRuntimeRegistry, for any   *)
(* number of such processes, then RepoServer, for any sets of requests and *)
(* routes and any number of loads.                                         *)
(***************************************************************************)
EXTENDS RepoRuntimeRegistry, RepoServer, FiniteSetTheorems, TLAPS

-----------------------------------------------------------------------------
(* The registry and the writer leases. *)

\* The lease covers the whole time between the file lock and unload, and
\* work that was not left behind belongs to a loaded runtime.
LeaseCovers(s) ==
    /\ loaded[s] \/ Loading(s) => writer = s
    /\ work[s] => loaded[s] \/ dropped[s]
    /\ loaded[s] /\ state[s] = "paused" => gate[s]

Covered == RegistryTypeOK /\ \A s \in Servers : LeaseCovers(s)

\* No process has the lease at first, and none needs it.
LEMMA InitCovered == RegistryInit => Covered
BY DEF RegistryInit, Covered, RegistryTypeOK, LeaseCovers, Loading

\* Loads: the lease is taken before there is a runtime, and a refused load
\* releases no lease but its own.
LEMMA LoadCovered == ASSUME Covered, NEW s \in Servers, Load(s) PROVE Covered'
<1> USE ServerAssumption, StartAssumption DEF Covered, RegistryTypeOK, LeaseCovers, Loading
<1>1. CASE AcquireLease(s) BY <1>1 DEF AcquireLease
<1>2. CASE WriterConflict(s) BY <1>2 DEF WriterConflict
<1>3. ASSUME NEW closed \in {StartPaused, TRUE}, FinishLoad(s, closed) PROVE Covered'
    <2> closed \in BOOLEAN OBVIOUS
    <2>1. CASE closed BY <1>3, <2>1 DEF FinishLoad, StateOf
    <2>2. CASE ~closed BY <1>3, <2>2 DEF FinishLoad, StateOf
    <2> QED BY <2>1, <2>2
<1>4. CASE HomesFail(s) BY <1>4 DEF HomesFail
<1>5. CASE LoadRaises(s) BY <1>5 DEF LoadRaises
<1>6. CASE FindLoaded(s) BY <1>6 DEF FindLoaded, StateOf
<1>7. CASE RefreshFails(s) BY <1>7 DEF RefreshFails
<1> QED BY <1>1, <1>2, <1>3, <1>4, <1>5, <1>6, <1>7 DEF Load

\* Unloads: the runtime goes before the lease does.
LEMMA LeaveCovered == ASSUME Covered, NEW s \in Servers, Leave(s) PROVE Covered'
<1> USE ServerAssumption DEF Covered, RegistryTypeOK, LeaseCovers, Loading
<1>1. CASE UnloadRuntime(s) BY <1>1 DEF UnloadRuntime
<1>2. CASE UnloadNothing(s) BY <1>2 DEF UnloadNothing
<1>3. CASE ForceUnload(s) BY <1>3 DEF ForceUnload, Drop
<1>4. CASE ShutdownAll(s) BY <1>4 DEF ShutdownAll, Drop
<1>5. CASE Crash(s) BY <1>5 DEF Crash
<1> QED BY <1>1, <1>2, <1>3, <1>4, <1>5 DEF Leave

\* Control of a loaded runtime moves no lease.
LEMMA ControlCovered == ASSUME Covered, NEW s \in Servers, Control(s) PROVE Covered'
<1> USE DEF Covered, RegistryTypeOK, LeaseCovers, Loading, SetGate, Publish
<1>1. CASE Pause(s) BY <1>1 DEF Pause
<1>2. CASE Resume(s) BY <1>2 DEF Resume
<1>3. CASE ResumeFails(s) BY <1>3 DEF ResumeFails, StateOf
<1>4. CASE SemanticAdvance(s) BY <1>4 DEF SemanticAdvance
<1>5. CASE RestoreSnapshot(s) BY <1>5 DEF RestoreSnapshot
<1>6. CASE Tick(s) BY <1>6 DEF Tick
<1>7. CASE MarkFailed(s) BY <1>7 DEF MarkFailed
<1>8. CASE WorkEnds(s) BY <1>8 DEF WorkEnds
<1> QED BY <1>1, <1>2, <1>3, <1>4, <1>5, <1>6, <1>7, <1>8 DEF Control

\* The invariant is inductive.
LEMMA CoveredInductive == RegistrySpec => []Covered
<1>1. Covered /\ [RegistryNext]_registryVars => Covered'
    <2> SUFFICES ASSUME Covered, [RegistryNext]_registryVars PROVE Covered' OBVIOUS
    <2>1. ASSUME NEW s \in Servers, Load(s) PROVE Covered' BY <2>1, LoadCovered
    <2>2. ASSUME NEW s \in Servers, Leave(s) PROVE Covered' BY <2>2, LeaveCovered
    <2>3. ASSUME NEW s \in Servers, Control(s) PROVE Covered' BY <2>3, ControlCovered
    <2>4. CASE UNCHANGED registryVars
        BY <2>4 DEF registryVars, Covered, RegistryTypeOK, LeaseCovers, Loading
    <2> QED BY <2>1, <2>2, <2>3, <2>4 DEF RegistryNext
<1> QED BY <1>1, InitCovered, PTL DEF RegistrySpec

\* Record, runtime and gate of every process keep their types, and a record
\* is active or paused exactly while it has a runtime that did not fail.
THEOREM RegistryTypeCorrect == RegistrySpec => []RegistryTypeOK
<1>1. Covered => RegistryTypeOK BY DEF Covered
<1> QED BY <1>1, CoveredInductive, PTL

\* Two processes never both have the repository's runtime: a loaded or
\* loading record always has the file lock.
THEOREM WriterIsAlone == RegistrySpec => []SoleWriter
<1>1. Covered => SoleWriter BY DEF Covered, LeaseCovers, SoleWriter
<1> QED BY <1>1, CoveredInductive, PTL

\* Work outside the lease is work an operator's force, or a shutdown, left.
THEOREM WorkIsLeased == RegistrySpec => []WorkHoldsLease
<1>1. Covered => WorkHoldsLease BY DEF Covered, LeaseCovers, WorkHoldsLease
<1> QED BY <1>1, CoveredInductive, PTL

\* A record marked paused has a closed gate, whichever path marked it.
THEOREM PausedIsClosed == RegistrySpec => []PausedMeansClosed
<1>1. Covered => PausedMeansClosed BY DEF Covered, LeaseCovers, PausedMeansClosed
<1> QED BY <1>1, CoveredInductive, PTL
-----------------------------------------------------------------------------
(* The MCP router and the loads of a repository. *)

\* A request that creates the manager of a view found none cached, and holds
\* a runtime that is the loaded one or has been unloaded behind its back.
CreatesFresh(m) ==
    /\ pc[m] \in Creating => manager[ViewOf[m]] = 0
    /\ pc[m] \in {"start", "started"} => got[m] # 0 /\ got[m] \in {runtime} \cup overtaken

Accounted ==
    /\ TypeOK
    /\ \A m \in Requests : CreatesFresh(m)
    /\ RunningIsAccounted
    /\ ServesLoadedUnlessOvertaken

\* No step changes which managers run, are cached, start or stop.
SameManagers ==
    /\ running' = running /\ CachedViews' = CachedViews
    /\ Started' = Started /\ Stopping' = Stopping

\* Everything that is counted is finite, so adding to it or removing from it
\* changes the count by one.
LEMMA CountsAreFinite ==
    /\ IsFiniteSet(CachedViews) /\ IsFiniteSet(Started) /\ IsFiniteSet(Stopping)
    /\ Cardinality(CachedViews) \in Nat /\ Cardinality(Started) \in Nat /\ Cardinality(Stopping) \in Nat
<1>1. IsFiniteSet(Requests)
    BY ViewAssumption, FS_Singleton, FS_Union DEF Requests
<1>2. CachedViews \subseteq Views /\ Started \subseteq Requests /\ Stopping \subseteq Unloaders
    BY DEF CachedViews, Started, Stopping
<1>3. IsFiniteSet(CachedViews) /\ IsFiniteSet(Started) /\ IsFiniteSet(Stopping)
    BY <1>1, <1>2, ViewAssumption, FS_Subset
<1> QED BY <1>3, FS_CardinalityType

\* A step that changes none of them keeps the count.
LEMMA SameCount == ASSUME RunningIsAccounted, SameManagers PROVE RunningIsAccounted'
BY DEF RunningIsAccounted, SameManagers

\* Nothing is loaded, cached or under way at first.
LEMMA InitAccounted == Init => Accounted
<1> SUFFICES ASSUME Init PROVE Accounted OBVIOUS
<1> Requests \subseteq Tasks /\ Unloaders \subseteq Tasks BY DEF Requests, Tasks
<1>1. TypeOK /\ (\A m \in Requests : CreatesFresh(m)) /\ ServesLoadedUnlessOvertaken
    BY TaskAssumption, ViewAssumption, LoadAssumption
       DEF Init, TypeOK, CreatesFresh, Creating, ServesLoadedUnlessOvertaken, BeingStopped
<1>2. CachedViews = {} /\ Started = {} /\ Stopping = {}
    BY DEF Init, CachedViews, Started, Stopping
<1>3. RunningIsAccounted BY <1>2, FS_EmptySet DEF Init, RunningIsAccounted
<1> QED BY <1>1, <1>3 DEF Accounted

\* The routes and the reconciler load runtimes, and touch no manager.
LEMMA RouteAccounted ==
    ASSUME Accounted, NEW t \in Routes \cup Unloaders \cup {Reconciler},
           \/ RouteArrives(t) \/ RouteLoads(t) \/ LoadRefused(t) \/ BodyArrives(t)
           \/ Handle(t) \/ BlockLoop(t)
    PROVE  Accounted'
<1> t \in Tasks /\ t \notin Requests /\ Requests \subseteq Tasks /\ Unloaders \subseteq Tasks
    BY TaskAssumption DEF Tasks, Requests
<1> USE TaskAssumption, LoadAssumption
    DEF Accounted, TypeOK, CreatesFresh, Creating, ServesLoadedUnlessOvertaken, BeingStopped,
        Goto, Return, server, router, NeedsLock, Locked,
        SameManagers, CachedViews, Started, Stopping
<1> DEFINE Fit == /\ TypeOK' /\ SameManagers /\ ServesLoadedUnlessOvertaken'
                  /\ \A m \in Requests : CreatesFresh(m)'
<1>1. CASE RouteArrives(t)
    <2>1. Fit BY <1>1 DEF RouteArrives
    <2> QED BY <2>1, SameCount
<1>2. CASE RouteLoads(t)
    <2>1. Fit BY <1>2 DEF RouteLoads, Loaded
    <2> QED BY <2>1, SameCount
<1>3. CASE LoadRefused(t)
    <2>1. Fit BY <1>3 DEF LoadRefused
    <2> QED BY <2>1, SameCount
<1>4. CASE BodyArrives(t)
    <2>1. Fit BY <1>4 DEF BodyArrives
    <2> QED BY <2>1, SameCount
<1>5. CASE Handle(t)
    <2>1. Fit BY <1>5 DEF Handle
    <2> QED BY <2>1, SameCount
<1>6. CASE BlockLoop(t)
    <2>1. Fit BY <1>6 DEF BlockLoop
    <2> QED BY <2>1, SameCount
<1> QED BY <1>1, <1>2, <1>3, <1>4, <1>5, <1>6

\* So does the reconciliation, which also holds record.lock for its provider.
LEMMA ReconcileAccounted ==
    ASSUME Accounted,
           ReconcileArrives \/ ReconcileLoads \/ ReconcileLocks \/ ProviderAnswers
    PROVE  Accounted'
<1> Reconciler \in Tasks /\ Reconciler \notin Requests /\ Reconciler \notin Unloaders
        /\ Requests \subseteq Tasks /\ Unloaders \subseteq Tasks
    BY TaskAssumption DEF Tasks, Requests
<1> USE TaskAssumption, LoadAssumption
    DEF Accounted, TypeOK, CreatesFresh, Creating, ServesLoadedUnlessOvertaken, BeingStopped,
        Goto, Return, server, router, NeedsLock, Locked,
        SameManagers, CachedViews, Started, Stopping
<1> DEFINE Fit == /\ TypeOK' /\ SameManagers /\ ServesLoadedUnlessOvertaken'
                  /\ \A m \in Requests : CreatesFresh(m)'
<1>1. CASE ReconcileArrives
    <2>1. Fit BY <1>1 DEF ReconcileArrives
    <2> QED BY <2>1, SameCount
<1>2. CASE ReconcileLoads
    <2>1. Fit BY <1>2 DEF ReconcileLoads, Loaded
    <2> QED BY <2>1, SameCount
<1>3. CASE ReconcileLocks
    <2>1. Fit BY <1>3 DEF ReconcileLocks
    <2> QED BY <2>1, SameCount
<1>4. CASE ProviderAnswers
    <2>1. Fit BY <1>4 DEF ProviderAnswers
    <2> QED BY <2>1, SameCount
<1> QED BY <1>1, <1>2, <1>3, <1>4

\* Requests: one of them holds the lock of its view from the miss in the
\* cache until the manager it started is cached.
LEMMA RequestAccounted ==
    ASSUME Accounted, NEW m \in Requests, RequestArrives(m) \/ Request(m)
    PROVE  Accounted'
<1> m \in Tasks /\ m # NoTask /\ m \notin Unloaders /\ Requests \subseteq Tasks /\ Unloaders \subseteq Tasks
    BY TaskAssumption DEF Tasks, Requests
<1> ViewOf[m] \in Views BY ViewAssumption
<1> DEFINE Fit == /\ TypeOK' /\ ServesLoadedUnlessOvertaken'
                  /\ \A x \in Requests : CreatesFresh(x)'
           Fits == Fit /\ SameManagers
<1>1. ASSUME RequestArrives(m) \/ Serve(m) \/ CreateManager(m) \/ ThreadFindsRuntime(m) \/ ThreadLocks(m)
             \/ ThreadFails(m) \/ ThreadLoads(m) \/ StartFails(m)
      PROVE  Accounted'
    <2> USE TaskAssumption, ViewAssumption, LoadAssumption
        DEF Accounted, TypeOK, CreatesFresh, Creating, ServesLoadedUnlessOvertaken, BeingStopped,
            Goto, Return, server, router, NeedsLock, LeaveView, Cached,
            SameManagers, CachedViews, Started, Stopping
    <2>1. CASE RequestArrives(m)
        <3>1. Fits BY <2>1 DEF RequestArrives
        <3> QED BY <3>1, SameCount
    <2>2. CASE Serve(m)
        <3>1. Fits BY <2>2 DEF Serve
        <3> QED BY <3>1, SameCount
    <2>3. CASE CreateManager(m)
        <3>1. Fits BY <2>3 DEF CreateManager
        <3> QED BY <3>1, SameCount
    <2>4. CASE ThreadFindsRuntime(m)
        <3>1. Fits BY <2>4 DEF ThreadFindsRuntime
        <3> QED BY <3>1, SameCount
    <2>5. CASE ThreadLocks(m)
        <3>1. Fits BY <2>5 DEF ThreadLocks
        <3> QED BY <3>1, SameCount
    <2>6. CASE ThreadFails(m)
        <3>1. Fits BY <2>6 DEF ThreadFails
        <3> QED BY <3>1, SameCount
    <2>7. CASE ThreadLoads(m)
        <3>1. Fits BY <2>7 DEF ThreadLoads, Loaded
        <3> QED BY <3>1, SameCount
    <2>8. CASE StartFails(m)
        <3>1. Fits BY <2>8 DEF StartFails
        <3> QED BY <3>1, SameCount
    <2> QED BY <1>1, <2>1, <2>2, <2>3, <2>4, <2>5, <2>6, <2>7, <2>8
<1> USE TaskAssumption, ViewAssumption, LoadAssumption
    DEF Accounted, TypeOK, CreatesFresh, Creating, ServesLoadedUnlessOvertaken, BeingStopped,
        Goto, Return, server, router, NeedsLock, LeaveView, Cached
<1>2. CASE StartManager(m)
    <2>1. Fit BY <1>2 DEF StartManager
    <2>2. CachedViews' = CachedViews /\ Stopping' = Stopping
          /\ m \notin Started /\ Started' = Started \cup {m}
        BY <1>2 DEF StartManager, CachedViews, Started, Stopping
    <2>3. Cardinality(Started') = Cardinality(Started) + 1
        BY <2>2, CountsAreFinite, FS_AddElement
    <2>4. running' = running + 1 BY <1>2 DEF StartManager
    <2>5. RunningIsAccounted' BY <2>2, <2>3, <2>4, CountsAreFinite DEF RunningIsAccounted
    <2> QED BY <2>1, <2>5
<1>3. CASE CacheManager(m)
    <2>1. Fit BY <1>3 DEF CacheManager
    <2>2. /\ Stopping' = Stopping /\ m \in Started /\ Started' = Started \ {m}
          /\ ViewOf[m] \notin CachedViews /\ CachedViews' = CachedViews \cup {ViewOf[m]}
        BY <1>3 DEF CacheManager, CachedViews, Started, Stopping
    <2>3. Cardinality(Started') = Cardinality(Started) - 1
        BY <2>2, CountsAreFinite, FS_RemoveElement
    <2>4. Cardinality(CachedViews') = Cardinality(CachedViews) + 1
        BY <2>2, CountsAreFinite, FS_AddElement
    <2>5. running' = running BY <1>3 DEF CacheManager
    <2>6. RunningIsAccounted'
        BY <2>2, <2>3, <2>4, <2>5, CountsAreFinite DEF RunningIsAccounted
    <2> QED BY <2>1, <2>6
<1> QED BY <1>1, <1>2, <1>3 DEF Request

\* A turn of cleanup_repo takes one manager from the cache to those being
\* stopped, or leaves the cache and returns.
LEMMA StopNextMoves ==
    ASSUME TypeOK, NEW u \in Unloaders, NEW views \in SUBSET Views, StopNext(u, views)
    PROVE  /\ pc' \in [Tasks -> {"idle", "stopping"} \cup {pc[t] : t \in Tasks}]
           /\ \A t \in Tasks \ {u} : pc'[t] = pc[t] /\ got'[t] = got[t]
           /\ got' \in [Tasks -> 0..loads] /\ todo' \in [Unloaders -> SUBSET Views]
           /\ manager' \in [Views -> 0..loads] /\ Started' = Started
           /\ \A v \in Views : manager'[v] = manager[v] \/ manager'[v] = 0
           /\ \A v \in views \ todo'[u] : manager'[v] = 0
           /\ \A x \in Unloaders \ {u} : todo'[x] = todo[x]
           /\ \/ /\ pc'[u] = "idle"
                 /\ CachedViews' = CachedViews /\ Stopping' = Stopping \ {u}
              \/ /\ pc'[u] = "stopping"
                 /\ Stopping' = Stopping \cup {u}
                 /\ \E v \in CachedViews : CachedViews' = CachedViews \ {v}
<1> u \in Tasks /\ Requests \subseteq Tasks /\ Unloaders \subseteq Tasks /\ u \notin Requests
    BY TaskAssumption DEF Tasks, Requests
<1> DEFINE live == {v \in views : manager[v] # 0}
<1> USE DEF TypeOK, Goto, Return, CachedViews, Started, Stopping
<1>1. CASE live = {} /\ Return(u) /\ todo' = [todo EXCEPT ![u] = {}] /\ UNCHANGED manager
    BY <1>1
<1>2. ASSUME NEW v \in live, NEW rest \in SUBSET views, v \notin rest, live \ {v} \subseteq rest,
             manager' = [manager EXCEPT ![v] = 0], todo' = [todo EXCEPT ![u] = rest],
             Goto(u, "stopping"), UNCHANGED got
      PROVE  /\ pc' \in [Tasks -> {"idle", "stopping"} \cup {pc[t] : t \in Tasks}]
             /\ \A t \in Tasks \ {u} : pc'[t] = pc[t] /\ got'[t] = got[t]
             /\ got' \in [Tasks -> 0..loads] /\ todo' \in [Unloaders -> SUBSET Views]
             /\ manager' \in [Views -> 0..loads] /\ Started' = Started
             /\ \A w \in Views : manager'[w] = manager[w] \/ manager'[w] = 0
             /\ \A w \in views \ todo'[u] : manager'[w] = 0
             /\ \A x \in Unloaders \ {u} : todo'[x] = todo[x]
             /\ pc'[u] = "stopping" /\ Stopping' = Stopping \cup {u}
             /\ v \in CachedViews /\ CachedViews' = CachedViews \ {v}
    BY <1>2
<1> QED BY <1>1, <1>2 DEF StopNext

\* A cleanup that took one manager more, or none, keeps the count.
LEMMA UnloadAccounted ==
    ASSUME Accounted, NEW u \in Unloaders, UnloadArrives(u) \/ Unloading(u)
    PROVE  Accounted'
<1> u \in Tasks /\ Requests \subseteq Tasks /\ Unloaders \subseteq Tasks /\ u \notin Requests /\ u # NoTask
    BY TaskAssumption DEF Tasks, Requests
<1>1. CASE UnloadArrives(u) \/ UnloadRefused(u)
    <2> USE TaskAssumption, LoadAssumption
        DEF Accounted, TypeOK, CreatesFresh, Creating, ServesLoadedUnlessOvertaken, BeingStopped,
            Goto, Return, server, router, NeedsLock, Locked,
            SameManagers, CachedViews, Started, Stopping
    <2>1. /\ TypeOK' /\ SameManagers /\ ServesLoadedUnlessOvertaken'
          /\ \A m \in Requests : CreatesFresh(m)'
        BY <1>1 DEF UnloadArrives, UnloadRefused
    <2> QED BY <2>1, SameCount
<1>2. CASE Unload(u)
    <2> DEFINE Overtaken == {x \in Requests : pc[x] \in {"start", "started"}}
    <2>1. StopNext(u, Views) /\ pc[u] = "unload" /\ runtime' = 0 /\ running' = running
          /\ loads' = loads /\ lock = NoTask /\ lock' = NoTask /\ blocked' = NoTask /\ creating' = creating
          /\ overtaken' = IF runtime = 0 THEN overtaken ELSE overtaken \cup {got[m] : m \in Overtaken}
        BY <1>2 DEF Unload, Locked
    <2>2. \A m \in Overtaken : got[m] \in 1..loads /\ got[m] \in {runtime} \cup overtaken
        BY DEF Accounted, TypeOK, CreatesFresh
    <2>3. overtaken' \subseteq 1..loads /\ overtaken \subseteq overtaken'
        <3>1. overtaken \subseteq 1..loads BY DEF Accounted, TypeOK
        <3>2. {got[m] : m \in Overtaken} \subseteq 1..loads BY <2>2
        <3>3. CASE runtime = 0 BY <2>1, <3>1, <3>3
        <3>4. CASE runtime # 0
            <4>1. overtaken' = overtaken \cup {got[m] : m \in Overtaken} BY <2>1, <3>4
            <4> QED BY <3>1, <3>2, <4>1
        <3> QED BY <3>3, <3>4
    <2>4. \A m \in Overtaken : got[m] \in overtaken'
        <3> TAKE m \in Overtaken
        <3>1. CASE runtime = 0
            <4>1. got[m] \in {runtime} \cup overtaken /\ got[m] # 0 BY <2>2
            <4> QED BY <2>1, <3>1, <4>1
        <3>2. CASE runtime # 0 BY <2>1, <3>2
        <3> QED BY <3>1, <3>2
    <2> HIDE DEF Overtaken
    <2> DEFINE Moved(t) == pc'[t] = pc[t] /\ got'[t] = got[t]
    <2>5. TypeOK BY DEF Accounted
    <2>6. /\ \A t \in Tasks \ {u} : Moved(t)
          /\ pc'[u] \in {"idle", "stopping"} /\ pc' \in [Tasks -> {"idle", "stopping"} \cup {pc[t] : t \in Tasks}]
          /\ got' \in [Tasks -> 0..loads] /\ todo' \in [Unloaders -> SUBSET Views]
          /\ manager' \in [Views -> 0..loads]
          /\ \A v \in Views : manager'[v] = manager[v] \/ manager'[v] = 0
          /\ \A v \in Views \ todo'[u] : manager'[v] = 0
        BY <2>1, <2>5, StopNextMoves
    <2>7. TypeOK'
        BY <2>1, <2>3, <2>6, LoadAssumption DEF Accounted, TypeOK, Creating
    <2>8. \A m \in Requests : CreatesFresh(m)'
        BY <2>4, <2>6, ViewAssumption DEF Accounted, TypeOK, CreatesFresh, Creating, Overtaken
    <2>9. ServesLoadedUnlessOvertaken'
        BY <2>6 DEF ServesLoadedUnlessOvertaken, BeingStopped
    <2>10. RunningIsAccounted'
        <3>1. u \notin Stopping BY <2>1 DEF Stopping
        <3>2. CASE CachedViews' = CachedViews /\ Stopping' = Stopping \ {u} /\ Started' = Started
            <4>1. Stopping' = Stopping BY <3>1, <3>2
            <4> QED BY <2>1, <3>2, <4>1 DEF Accounted, RunningIsAccounted
        <3>3. ASSUME NEW v \in CachedViews, CachedViews' = CachedViews \ {v},
                     Stopping' = Stopping \cup {u}, Started' = Started
              PROVE  RunningIsAccounted'
            <4>1. Cardinality(CachedViews') = Cardinality(CachedViews) - 1
                BY <3>3, CountsAreFinite, FS_RemoveElement
            <4>2. Cardinality(Stopping') = Cardinality(Stopping) + 1
                BY <3>1, <3>3, CountsAreFinite, FS_AddElement
            <4> QED BY <2>1, <3>3, <4>1, <4>2, CountsAreFinite DEF Accounted, RunningIsAccounted
        <3> QED BY <2>1, <2>5, <3>2, <3>3, StopNextMoves
    <2> QED BY <2>7, <2>8, <2>9, <2>10 DEF Accounted
<1>3. CASE Stopped(u)
    <2>1. /\ StopNext(u, todo[u]) /\ pc[u] = "stopping" /\ running' = running - 1
          /\ UNCHANGED <<runtime, loads, lock, blocked, creating, overtaken>> /\ blocked = NoTask
          /\ todo[u] \in SUBSET Views
        BY <1>3 DEF Stopped, server, Accounted, TypeOK
    <2>2. TypeOK BY DEF Accounted
    <2>3. /\ \A t \in Tasks \ {u} : pc'[t] = pc[t] /\ got'[t] = got[t]
          /\ pc'[u] \in {"idle", "stopping"} /\ pc' \in [Tasks -> {"idle", "stopping"} \cup {pc[t] : t \in Tasks}]
          /\ got' \in [Tasks -> 0..loads] /\ todo' \in [Unloaders -> SUBSET Views]
          /\ manager' \in [Views -> 0..loads]
          /\ \A v \in Views : manager'[v] = manager[v] \/ manager'[v] = 0
          /\ \A v \in todo[u] \ todo'[u] : manager'[v] = 0
          /\ \A x \in Unloaders \ {u} : todo'[x] = todo[x]
        BY <2>1, <2>2, StopNextMoves
    <2>4. RunningIsAccounted'
        <3>1. u \in Stopping BY <2>1 DEF Stopping
        <3>2. CASE CachedViews' = CachedViews /\ Stopping' = Stopping \ {u} /\ Started' = Started
            <4>1. Cardinality(Stopping') = Cardinality(Stopping) - 1
                BY <3>1, <3>2, CountsAreFinite, FS_RemoveElement
            <4> QED BY <2>1, <3>2, <4>1, CountsAreFinite DEF Accounted, RunningIsAccounted
        <3>3. ASSUME NEW v \in CachedViews, CachedViews' = CachedViews \ {v},
                     Stopping' = Stopping \cup {u}, Started' = Started
              PROVE  RunningIsAccounted'
            <4>1. Cardinality(CachedViews') = Cardinality(CachedViews) - 1
                BY <3>3, CountsAreFinite, FS_RemoveElement
            <4>2. Stopping' = Stopping BY <3>1, <3>3
            <4>3. running' = running - 1 /\ Started' = Started BY <2>1, <3>3
            <4>4. running = Cardinality(CachedViews) + Cardinality(Started) + Cardinality(Stopping)
                BY DEF Accounted, RunningIsAccounted
            <4>5. running' = Cardinality(CachedViews') + Cardinality(Started') + Cardinality(Stopping')
                BY <4>1, <4>2, <4>3, <4>4, CountsAreFinite
            <4> QED BY <4>5 DEF RunningIsAccounted
        <3> QED BY <2>1, <2>2, <3>2, <3>3, StopNextMoves
    <2>5. running' \in Nat
        <3>1. /\ CachedViews' \subseteq CachedViews /\ Started' = Started /\ Stopping' \subseteq Stopping \cup {u}
            BY <2>1, <2>2, StopNextMoves
        <3>2. IsFiniteSet(CachedViews') /\ IsFiniteSet(Started') /\ IsFiniteSet(Stopping')
            <4>1. u \in Stopping BY <2>1 DEF Stopping
            <4> QED BY <3>1, <4>1, CountsAreFinite, FS_Subset
        <3>3. Cardinality(CachedViews') \in Nat /\ Cardinality(Started') \in Nat /\ Cardinality(Stopping') \in Nat
            BY <3>2, FS_CardinalityType
        <3> QED BY <2>4, <3>3 DEF RunningIsAccounted
    <2>6. TypeOK'
        BY <2>1, <2>3, <2>5 DEF Accounted, TypeOK, Creating, NeedsLock
    <2>7. \A m \in Requests : CreatesFresh(m)'
        BY <2>1, <2>3, ViewAssumption DEF Accounted, TypeOK, CreatesFresh, Creating
    <2>8. ServesLoadedUnlessOvertaken'
        BY <2>1, <2>3 DEF Accounted, ServesLoadedUnlessOvertaken, BeingStopped
    <2> QED BY <2>4, <2>6, <2>7, <2>8 DEF Accounted
<1>4. CASE BlockLoop(u) BY <1>4, RouteAccounted
<1> QED BY <1>1, <1>2, <1>3, <1>4 DEF Unloading

\* The invariant is inductive.
LEMMA AccountedInductive == Spec => []Accounted
<1>1. Accounted /\ [Next]_vars => Accounted'
    <2> SUFFICES ASSUME Accounted, [Next]_vars PROVE Accounted' OBVIOUS
    <2>1. CASE Arrival BY <2>1, RouteAccounted, RequestAccounted, UnloadAccounted DEF Arrival
    <2>2. ASSUME NEW u \in Unloaders, Unloading(u) PROVE Accounted' BY <2>2, UnloadAccounted
    <2>3. ASSUME NEW r \in Routes, Coroutine(r) PROVE Accounted'
        BY <2>3, RouteAccounted DEF Coroutine
    <2>4. ASSUME NEW m \in Requests, Request(m) PROVE Accounted' BY <2>4, RequestAccounted
    <2>5. CASE ReconcileArrives BY <2>5, ReconcileAccounted
    <2>6. CASE Reconcile BY <2>6, RouteAccounted, ReconcileAccounted DEF Reconcile
    <2>7. CASE UNCHANGED vars
        BY <2>7 DEF vars, server, router, Accounted, TypeOK, CreatesFresh, Creating, RunningIsAccounted,
                    CachedViews, Started, Stopping, ServesLoadedUnlessOvertaken, BeingStopped
    <2> QED BY <2>1, <2>2, <2>3, <2>4, <2>5, <2>6, <2>7 DEF Next
<1> QED BY <1>1, InitAccounted, PTL DEF Spec

\* Types; the worker thread that has record.lock is inside its block, and the
\* event loop waits for it only where the code takes it.
THEOREM ServerTypeCorrect == Spec => []TypeOK
<1>1. Accounted => TypeOK BY DEF Accounted
<1> QED BY <1>1, AccountedInductive, PTL

\* Every manager that runs is cached, is the one being created, or is being
\* stopped: however requests, loads and unloads interleave, none is left
\* that no unload stops.
THEOREM NoManagerIsLost == Spec => []RunningIsAccounted
<1>1. Accounted => RunningIsAccounted BY DEF Accounted
<1> QED BY <1>1, AccountedInductive, PTL

\* What a cached manager serves is the loaded runtime, or one that an unload
\* dropped while its manager was starting, or one whose unload has not come
\* to this view yet.
THEOREM CacheIsCurrent == Spec => []ServesLoadedUnlessOvertaken
<1>1. Accounted => ServesLoadedUnlessOvertaken BY DEF Accounted
<1> QED BY <1>1, AccountedInductive, PTL
=============================================================================

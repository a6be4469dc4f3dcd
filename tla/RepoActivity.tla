---------------------------- MODULE RepoActivity ----------------------------
(***************************************************************************)
(* services/concurrency/repo_activity.py for one repository root: the      *)
(* in-process component through which agent tools, the semantic scheduler  *)
(* and the administration API share one repository.                        *)
(*                                                                         *)
(* A thread runs a program: a sequence of requests.  A context manager     *)
(* (topology_write, node_write, catalog_write, build_cache_write,          *)
(* maintenance) stays open until the program ends or raises, and the open  *)
(* ones are then left in LIFO order, as nested "with" statements are.      *)
(* Every "with self._control" block is one atomic step; the lock of a      *)
(* transaction, the read of the persisted frontier and the control block   *)
(* that follows them are separate steps, as they are in the code.          *)
(***************************************************************************)
EXTENDS Naturals, Sequences, FiniteSets

CONSTANTS
    Threads,      \* Python threads
    NoThread,     \* no thread
    Locks,        \* the RLocks of one repository
    NoLock,       \* the lock of a request that has none
    Topology,     \* the lock of topology_write
    Nodes,        \* node paths; the lock of node_write is the path itself
    Batches,      \* content batch identities
    NoBatch,      \* None
    BatchNodes,   \* the node paths hashed into each batch identity
    PathRank,     \* the string order of node paths
    Programs,     \* what the threads may run
    MaxCalls      \* bound: programs each thread may start

ASSUME ThreadAssumption == NoThread \notin Threads
ASSUME LockAssumption   == /\ NoLock \notin Locks
                           /\ Topology \in Locks
                           /\ Nodes \subseteq Locks
ASSUME BatchAssumption  == /\ NoBatch \notin Batches
                           /\ BatchNodes \in [Batches -> SUBSET Nodes]
                           /\ PathRank \in [Nodes -> Nat]
ASSUME BoundAssumption  == MaxCalls \in Nat

Request == [op    : {"write", "maintain", "reserve", "query", "body"},
            lock  : Locks \cup {NoLock},
            batch : Batches \cup {NoBatch}]

ASSUME ProgramAssumption ==
    /\ Programs \subseteq Seq(Request)
    /\ \A p \in Programs : \A i \in DOMAIN p :
          /\ p[i].op = "write"   => p[i].lock \in Locks
          /\ p[i].op = "reserve" => p[i].batch \in Batches

VARIABLES
    lockOwner,     \* RLock owner of every lock
    lockDepth,     \* RLock recursion count of every lock
    batches,       \* keys of _batches
    nodeOwner,     \* _node_owners
    persistedKeys, \* _persisted_batch_keys
    maintOwner,    \* _maintenance_threads
    maintDepth,    \* _maintenance_depth
    activeTx,      \* _active_transactions
    prog,          \* the program each thread runs
    k,             \* how many of its requests the thread has been granted
    pc,            \* where in the current request the thread is
    seen,          \* the persisted frontier the thread read
    frontier,      \* the batch the persisted Coordinator flow has pending
    held,          \* ghost: reserved by a caller and not yet released
    calls          \* programs started so far

tables  == <<batches, nodeOwner, persistedKeys>>
maint   == <<maintOwner, maintDepth>>
locking == <<lockOwner, lockDepth>>
thread  == <<prog, k, pc>>
vars    == <<locking, tables, maint, activeTx, thread, seen, frontier, held, calls>>

----------------------------------------------------------------------------
(* The requests, and the programs the callers build from them.             *)

Write(l)    == [op |-> "write",    lock |-> l,      batch |-> NoBatch]
Maintain(c) == [op |-> "maintain", lock |-> NoLock, batch |-> c]
Reserve(b)  == [op |-> "reserve",  lock |-> NoLock, batch |-> b]
Query       == [op |-> "query",    lock |-> NoLock, batch |-> NoBatch]
Body        == [op |-> "body",     lock |-> NoLock, batch |-> NoBatch]

\* node_write normalises its paths: no duplicates, in path order.
NodeWrite(paths) ==
    LET sorted == CHOOSE s \in [1..Cardinality(paths) -> paths] :
                     \A i, j \in DOMAIN s : i < j => PathRank[s[i]] < PathRank[s[j]]
    IN [i \in 1..Cardinality(paths) |-> Write(sorted[i])]

\* Mutant: maintenance trusts the tables it finds.
RehydratesButMaintenance(r) == r.op \in {"reserve", "query"} \/ (r.op = "write" /\ r.lock = Topology)

\* _rehydrate_persisted_batches runs before these requests touch the tables;
\* node, catalog and build-cache transactions do not look at the frontier.
Rehydrates(r) == \/ r.op \in {"maintain", "reserve", "query"}
                 \/ r.op = "write" /\ r.lock = Topology

\* maintenance, and each transaction, is a context manager.
IsContext(r) == r.op \in {"write", "maintain"}

----------------------------------------------------------------------------
Current(t) == prog[t][k[t] + 1]
Top(t)     == prog[t][k[t]]

\* A request that needs no frontier is served at once.
Ready(t, op) == /\ pc[t] \in {"call", "act"}
                /\ pc[t] = IF Rehydrates(Current(t)) THEN "act" ELSE "call"
                /\ Current(t).op = op

Advance(t) ==
    /\ k' = [k EXCEPT ![t] = k[t] + 1]
    /\ pc' = [pc EXCEPT ![t] = IF k[t] + 1 = Len(prog[t]) THEN "leave" ELSE "call"]
    /\ UNCHANGED prog

\* An exception: the contexts already open are left, the rest is not run.
Raise(t) == pc' = [pc EXCEPT ![t] = "leave"] /\ UNCHANGED <<prog, k>>

OwnersWithout(gone) == [n \in Nodes |-> IF nodeOwner[n] \in gone THEN NoBatch ELSE nodeOwner[n]]

Init ==
    /\ lockOwner = [l \in Locks |-> NoThread]
    /\ lockDepth = [l \in Locks |-> 0]
    /\ batches = {} /\ persistedKeys = {}
    /\ nodeOwner = [n \in Nodes |-> NoBatch]
    /\ maintOwner = NoThread /\ maintDepth = 0
    /\ activeTx = 0
    /\ prog = [t \in Threads |-> <<>>]
    /\ k = [t \in Threads |-> 0]
    /\ pc = [t \in Threads |-> "idle"]
    /\ seen = [t \in Threads |-> NoBatch]
    /\ frontier \in Batches \cup {NoBatch}
    /\ held = {}
    /\ calls = [t \in Threads |-> 0]

----------------------------------------------------------------------------
(* One program from call to return.                                        *)

\* The policy asks for the batch it has just read from the Coordinator.
Start(t, p) ==
    /\ pc[t] = "idle" /\ calls[t] < MaxCalls /\ p # <<>>
    /\ \A i \in DOMAIN p : p[i].op = "reserve" => p[i].batch = frontier
    /\ prog' = [prog EXCEPT ![t] = p]
    /\ pc' = [pc EXCEPT ![t] = "call"]
    /\ calls' = [calls EXCEPT ![t] = calls[t] + 1]
    /\ UNCHANGED <<locking, tables, maint, activeTx, k, seen, frontier, held>>

\* _persisted_content_batches: the frontier is read outside _control.
ReadFrontier(t) ==
    /\ pc[t] = "call" /\ Rehydrates(Current(t))
    /\ seen' = [seen EXCEPT ![t] = frontier]
    /\ pc' = [pc EXCEPT ![t] = "rehydrate"]
    /\ UNCHANGED <<locking, tables, maint, activeTx, prog, k, frontier, held, calls>>

\* Flow service missing, list failing, or an incomplete identity.
RecoveryRequired(t) ==
    /\ pc[t] = "call" /\ Rehydrates(Current(t))
    /\ Raise(t)
    /\ UNCHANGED <<locking, tables, maint, activeTx, seen, frontier, held, calls>>

\* Mutant: the nodes of a stale batch keep their owner.
RehydrateKeepingOwners(t) ==
    LET current == {seen[t]} \cap Batches
        new     == {b \in current \ batches : \A n \in BatchNodes[b] : nodeOwner[n] \in {NoBatch, b}}
    IN /\ pc[t] = "rehydrate"
       /\ batches' = (batches \ (persistedKeys \ current)) \cup new
       /\ persistedKeys' = (persistedKeys \cap current) \cup (current \cap batches) \cup new
       /\ nodeOwner' = [n \in Nodes |-> IF \E b \in new : n \in BatchNodes[b] THEN seen[t] ELSE nodeOwner[n]]
       /\ pc' = [pc EXCEPT ![t] = "act"]
       /\ UNCHANGED <<locking, maint, activeTx, prog, k, seen, frontier, held, calls>>

\* The control block of _rehydrate_persisted_batches, on what was read.
Rehydrate(t) ==
    LET current == {seen[t]} \cap Batches
        stale   == persistedKeys \ current
        owners  == OwnersWithout(stale)
        new     == {b \in current \ batches : \A n \in BatchNodes[b] : owners[n] \in {NoBatch, b}}
    IN /\ pc[t] = "rehydrate"
       /\ batches' = (batches \ stale) \cup new
       /\ persistedKeys' = (persistedKeys \ stale) \cup (current \cap batches) \cup new
       /\ nodeOwner' = [n \in Nodes |-> IF \E b \in new : n \in BatchNodes[b] THEN seen[t] ELSE owners[n]]
       /\ pc' = [pc EXCEPT ![t] = "act"]
       /\ UNCHANGED <<locking, maint, activeTx, prog, k, seen, frontier, held, calls>>

\* Mutant: a plain Lock where the code has an RLock.
AcquirePlain(t) ==
    LET l == Current(t).lock IN
    /\ Ready(t, "write")
    /\ lockOwner[l] = NoThread
    /\ lockOwner' = [lockOwner EXCEPT ![l] = t]
    /\ lockDepth' = [lockDepth EXCEPT ![l] = lockDepth[l] + 1]
    /\ pc' = [pc EXCEPT ![t] = "admit"]
    /\ UNCHANGED <<tables, maint, activeTx, prog, k, seen, frontier, held, calls>>

\* lock.acquire() of _transaction; RLocks are re-entrant.
Acquire(t) ==
    LET l == Current(t).lock IN
    /\ Ready(t, "write")
    /\ lockOwner[l] \in {NoThread, t}
    /\ lockOwner' = [lockOwner EXCEPT ![l] = t]
    /\ lockDepth' = [lockDepth EXCEPT ![l] = lockDepth[l] + 1]
    /\ pc' = [pc EXCEPT ![t] = "admit"]
    /\ UNCHANGED <<tables, maint, activeTx, prog, k, seen, frontier, held, calls>>

\* Mutant: a transaction does not ask whether maintenance is active.
AdmitAlways(t) ==
    /\ pc[t] = "admit"
    /\ activeTx' = activeTx + 1
    /\ Advance(t)
    /\ UNCHANGED <<locking, tables, maint, seen, frontier, held, calls>>

\* The control block that admits a transaction under its lock.
Admit(t) ==
    /\ pc[t] = "admit"
    /\ maintOwner \in {NoThread, t}
    /\ activeTx' = activeTx + 1
    /\ Advance(t)
    /\ UNCHANGED <<locking, tables, maint, seen, frontier, held, calls>>

\* Mutant: one release gives up every re-entry.
ReleaseLockFully(l) ==
    /\ lockDepth' = [lockDepth EXCEPT ![l] = lockDepth[l] - 1]
    /\ lockOwner' = [lockOwner EXCEPT ![l] = NoThread]

ReleaseLock(l) ==
    /\ lockDepth' = [lockDepth EXCEPT ![l] = lockDepth[l] - 1]
    /\ lockOwner' = [lockOwner EXCEPT ![l] = IF lockDepth[l] = 1 THEN NoThread ELSE lockOwner[l]]

\* Another thread's maintenance refuses it: the lock goes back first.
RefuseTransaction(t) ==
    /\ pc[t] = "admit"
    /\ maintOwner \notin {NoThread, t}
    /\ ReleaseLock(Current(t).lock)
    /\ Raise(t)
    /\ UNCHANGED <<tables, maint, activeTx, seen, frontier, held, calls>>

\* maintenance(): a nested request of the owning thread, or a fresh one.
NestMaintenance(t) ==
    /\ Ready(t, "maintain") /\ maintOwner = t
    /\ maintDepth' = maintDepth + 1
    /\ Advance(t)
    /\ UNCHANGED <<locking, tables, maintOwner, activeTx, seen, frontier, held, calls>>

MaintenanceFree(c) == /\ maintOwner = NoThread
                      /\ batches \in {{}, {c}}
                      /\ activeTx = 0

GrantMaintenance(t) ==
    /\ Ready(t, "maintain") /\ MaintenanceFree(Current(t).batch)
    /\ maintOwner' = t /\ maintDepth' = 1
    /\ Advance(t)
    /\ UNCHANGED <<locking, tables, activeTx, seen, frontier, held, calls>>

RefuseMaintenance(t) ==
    /\ Ready(t, "maintain") /\ maintOwner # t /\ ~MaintenanceFree(Current(t).batch)
    /\ Raise(t)
    /\ UNCHANGED <<locking, tables, maint, activeTx, seen, frontier, held, calls>>

\* reserve_content_batch: an existing reservation of the identity is returned
\* before maintenance or the owners of its nodes are looked at.
ReserveExisting(t) ==
    /\ Ready(t, "reserve") /\ Current(t).batch \in batches
    /\ held' = held \cup {Current(t).batch}
    /\ Advance(t)
    /\ UNCHANGED <<locking, tables, maint, activeTx, seen, frontier, calls>>

Reservable(b) == /\ maintOwner = NoThread
                 /\ \A n \in BatchNodes[b] : nodeOwner[n] = NoBatch

ReserveNew(t) ==
    LET b == Current(t).batch IN
    /\ Ready(t, "reserve") /\ b \notin batches /\ Reservable(b)
    /\ batches' = batches \cup {b}
    /\ nodeOwner' = [n \in Nodes |-> IF n \in BatchNodes[b] THEN b ELSE nodeOwner[n]]
    /\ held' = held \cup {b}
    /\ Advance(t)
    /\ UNCHANGED <<locking, persistedKeys, maint, activeTx, seen, frontier, calls>>

RefuseReservation(t) ==
    LET b == Current(t).batch IN
    /\ Ready(t, "reserve") /\ b \notin batches /\ ~Reservable(b)
    /\ Raise(t)
    /\ UNCHANGED <<locking, tables, maint, activeTx, seen, frontier, held, calls>>

\* active_batches and batch_for_node only answer.
ActiveBatches(t) ==
    /\ Ready(t, "query")
    /\ Advance(t)
    /\ UNCHANGED <<locking, tables, maint, activeTx, seen, frontier, held, calls>>

\* The caller's own code inside its contexts: it returns or it raises.
BodyReturns(t) ==
    /\ Ready(t, "body")
    /\ Advance(t)
    /\ UNCHANGED <<locking, tables, maint, activeTx, seen, frontier, held, calls>>

BodyRaises(t) ==
    /\ Ready(t, "body")
    /\ Raise(t)
    /\ UNCHANGED <<locking, tables, maint, activeTx, seen, frontier, held, calls>>

----------------------------------------------------------------------------
(* Leaving the open contexts, innermost first.                             *)

Pop(t) == /\ k' = [k EXCEPT ![t] = k[t] - 1]
          /\ pc' = [pc EXCEPT ![t] = "leave"]
          /\ UNCHANGED prog

\* Mutant: the last transaction to end clears the count of all.
EndTransactions(t) ==
    /\ pc[t] = "leave" /\ k[t] > 0 /\ Top(t).op = "write"
    /\ activeTx' = 0
    /\ pc' = [pc EXCEPT ![t] = "unlock"]
    /\ UNCHANGED <<locking, tables, maint, prog, k, seen, frontier, held, calls>>

\* The finally clause of _transaction: the counter under _control ...
EndTransaction(t) ==
    /\ pc[t] = "leave" /\ k[t] > 0 /\ Top(t).op = "write"
    /\ activeTx' = activeTx - 1
    /\ pc' = [pc EXCEPT ![t] = "unlock"]
    /\ UNCHANGED <<locking, tables, maint, prog, k, seen, frontier, held, calls>>

\* ... and only then lock.release().
Unlock(t) ==
    /\ pc[t] = "unlock"
    /\ ReleaseLock(Top(t).lock)
    /\ Pop(t)
    /\ UNCHANGED <<tables, maint, activeTx, seen, frontier, held, calls>>

\* The finally clause of maintenance().
ExitMaintenance(t) ==
    /\ pc[t] = "leave" /\ k[t] > 0 /\ Top(t).op = "maintain"
    /\ IF maintOwner # t THEN UNCHANGED maint
       ELSE IF maintDepth > 1 THEN maintDepth' = maintDepth - 1 /\ UNCHANGED maintOwner
       ELSE maintOwner' = NoThread /\ maintDepth' = 0
    /\ Pop(t)
    /\ UNCHANGED <<locking, tables, activeTx, seen, frontier, held, calls>>

\* A call that opened no context has nothing to leave.
SkipCall(t) ==
    /\ pc[t] = "leave" /\ k[t] > 0 /\ ~IsContext(Top(t))
    /\ Pop(t)
    /\ UNCHANGED <<locking, tables, maint, activeTx, seen, frontier, held, calls>>

Finish(t) ==
    /\ pc[t] = "leave" /\ k[t] = 0
    /\ pc' = [pc EXCEPT ![t] = "idle"]
    /\ prog' = [prog EXCEPT ![t] = <<>>]
    /\ UNCHANGED <<locking, tables, maint, activeTx, k, seen, frontier, held, calls>>

----------------------------------------------------------------------------
(* The scheduler's releases, the Coordinator's frontier and a restart.     *)

\* release_content_batch by the policy that reserved it.
ReleaseContentBatch(b) ==
    /\ b \in held
    /\ batches' = batches \ {b}
    /\ persistedKeys' = persistedKeys \ {b}
    /\ nodeOwner' = OwnersWithout({b})
    /\ held' = held \ {b}
    /\ UNCHANGED <<locking, maint, activeTx, thread, seen, frontier, calls>>

\* pause_runtime and a failed semantic advance drop every reservation.
ReleaseAllContentBatches ==
    /\ batches # {} \/ held # {}
    /\ batches' = {} /\ persistedKeys' = {} /\ held' = {}
    /\ nodeOwner' = [n \in Nodes |-> NoBatch]
    /\ UNCHANGED <<locking, maint, activeTx, thread, seen, frontier, calls>>

\* The Coordinator flow commits a new pending batch or hands one back.  The
\* policy's decide() releases a batch before the callback step it is handed
\* back to may run, so none is pending again while it is still held.
CommitFrontier(b) ==
    /\ b # frontier /\ b \notin held
    /\ frontier' = b
    /\ UNCHANGED <<locking, tables, maint, activeTx, thread, seen, held, calls>>

\* The process ends at any point: only the persisted frontier survives.
Restart ==
    /\ lockOwner' = [l \in Locks |-> NoThread]
    /\ lockDepth' = [l \in Locks |-> 0]
    /\ batches' = {} /\ persistedKeys' = {} /\ held' = {}
    /\ nodeOwner' = [n \in Nodes |-> NoBatch]
    /\ maintOwner' = NoThread /\ maintDepth' = 0
    /\ activeTx' = 0
    /\ prog' = [t \in Threads |-> <<>>]
    /\ k' = [t \in Threads |-> 0]
    /\ pc' = [t \in Threads |-> "idle"]
    /\ seen' = [t \in Threads |-> NoBatch]
    /\ UNCHANGED <<frontier, calls>>

\* The component's own steps of a call, up to its return.
Protocol(t) ==
    \/ ReadFrontier(t) \/ RecoveryRequired(t) \/ Rehydrate(t)
    \/ Acquire(t) \/ Admit(t) \/ RefuseTransaction(t)
    \/ NestMaintenance(t) \/ GrantMaintenance(t) \/ RefuseMaintenance(t)
    \/ ReserveExisting(t) \/ ReserveNew(t) \/ RefuseReservation(t)
    \/ EndTransaction(t) \/ Unlock(t) \/ ExitMaintenance(t) \/ SkipCall(t) \/ Finish(t)

\* What a thread does once it runs a program, given processor time.
Step(t) == Protocol(t) \/ ActiveBatches(t) \/ BodyReturns(t) \/ BodyRaises(t)

Environment ==
    \/ \E b \in Batches : ReleaseContentBatch(b)
    \/ ReleaseAllContentBatches
    \/ \E b \in Batches \cup {NoBatch} : CommitFrontier(b)
    \/ Restart

Next ==
    \/ \E t \in Threads : Step(t)
    \/ \E t \in Threads, p \in Programs : Start(t, p)
    \/ Environment

Spec == Init /\ [][Next]_vars

----------------------------------------------------------------------------
\* The tables, locks and program counters keep their types; in particular no
\* counter or depth goes below zero.
TypeOK ==
    /\ lockOwner \in [Locks -> Threads \cup {NoThread}]
    /\ lockDepth \in [Locks -> Nat]
    /\ batches \subseteq Batches
    /\ nodeOwner \in [Nodes -> Batches \cup {NoBatch}]
    /\ persistedKeys \subseteq Batches
    /\ maintOwner \in Threads \cup {NoThread}
    /\ maintDepth \in Nat
    /\ activeTx \in Nat
    /\ prog \in [Threads -> Seq(Request)]
    /\ k \in [Threads -> Nat]
    /\ pc \in [Threads -> {"idle", "call", "rehydrate", "act", "admit", "leave", "unlock"}]
    /\ seen \in [Threads -> Batches \cup {NoBatch}]
    /\ frontier \in Batches \cup {NoBatch}
    /\ held \subseteq Batches
    /\ calls \in [Threads -> Nat]

\* The transactions whose bodies run, or whose finally clause has not counted
\* them out yet, and the lock each thread's open transactions hold.
OpenAt(t) == {i \in 1..k[t] : prog[t][i].op = "write" /\ ~(pc[t] = "unlock" /\ i = k[t])}
OpenTransactions == UNION {{t} \X OpenAt(t) : t \in Threads}

Holding(t) == {prog[t][i].lock : i \in {j \in 1..k[t] : prog[t][j].op = "write"}}
                 \cup (IF pc[t] = "admit" THEN {Current(t).lock} ELSE {})

\* The counter is exactly the number of transactions open, on every path
\* through refusal, exception and nesting (_transaction).
CountsTransactions == activeTx = Cardinality(OpenTransactions)

\* While a thread is inside maintenance() no other thread is inside a
\* transaction, however the refusal, nesting and release steps interleave.
MaintenanceExcludesTransactions ==
    \A x \in OpenTransactions : maintOwner \in {NoThread, x[1]}

\* The control blocks, counters and depths together behave as one object
\* whose maintenance and transactions exclude one another step by step.
Exclusion == INSTANCE RepoExclusion WITH open <- OpenTransactions, owner <- maintOwner
ImplementsExclusion == Exclusion!Spec

\* A thread owns the lock of each of its open transactions, re-entered ones
\* included, so two threads are never inside transactions of one lock.
HoldsItsLocks == \A t \in Threads : \A l \in Holding(t) : lockOwner[l] = t

\* The owner of a node is the active batch that reserved it: the two tables
\* agree through reservation, rehydration of stale reads, release and restart.
OwnersMatchBatches ==
    /\ \A n \in Nodes : nodeOwner[n] # NoBatch => nodeOwner[n] \in batches /\ n \in BatchNodes[nodeOwner[n]]
    /\ \A b \in batches : \A n \in BatchNodes[b] : nodeOwner[n] = b

\* Every call returns: the order in which callers nest the locks admits no
\* deadlock, and no lock outlives the program that took it.
CallsReturn == \A t \in Threads : pc[t] # "idle" ~> pc[t] = "idle"

Freshly == maintOwner = NoThread /\ maintOwner' # NoThread

\* A batch that a caller reserved and has not released, and that the
\* Coordinator still has pending, blocks maintenance that is not compatible
\* with it (maintenance(), "Active content batch blocks repository maintenance").
HeldBatchBlocksMaintenance ==
    [][Freshly => frontier \notin held \ {Current(maintOwner').batch}]_vars

\* When no commit and no release falls between a thread's read of the
\* frontier and the decision it takes from it, nor inside the call that
\* reserves a batch, ...
Deciding == \E t \in Threads :
    pc[t] \in {"rehydrate", "act"} \/ \E i \in DOMAIN prog[t] : prog[t][i].op = "reserve"
Quiet == Deciding => frontier' = frontier /\ thread' # thread

\* (a thread inside a call being scheduled again: nothing here sleeps)
QuietSpec == Init /\ [][Next /\ Quiet]_vars /\ \A t \in Threads : WF_vars(Step(t))

\* ... fresh maintenance is never granted against the persisted batch.
FrontierBlocksMaintenance ==
    [][Freshly => frontier \in {NoBatch, Current(maintOwner').batch}]_vars
=============================================================================

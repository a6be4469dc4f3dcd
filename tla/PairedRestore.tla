--------------------------- MODULE PairedRestore ---------------------------
(***************************************************************************)
(* Checkpoints of a repository: app/runtime.py, which pairs a snapshot of  *)
(* the runtime kit's store ("ARK") with an archive of the repository's     *)
(* files ("LC"), and services/validation_snapshot/snapshot_restore.py,     *)
(* which writes and restores the archive.                                  *)
(*                                                                         *)
(* Two stores are restored one after the other. A file outside both of     *)
(* them, the interlock, says that a restore began and has not ended; the   *)
(* same restore may then be run again and starts where it stopped.         *)
(*                                                                         *)
(* A version is the number of the step of work that wrote it. `lived` is a *)
(* ghost: the pairs of store and files that the repository had while it    *)
(* worked.                                                                 *)
(***************************************************************************)
EXTENDS Naturals

CONSTANTS
    Files,        \* the managed files of the repository
    Snapshots,    \* checkpoint ids
    StartPaused,  \* server_start_paused
    MaxWork,      \* bound: steps of work
    Partial,      \* a checkpoint directory without its manifest
    None          \* no file, no checkpoint, no interlock, no operation

ASSUME StartAssumption == StartPaused \in BOOLEAN
ASSUME BoundAssumption == MaxWork \in Nat

Contents  == [Files -> Nat \cup {None}]
Pair      == [ark : Nat, lc : Contents]
Interlock == [snap : Snapshots, arkRestored : BOOLEAN]

ASSUME NoneAssumption  == None \notin Nat \cup Interlock

VARIABLES
    ark,        \* the runtime's store
    lc,         \* the repository's files
    indexed,    \* the derived indexes describe lc
    gate,       \* the pause gate is closed
    running,    \* a step of work runs
    clock,      \* steps of work so far
    archive,    \* the checkpoint directory of each id
    interlock,  \* the interlock file
    op,         \* the snapshot or restore that holds maintenance
    lived,      \* ghost: see above
    overtaken   \* ghost: work started behind an interlock

disk == <<ark, lc, indexed, clock, archive, interlock>>
vars == <<disk, gate, running, op, lived, overtaken>>

\* The store while the n-th step runs, and after it has ended.
During(n) == 2 * n
After(n)  == 2 * n + 1

Complete(s) == archive[s] \notin {None, Partial}
Rest(a, c)  == lived' = IF overtaken \/ interlock # None THEN lived
                        ELSE lived \cup {[ark |-> a, lc |-> c]}

Init ==
    /\ ark = 0 /\ clock = 0
    /\ lc \in [Files -> {0, None}] /\ \E f \in Files : lc[f] = 0
    /\ indexed = TRUE
    /\ gate = StartPaused /\ running = FALSE
    /\ archive = [s \in Snapshots |-> None]
    /\ interlock = None /\ op = None
    /\ lived = {[ark |-> ark, lc |-> lc]}
    /\ overtaken = FALSE

----------------------------------------------------------------------------
(* Work. A step is started by a tick, which needs record.lock; an edit of  *)
(* the repository is a transaction, which maintenance refuses.             *)

HoldsRecordLock == op # None /\ op.route

Tick ==
    /\ ~gate /\ ~running /\ ~HoldsRecordLock /\ clock < MaxWork
    /\ running' = TRUE /\ clock' = clock + 1
    /\ ark' = During(clock + 1)
    /\ overtaken' = (overtaken \/ interlock # None)
    /\ UNCHANGED <<lc, indexed, gate, archive, interlock, op, lived>>

\* Mutant: an edit that maintenance does not refuse.
EditUnderMaintenance(f) ==
    /\ running
    /\ \E v \in {clock, None} : lc' = [lc EXCEPT ![f] = v]
    /\ UNCHANGED <<ark, indexed, gate, running, clock, archive, interlock, op, lived, overtaken>>

Edit(f) ==
    /\ running /\ op = None
    /\ \E v \in {clock, None} : lc' = [lc EXCEPT ![f] = v]
    /\ UNCHANGED <<ark, indexed, gate, running, clock, archive, interlock, op, lived, overtaken>>

EndStep ==
    /\ running
    /\ running' = FALSE
    /\ ark' = After(clock)
    /\ Rest(ark', lc)
    /\ UNCHANGED <<lc, indexed, gate, clock, archive, interlock, op, overtaken>>

----------------------------------------------------------------------------
(* The gate                                                                *)

SetGate(closed) ==
    /\ ~HoldsRecordLock
    /\ gate' = closed
    /\ UNCHANGED <<disk, running, op, lived, overtaken>>

Pause == SetGate(TRUE)

\* LeanAdminApi.resume_runtime and semantic_advance read the interlock.
ResumeRuntime == interlock = None /\ SetGate(FALSE)

\* RepoRuntimeRegistry.resume, which the global resume routes call, does not.
RegistryResume == SetGate(FALSE)

----------------------------------------------------------------------------
(* create_repo_stable_point_snapshot, by a route under record.lock or by   *)
(* the hook of a terminal step in its own thread                           *)

At(kind, pc) == op # None /\ op.kind = kind /\ op.pc = pc
Goto(pc)     == op' = [op EXCEPT !.pc = pc]
Stop         == op' = None

\* A complete checkpoint of that id is answered at once.
BeginCreate(s, byRoute) ==
    /\ op = None /\ interlock = None /\ ~Complete(s)
    /\ op' = [kind |-> "create", pc |-> "stable", snap |-> s, route |-> byRoute, ark |-> None]
    /\ UNCHANGED <<disk, gate, running, lived, overtaken>>

CheckStable ==
    /\ At("create", "stable")
    /\ IF running \/ interlock # None THEN Stop ELSE Goto("ark")
    /\ UNCHANGED <<disk, gate, running, lived, overtaken>>

\* Mutant: the runtime store is copied while a step runs.
SnapshotBusyArk ==
    /\ At("create", "ark")
    /\ op' = [op EXCEPT !.pc = "mkdir", !.ark = ark]
    /\ UNCHANGED <<disk, gate, running, lived, overtaken>>

\* create_runtime_snapshot(wait=False) does not wait for a step that started
\* since the check.
SnapshotArk ==
    /\ At("create", "ark")
    /\ IF running THEN Stop ELSE op' = [op EXCEPT !.pc = "mkdir", !.ark = ark]
    /\ UNCHANGED <<disk, gate, running, lived, overtaken>>

\* What an earlier crash left under this id is a conflict.
MakeDirectory ==
    /\ At("create", "mkdir")
    /\ \/ archive[op.snap] = None /\ Goto("copy")
          /\ archive' = [archive EXCEPT ![op.snap] = Partial]
       \/ archive[op.snap] = Partial /\ Stop /\ UNCHANGED archive
    /\ UNCHANGED <<ark, lc, indexed, clock, interlock, gate, running, lived, overtaken>>

\* The files, their manifest and snapshot.json, which makes it complete.
WriteArchive ==
    /\ At("create", "copy")
    /\ Stop
    /\ \E written \in {[ark |-> op.ark, lc |-> lc], None} :
          archive' = [archive EXCEPT ![op.snap] = written]
    /\ UNCHANGED <<ark, lc, indexed, clock, interlock, gate, running, lived, overtaken>>

----------------------------------------------------------------------------
(* restore_repo_checkpoint_snapshot, by a route under record.lock          *)

Target == archive[op.snap]

\* Mutant: the interlock of another restore is taken over.
TakeOverInterlock(s) == interlock' = [snap |-> s, arkRestored |-> interlock # None /\ interlock.arkRestored]

\* _load_or_create_restore_interlock
LoadOrCreateInterlock(s) ==
    /\ interlock # None => interlock.snap = s
    /\ interlock' = IF interlock = None THEN [snap |-> s, arkRestored |-> FALSE] ELSE interlock

\* The runtime must be stable, unless there is an interlock. Maintenance is
\* refused while a transaction runs; here a transaction is one step.
BeginRestore(s, pause, prune) ==
    /\ op = None /\ Complete(s)
    /\ interlock = None => ~running
    /\ LoadOrCreateInterlock(s)
    /\ op' = [kind |-> "restore", pc |-> IF interlock'.arkRestored THEN "files" ELSE "ark",
              snap |-> s, route |-> TRUE, pause |-> pause, 
              todo |-> {f \in Files : prune \/ archive[s].lc[f] # None}]
    /\ UNCHANGED <<ark, lc, indexed, clock, archive, gate, running, lived, overtaken>>

\* Without leave_runtime_paused the kit may reopen the gate it closed.
RestoreArk ==
    /\ At("restore", "ark")
    /\ ark' = Target.ark
    /\ gate' \in IF op.pause THEN {TRUE} ELSE {gate, FALSE}
    /\ Goto("mark")
    /\ UNCHANGED <<lc, indexed, clock, archive, interlock, running, lived, overtaken>>

MarkArk ==
    /\ At("restore", "mark") /\ Goto("files")
    /\ interlock' = [interlock EXCEPT !.arkRestored = TRUE]
    /\ UNCHANGED <<ark, lc, indexed, clock, archive, gate, running, lived, overtaken>>

\* The files that are not in the archive go first, if prune_extra_files is set.
Extra == {f \in op.todo : Target.lc[f] = None}

PruneFile(f) ==
    /\ At("restore", "files") /\ f \in Extra
    /\ lc' = [lc EXCEPT ![f] = None]
    /\ indexed' = (indexed /\ lc' = lc)
    /\ op' = [op EXCEPT !.todo = @ \ {f}]
    /\ UNCHANGED <<ark, clock, archive, interlock, gate, running, lived, overtaken>>

CopyFile(f) ==
    /\ At("restore", "files") /\ Extra = {} /\ f \in op.todo
    /\ lc' = [lc EXCEPT ![f] = Target.lc[f]]
    /\ indexed' = FALSE
    /\ op' = [op EXCEPT !.todo = @ \ {f}]
    /\ UNCHANGED <<ark, clock, archive, interlock, gate, running, lived, overtaken>>

RebuildIndexes ==
    /\ At("restore", "files") /\ op.todo = {}
    /\ indexed' = TRUE
    /\ Goto("unlink")
    /\ UNCHANGED <<ark, lc, clock, archive, interlock, gate, running, lived, overtaken>>

RemoveInterlock ==
    /\ At("restore", "unlink")
    /\ interlock' = None
    /\ Stop
    /\ UNCHANGED <<ark, lc, indexed, clock, archive, gate, running, lived, overtaken>>

\* A half fails, or the interlock cannot be written; a failed ARK restore may
\* have written its store.
FailRestore ==
    /\ op # None /\ op.kind = "restore"
    /\ Stop
    /\ ark' \in IF op.pc = "ark" THEN {ark, Target.ark} ELSE {ark}
    /\ UNCHANGED <<lc, indexed, clock, archive, interlock, gate, running, lived, overtaken>>

----------------------------------------------------------------------------
(* The process ends at any point; the next one loads the runtime.          *)

Crash ==
    /\ running' = FALSE /\ op' = None /\ gate' = StartPaused
    /\ Rest(ark, lc)
    /\ UNCHANGED <<disk, overtaken>>

Work == Tick \/ (\E f \in Files : Edit(f)) \/ EndStep

Create == \/ \E s \in Snapshots, byRoute \in BOOLEAN : BeginCreate(s, byRoute)
          \/ CheckStable \/ SnapshotArk \/ MakeDirectory \/ WriteArchive

Restore == \/ \E s \in Snapshots, pause \in BOOLEAN, prune \in BOOLEAN : BeginRestore(s, pause, prune)
           \/ RestoreArk \/ MarkArk
           \/ \E f \in Files : PruneFile(f) \/ CopyFile(f)
           \/ RebuildIndexes \/ RemoveInterlock \/ FailRestore

Next == Work \/ Pause \/ ResumeRuntime \/ RegistryResume \/ Create \/ Restore \/ Crash

Spec == Init /\ [][Next]_vars

----------------------------------------------------------------------------
CreateOp  == [kind : {"create"}, pc : {"stable", "ark", "mkdir", "copy"},
              snap : Snapshots, route : BOOLEAN, ark : Nat \cup {None}]
RestoreOp == [kind : {"restore"}, pc : {"ark", "mark", "files", "unlink"},
              snap : Snapshots, route : BOOLEAN, pause : BOOLEAN, todo : SUBSET Files]

TypeOK ==
    /\ ark \in Nat /\ clock \in Nat /\ lc \in Contents
    /\ indexed \in BOOLEAN /\ gate \in BOOLEAN
    /\ running \in BOOLEAN /\ overtaken \in BOOLEAN
    /\ archive \in [Snapshots -> Pair \cup {None, Partial}]
    /\ interlock \in Interlock \cup {None}
    /\ op \in CreateOp \cup RestoreOp \cup {None}
    /\ lived \subseteq Pair

\* A state of the two stores is one the repository had in its ordinary life,
\* up to files that a restore without prune_extra_files leaves in place.
Lived(a, c) ==
    \E p \in lived : p.ark = a /\ \A f \in Files : p.lc[f] \in {c[f], None}

\* A paired restore is all or nothing to the work that follows it: with no
\* interlock left, files, runtime and indexes are those of one moment, through
\* failures of either half, crashes, and retries with other options. Only work
\* that ran behind the interlock can break that.
StoresAgree ==
    interlock = None /\ ~overtaken /\ ~running => Lived(ark, lc) /\ indexed

\* A complete checkpoint is one moment of the repository, with no step running,
\* whoever took it and whatever the scheduler started meanwhile.
CheckpointIsOneMoment ==
    ~overtaken => \A s \in Snapshots : Complete(s) =>
        Lived(archive[s].ark, archive[s].lc)

\* The interlock goes away only with its own restore: the files of its
\* checkpoint are back, and a restore that has it cannot be replaced by one of
\* another checkpoint (paired_restore_interlock_conflict).
InterlockEndsItsRestore ==
    [][interlock # None /\ interlock' # interlock =>
         IF interlock' = None
         THEN \A f \in Files : archive[interlock.snap].lc[f] \in {lc[f], None}
         ELSE /\ interlock' = [interlock EXCEPT !.arkRestored = TRUE]
              /\ overtaken \/ ark = archive[interlock.snap].ark]_vars

\* "An interrupted paired restore must be completed before ordinary repository
\* work resumes" (app/runtime.py).
WorkWaitsForRestore == [][~running /\ running' => interlock = None]_vars
=============================================================================

------------------------ MODULE PairedRestoreProofs ------------------------
(***************************************************************************)
(* Proofs about PairedRestore, for any files, checkpoints and amount of    *)
(* work, and for both ways the server may start.                           *)
(***************************************************************************)
EXTENDS PairedRestore, TLAPS

\* While a restore is interrupted, its checkpoint is there, and work that
\* runs has overtaken it; once the runtime half is done it stays done.
Interrupted ==
    interlock # None =>
        /\ Complete(interlock.snap)
        /\ running => overtaken
        /\ interlock.arkRestored => overtaken \/ ark = archive[interlock.snap].ark

\* A snapshot runs with no restore under way. The runtime copy it holds and
\* the files belong together until it has written them.
SnapshotInHand ==
    op # None /\ op.kind = "create" =>
        /\ interlock = None
        /\ op.pc \in {"mkdir", "copy"} =>
              op.ark \in Nat /\ (~overtaken => Lived(op.ark, lc))

\* A restore has the interlock of its own checkpoint, and what it has no
\* longer to do is done.
RestoreInHand ==
    op # None /\ op.kind = "restore" =>
        /\ interlock # None /\ interlock.snap = op.snap
        /\ op.pc = "mark" => overtaken \/ ark = Target.ark
        /\ op.pc \in {"files", "unlink"} => interlock.arkRestored
        /\ \A f \in Files \ op.todo : Target.lc[f] \in {lc[f], None}
        /\ op.pc = "unlink" => op.todo = {} /\ indexed

Consistent ==
    /\ TypeOK
    /\ Interrupted
    /\ SnapshotInHand
    /\ RestoreInHand
    /\ interlock = None => indexed
    /\ StoresAgree
    /\ CheckpointIsOneMoment

\* At first the two stores are one moment, and nothing is under way.
LEMMA InitConsistent == Init => Consistent
<1> SUFFICES ASSUME Init PROVE Consistent OBVIOUS
<1> USE StartAssumption, NoneAssumption DEF Init
<1>1. TypeOK
    <2>1. lc \in Contents BY DEF Contents
    <2>2. lived \subseteq Pair BY <2>1 DEF Pair
    <2> QED BY <2>1, <2>2 DEF TypeOK
<1>2. StoresAgree BY <1>1 DEF StoresAgree, Lived
<1>3. CheckpointIsOneMoment BY DEF CheckpointIsOneMoment, Complete
<1> QED BY <1>1, <1>2, <1>3 DEF Consistent, Interrupted, SnapshotInHand, RestoreInHand

\* A state at rest is remembered, unless an interrupted restore was overtaken.
LEMMA RestLives ==
    ASSUME lived \subseteq Pair, NEW a \in Nat, NEW c \in Contents, Rest(a, c)
    PROVE  /\ lived \subseteq lived' /\ lived' \subseteq Pair
           /\ interlock = None /\ ~overtaken =>
                 \E p \in lived' : p.ark = a /\ p.lc = c
<1> DEFINE now == [ark |-> a, lc |-> c]
<1>1. now \in Pair /\ now.ark = a /\ now.lc = c BY DEF Pair
<1> HIDE DEF now
<1>2. lived' = IF overtaken \/ interlock # None THEN lived ELSE lived \cup {now}
    BY DEF Rest, now
<1> QED BY <1>1, <1>2

\* The invariant does not read the gate.
LEMMA GateConsistent ==
    ASSUME Consistent, NEW closed \in BOOLEAN, SetGate(closed)
    PROVE  Consistent'
<1> USE DEF SetGate, disk, Consistent
<1>1. TypeOK' BY DEF TypeOK
<1>2. StoresAgree' BY DEF StoresAgree, Lived
<1>3. CheckpointIsOneMoment' BY DEF CheckpointIsOneMoment, Lived, Complete
<1>4. Interrupted' BY DEF Interrupted, Complete
<1>5. RestoreInHand' BY DEF RestoreInHand, Target
<1>6. SnapshotInHand' BY DEF SnapshotInHand, Lived
<1> QED BY <1>1, <1>2, <1>3, <1>4, <1>5, <1>6

\* Work: a step that starts behind an interlock is remembered, an edit needs
\* a step and no operation, and the end of a step is a state that was lived.
LEMMA WorkConsistent == ASSUME Consistent, Work PROVE Consistent'
<1> USE NoneAssumption DEF Consistent, Interrupted, SnapshotInHand, RestoreInHand, Target,
       StoresAgree, CheckpointIsOneMoment, Complete, Lived
<1>1. CASE Tick
    <2>1. TypeOK' BY <1>1 DEF Tick, TypeOK, During
    <2> QED BY <1>1, <2>1 DEF Tick
<1>2. ASSUME NEW f \in Files, Edit(f) PROVE Consistent'
    <2>1. TypeOK' BY <1>2 DEF Edit, TypeOK, Contents
    <2> QED BY <1>2, <2>1 DEF Edit
<1>3. CASE EndStep
    <2>1. ark' \in Nat BY <1>3 DEF EndStep, TypeOK, After
    <2>2. lived \subseteq lived' /\ TypeOK'
        BY <1>3, <2>1, RestLives DEF EndStep, TypeOK
    <2>3. StoresAgree' BY <1>3, <2>1, RestLives DEF EndStep, TypeOK
    <2> QED BY <1>3, <2>1, <2>2, <2>3 DEF EndStep
<1> QED BY <1>1, <1>2, <1>3 DEF Work

\* A crash ends the operation and the step of work, and no more.
LEMMA CrashConsistent == ASSUME Consistent, Crash PROVE Consistent'
<1> USE StartAssumption DEF Crash, disk
<1>1. lived \subseteq lived' /\ TypeOK' BY RestLives DEF Consistent, TypeOK
<1>2. lived \subseteq lived' BY <1>1
<1>3. StoresAgree' BY RestLives DEF Consistent, TypeOK, StoresAgree, Lived
<1>4. CheckpointIsOneMoment' BY <1>2 DEF Consistent, CheckpointIsOneMoment, Complete, Lived
<1> QED BY <1>1, <1>3, <1>4
    DEF Consistent, Interrupted, SnapshotInHand, RestoreInHand, Complete

\* A snapshot: what it writes is the runtime at rest and the files that no
\* edit can have changed since.
LEMMA CreateConsistent == ASSUME Consistent, Create PROVE Consistent'
<1> USE NoneAssumption DEF Consistent, Interrupted, SnapshotInHand, RestoreInHand, Target,
       StoresAgree, CheckpointIsOneMoment, Complete, Lived, At, Goto, Stop, disk
<1>1. ASSUME NEW s \in Snapshots, NEW byRoute \in BOOLEAN, BeginCreate(s, byRoute)
      PROVE Consistent'
    <2>1. TypeOK' BY <1>1 DEF BeginCreate, TypeOK, CreateOp
    <2> QED BY <1>1, <2>1 DEF BeginCreate
<1>2. CASE CheckStable
    <2>1. TypeOK' BY <1>2 DEF CheckStable, TypeOK, CreateOp, RestoreOp
    <2> QED BY <1>2, <2>1 DEF CheckStable, TypeOK, CreateOp, RestoreOp
<1>3. CASE SnapshotArk
    <2>1. op \in CreateOp BY <1>3 DEF SnapshotArk, TypeOK, CreateOp, RestoreOp
    <2>2. op' \in CreateOp \cup {None} BY <1>3, <2>1 DEF SnapshotArk, TypeOK, CreateOp
    <2>3. TypeOK' BY <1>3, <2>2 DEF SnapshotArk, TypeOK
    <2> QED BY <1>3, <2>1, <2>3 DEF SnapshotArk, TypeOK, CreateOp
<1>4. CASE MakeDirectory
    <2>1. TypeOK' BY <1>4 DEF MakeDirectory, TypeOK, CreateOp, RestoreOp
    <2> QED BY <1>4, <2>1 DEF MakeDirectory, TypeOK, CreateOp, RestoreOp
<1>5. CASE WriteArchive
    <2>1. TypeOK' BY <1>5 DEF WriteArchive, TypeOK, CreateOp, RestoreOp, Pair
    <2> QED BY <1>5, <2>1 DEF WriteArchive, TypeOK, CreateOp, RestoreOp
<1> QED BY <1>1, <1>2, <1>3, <1>4, <1>5 DEF Create

\* The start of a restore: its interlock names it, and every file that its
\* archive has is still to be done.
LEMMA BeginConsistent ==
    ASSUME Consistent, NEW s \in Snapshots, NEW pause \in BOOLEAN, NEW prune \in BOOLEAN,
           BeginRestore(s, pause, prune)
    PROVE  Consistent'
<1> DEFINE todo == {f \in Files : prune \/ archive[s].lc[f] # None}
<1> USE NoneAssumption DEF Consistent, Complete
<1>1. interlock' \in Interlock /\ interlock'.snap = s
    BY DEF BeginRestore, LoadOrCreateInterlock, TypeOK, Interlock
<1>2. op' \in RestoreOp /\ op'.snap = s /\ op'.todo = todo /\ op'.pc \in {"ark", "files"}
         /\ op'.kind = "restore" /\ (op'.pc = "files" => interlock'.arkRestored)
    BY <1>1 DEF BeginRestore, RestoreOp
<1> HIDE DEF todo
<1>3. TypeOK' BY <1>1, <1>2 DEF BeginRestore, TypeOK
<1>4. Interrupted'
    BY <1>1 DEF Interrupted, BeginRestore, LoadOrCreateInterlock, TypeOK, Interlock
<1>5. RestoreInHand'
    <2>1. \A f \in Files \ todo : archive[s].lc[f] = None BY DEF todo
    <2> QED BY <1>1, <1>2, <2>1 DEF RestoreInHand, Target, BeginRestore
<1>6. SnapshotInHand' BY <1>2 DEF SnapshotInHand
<1>7. StoresAgree' BY <1>1 DEF StoresAgree
<1>8. CheckpointIsOneMoment' BY DEF BeginRestore, CheckpointIsOneMoment, Lived
<1> QED BY <1>1, <1>3, <1>4, <1>5, <1>6, <1>7, <1>8

\* The steps of a restore before the last: the interlock stays, and a file or
\* the runtime, once taken from the archive, is not changed again.
LEMMA RestoreConsistent ==
    ASSUME Consistent,
           \/ RestoreArk \/ MarkArk \/ RebuildIndexes \/ FailRestore
           \/ \E f \in Files : PruneFile(f) \/ CopyFile(f)
    PROVE  Consistent'
<1> USE DEF Consistent, Complete, At, Goto, Stop
<1>0. /\ op \in RestoreOp /\ op.kind = "restore"
      /\ interlock \in Interlock /\ interlock.snap = op.snap
      /\ Complete(op.snap) /\ Target \in Pair /\ overtaken' = overtaken
      /\ archive' = archive /\ lived' = lived /\ running' = running
    BY DEF RestoreArk, MarkArk, RebuildIndexes, FailRestore, PruneFile, CopyFile,
           TypeOK, CreateOp, RestoreOp, RestoreInHand, Interrupted, Target
<1>1. interlock' \in Interlock /\ interlock'.snap = interlock.snap
    BY <1>0 DEF RestoreArk, MarkArk, RebuildIndexes, FailRestore, PruneFile, CopyFile, Interlock
<1>2. StoresAgree' BY <1>1, NoneAssumption DEF StoresAgree
<1>3. CheckpointIsOneMoment' BY <1>0 DEF CheckpointIsOneMoment, Lived
<1> USE <1>0, <1>1, <1>2, <1>3, NoneAssumption
    DEF TypeOK, RestoreOp, Pair, Interlock, Contents, Interrupted, SnapshotInHand, RestoreInHand, Target
<1>4. CASE RestoreArk
    <2>1. TypeOK' BY <1>4 DEF RestoreArk
    <2>2. Interrupted' BY <1>4 DEF RestoreArk
    <2>3. RestoreInHand' /\ SnapshotInHand' BY <1>4 DEF RestoreArk
    <2> QED BY <2>1, <2>2, <2>3
<1>5. CASE MarkArk
    <2>1. TypeOK' BY <1>5 DEF MarkArk
    <2>2. Interrupted' BY <1>5 DEF MarkArk
    <2>3. RestoreInHand' /\ SnapshotInHand' BY <1>5 DEF MarkArk
    <2> QED BY <2>1, <2>2, <2>3
<1>6. CASE RebuildIndexes BY <1>6 DEF RebuildIndexes
<1>7. CASE FailRestore BY <1>7 DEF FailRestore
<1>8. ASSUME NEW f \in Files, PruneFile(f) PROVE Consistent' BY <1>8 DEF PruneFile, Extra
<1>9. ASSUME NEW f \in Files, CopyFile(f) PROVE Consistent'
    <2>1. TypeOK' BY <1>9 DEF CopyFile
    <2>2. Interrupted' BY <1>9 DEF CopyFile
    <2>3. RestoreInHand' /\ SnapshotInHand' BY <1>9 DEF CopyFile
    <2> QED BY <1>9, <2>1, <2>2, <2>3 DEF CopyFile
<1> QED BY <1>4, <1>5, <1>6, <1>7, <1>8, <1>9

\* The end of a restore. Unless it was overtaken, runtime and files are those
\* of its checkpoint, which is a moment that the repository lived.
LEMMA EndConsistent == ASSUME Consistent, RemoveInterlock PROVE Consistent'
<1> USE DEF Consistent, Complete, At, Stop, RemoveInterlock
<1>1. /\ op # None /\ op.kind = "restore" /\ op.snap \in Snapshots
      /\ Complete(op.snap) /\ op.todo = {} /\ indexed
      /\ overtaken \/ ark = Target.ark
      /\ \A f \in Files : Target.lc[f] \in {lc[f], None}
    BY DEF TypeOK, Interlock, CreateOp, RestoreOp, Interrupted, RestoreInHand, Target
<1>2. TypeOK' BY DEF TypeOK
<1>3. StoresAgree'
    <2>1. ~overtaken => Lived(Target.ark, Target.lc) BY <1>1 DEF CheckpointIsOneMoment, Target
    <2> QED BY <1>1, <2>1 DEF StoresAgree, Lived
<1>4. CheckpointIsOneMoment' BY DEF CheckpointIsOneMoment, Lived
<1> QED BY <1>1, <1>2, <1>3, <1>4 DEF Interrupted, SnapshotInHand, RestoreInHand

\* The invariant is inductive.
LEMMA ConsistentInductive == Spec => []Consistent
<1>1. Consistent /\ [Next]_vars => Consistent'
    <2> SUFFICES ASSUME Consistent, [Next]_vars PROVE Consistent' OBVIOUS
    <2>1. CASE Work BY <2>1, WorkConsistent
    <2>2. CASE Pause \/ ResumeRuntime \/ RegistryResume
        BY <2>2, GateConsistent DEF Pause, ResumeRuntime, RegistryResume
    <2>3. CASE Create BY <2>3, CreateConsistent
    <2>4. CASE Restore
        BY <2>4, BeginConsistent, RestoreConsistent, EndConsistent DEF Restore
    <2>5. CASE Crash BY <2>5, CrashConsistent
    <2>6. CASE UNCHANGED vars
        <3> USE <2>6 DEF vars, disk, Consistent
        <3>2. TypeOK' BY DEF TypeOK
        <3>3. StoresAgree' BY DEF StoresAgree, Lived
        <3>4. CheckpointIsOneMoment' BY DEF CheckpointIsOneMoment, Lived, Complete
        <3>5. Interrupted' BY DEF Interrupted, Complete
        <3>6. RestoreInHand' BY DEF RestoreInHand, Target
        <3>7. SnapshotInHand' BY DEF SnapshotInHand, Lived
        <3> QED BY <3>2, <3>3, <3>4, <3>5, <3>6, <3>7
    <2> QED BY <2>1, <2>2, <2>3, <2>4, <2>5, <2>6 DEF Next
<1> QED BY <1>1, InitConsistent, PTL DEF Spec

\* Stores, archives, interlock and operation keep their types.
THEOREM CheckpointTypeCorrect == Spec => []TypeOK
<1>1. Consistent => TypeOK BY DEF Consistent
<1> QED BY <1>1, ConsistentInductive, PTL

\* A paired restore is all or nothing to the work that follows it, through
\* failures of either half, crashes, and retries with other options.
THEOREM RestoreIsAtomic == Spec => []StoresAgree
<1>1. Consistent => StoresAgree BY DEF Consistent
<1> QED BY <1>1, ConsistentInductive, PTL

\* Every complete checkpoint is one moment of the repository with no step
\* running, whoever took it and whatever the scheduler started meanwhile.
THEOREM CheckpointIsConsistent == Spec => []CheckpointIsOneMoment
<1>1. Consistent => CheckpointIsOneMoment BY DEF Consistent
<1> QED BY <1>1, ConsistentInductive, PTL

\* The interlock is removed by its own restore only, with the files of its
\* checkpoint back; any other change of it records that the runtime is back.
THEOREM InterlockIsKept == Spec => InterlockEndsItsRestore
<1> DEFINE Ends ==
        interlock # None /\ interlock' # interlock =>
           IF interlock' = None
           THEN \A f \in Files : archive[interlock.snap].lc[f] \in {lc[f], None}
           ELSE /\ interlock' = [interlock EXCEPT !.arkRestored = TRUE]
                /\ overtaken \/ ark = archive[interlock.snap].ark
<1>1. Consistent /\ [Next]_vars => [Ends]_vars
    <2> SUFFICES ASSUME Consistent, [Next]_vars, interlock # None, interlock' # interlock
                 PROVE  Ends
        OBVIOUS
    <2> USE DEF Consistent
    <2>1. MarkArk \/ RemoveInterlock
        BY DEF Next, vars, disk, Work, Tick, Edit, EndStep, Pause, ResumeRuntime, RegistryResume,
               SetGate, Create, BeginCreate, CheckStable, SnapshotArk, MakeDirectory, WriteArchive,
               Restore, BeginRestore, LoadOrCreateInterlock, RestoreArk, PruneFile, CopyFile,
               RebuildIndexes, FailRestore, Crash
    <2>2. CASE MarkArk
        BY <2>2, NoneAssumption DEF MarkArk, At, Goto, RestoreInHand, Target, TypeOK, Interlock
    <2>3. CASE RemoveInterlock
        BY <2>3 DEF RemoveInterlock, At, RestoreInHand, Target
    <2> QED BY <2>1, <2>2, <2>3
<1> QED BY <1>1, ConsistentInductive, PTL DEF Spec, InterlockEndsItsRestore
=============================================================================

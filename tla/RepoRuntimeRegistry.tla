------------------------ MODULE RepoRuntimeRegistry ------------------------
(***************************************************************************)
(* app/repo_runtime_registry.py for one repository that several server     *)
(* processes have in their workspace: the record each process keeps of it, *)
(* the writer lease they share (a file lock of the operating system) and   *)
(* the scheduler loop that ticks the loaded runtime.                       *)
(*                                                                         *)
(* Each operation runs under record.lock, so within one process it is one  *)
(* step; a load is two, since the other processes can be refused between   *)
(* the lease and the end of the load.                                      *)
(***************************************************************************)
CONSTANTS
    Servers,      \* server processes
    NoServer,     \* the file lock is free
    StartPaused   \* server_start_paused

ASSUME ServerAssumption == NoServer \notin Servers
ASSUME StartAssumption  == StartPaused \in BOOLEAN

VARIABLES
    state,   \* record.state
    loaded,  \* record.runtime is set
    gate,    \* the runtime's pause controller is closed
    work,    \* agents or steps run in the process
    writer,  \* the process whose record.writer_lease holds the file lock
    dropped  \* ghost: the runtime was dropped although agents or steps ran

registryVars == <<state, loaded, gate, work, writer, dropped>>

RegistryInit ==
    /\ state = [s \in Servers |-> "unloaded"]
    /\ loaded = [s \in Servers |-> FALSE]
    /\ gate = [s \in Servers |-> FALSE]
    /\ work = [s \in Servers |-> FALSE]
    /\ writer = NoServer
    /\ dropped = [s \in Servers |-> FALSE]

Loading(s) == state[s] = "loading"
StateOf(closed) == IF closed THEN "paused" ELSE "active"

----------------------------------------------------------------------------
(* _get_or_load_record                                                     *)

AcquireLease(s) ==
    /\ ~loaded[s] /\ ~Loading(s) /\ writer = NoServer
    /\ writer' = s
    /\ state' = [state EXCEPT ![s] = "loading"]
    /\ UNCHANGED <<loaded, gate, work, dropped>>

\* Mutant: the conflicting load breaks the lock it found.
BreakLease(s) ==
    /\ ~loaded[s] /\ ~Loading(s) /\ writer # NoServer
    /\ state' = [state EXCEPT ![s] = "failed"]
    /\ writer' = NoServer
    /\ UNCHANGED <<loaded, gate, work, dropped>>

\* The file lock is taken: the handler of the exception releases the lease
\* the record has, if it has one.
WriterConflict(s) ==
    /\ ~loaded[s] /\ ~Loading(s) /\ writer # NoServer
    /\ state' = [state EXCEPT ![s] = "failed"]
    /\ writer' = IF writer = s THEN NoServer ELSE writer
    /\ UNCHANGED <<loaded, gate, work, dropped>>

\* get_or_load starts as configured, get_or_load_paused with a closed gate.
FinishLoad(s, closed) ==
    /\ Loading(s)
    /\ loaded' = [loaded EXCEPT ![s] = TRUE]
    /\ gate' = [gate EXCEPT ![s] = closed]
    /\ state' = [state EXCEPT ![s] = StateOf(closed)]
    /\ UNCHANGED <<work, writer, dropped>>

\* The agent homes could not be written: a result, not an exception.
HomesFail(s) ==
    /\ Loading(s)
    /\ state' = [state EXCEPT ![s] = "failed"]
    /\ UNCHANGED <<loaded, gate, work, writer, dropped>>

LoadRaises(s) ==
    /\ Loading(s)
    /\ state' = [state EXCEPT ![s] = "failed"]
    /\ writer' = NoServer
    /\ UNCHANGED <<loaded, gate, work, dropped>>

\* A call that finds the runtime loaded: a failed record is back in service,
\* or refreshing its homes fails it.
FindLoaded(s) ==
    /\ loaded[s]
    /\ state' = [state EXCEPT ![s] = IF state[s] = "failed" THEN StateOf(gate[s]) ELSE state[s]]
    /\ UNCHANGED <<loaded, gate, work, writer, dropped>>

RefreshFails(s) ==
    /\ loaded[s]
    /\ state' = [state EXCEPT ![s] = "failed"]
    /\ UNCHANGED <<loaded, gate, work, writer, dropped>>

----------------------------------------------------------------------------
(* unload, shutdown_all and the end of a process                           *)

\* Mutant: unload does not ask whether the runtime is stable.
UnloadBusy(s) ==
    /\ loaded[s]
    /\ loaded' = [loaded EXCEPT ![s] = FALSE]
    /\ gate' = [gate EXCEPT ![s] = FALSE]
    /\ writer' = NoServer
    /\ state' = [state EXCEPT ![s] = "unloaded"]
    /\ UNCHANGED <<work, dropped>>

UnloadRuntime(s) ==
    /\ loaded[s] /\ ~work[s]
    /\ loaded' = [loaded EXCEPT ![s] = FALSE]
    /\ gate' = [gate EXCEPT ![s] = FALSE]
    /\ writer' = NoServer
    /\ state' = [state EXCEPT ![s] = "unloaded"]
    /\ UNCHANGED <<work, dropped>>

\* Without a runtime, unload only writes the state.
UnloadNothing(s) ==
    /\ ~loaded[s] /\ ~Loading(s)
    /\ state' = [state EXCEPT ![s] = "unloaded"]
    /\ UNCHANGED <<loaded, gate, work, writer, dropped>>

\* unload by force, and shutdown_all, do not look at what still runs.
Drop(s, next) ==
    /\ loaded' = [loaded EXCEPT ![s] = FALSE]
    /\ gate' = [gate EXCEPT ![s] = FALSE]
    /\ writer' = IF writer = s THEN NoServer ELSE writer
    /\ state' = [state EXCEPT ![s] = next]
    /\ dropped' = [dropped EXCEPT ![s] = dropped[s] \/ work[s]]
    /\ UNCHANGED work

ForceUnload(s) == loaded[s] /\ Drop(s, "unloaded")
ShutdownAll(s) == ~Loading(s) /\ Drop(s, IF state[s] = "failed" THEN "failed" ELSE "unloaded")

\* The operating system frees the lock of a process that ends.
Crash(s) ==
    /\ loaded' = [loaded EXCEPT ![s] = FALSE]
    /\ gate' = [gate EXCEPT ![s] = FALSE]
    /\ work' = [work EXCEPT ![s] = FALSE]
    /\ dropped' = [dropped EXCEPT ![s] = FALSE]
    /\ writer' = IF writer = s THEN NoServer ELSE writer
    /\ state' = [state EXCEPT ![s] = "unloaded"]

----------------------------------------------------------------------------
(* pause, resume and semantic advance, and the scheduler loop              *)

SetGate(s, closed) == gate' = [gate EXCEPT ![s] = closed]
Publish(s, next)   == state' = [state EXCEPT ![s] = next]

Pause(s) ==
    /\ loaded[s]
    /\ SetGate(s, TRUE) /\ Publish(s, "paused")
    /\ UNCHANGED <<loaded, work, writer, dropped>>

\* Mutant: the gate opens and the record keeps its state.
ResumeGateOnly(s) ==
    /\ loaded[s]
    /\ SetGate(s, FALSE)
    /\ UNCHANGED <<state, loaded, work, writer, dropped>>

Resume(s) ==
    /\ loaded[s]
    /\ SetGate(s, FALSE) /\ Publish(s, "active")
    /\ UNCHANGED <<loaded, work, writer, dropped>>

\* The queues could not be rebuilt: the gate goes back to what it was.
ResumeFails(s) ==
    /\ loaded[s]
    /\ Publish(s, StateOf(gate[s]))
    /\ UNCHANGED <<loaded, gate, work, writer, dropped>>

\* A semantic run starts only from a closed gate and no running step; if its
\* admission fails the gate is closed again and the record left alone.
SemanticAdvance(s) ==
    /\ loaded[s] /\ gate[s] /\ ~work[s]
    /\ SetGate(s, FALSE) /\ Publish(s, "active")
    /\ UNCHANGED <<loaded, work, writer, dropped>>

\* A paired restore closes the gate and leaves the record alone.
RestoreSnapshot(s) ==
    /\ loaded[s]
    /\ SetGate(s, TRUE)
    /\ UNCHANGED <<state, loaded, work, writer, dropped>>

\* One tick of run_registry_scheduler_loop: it starts work behind an open
\* gate, or the run's budget or policy closes the gate.
Tick(s) ==
    /\ loaded[s] /\ state[s] = "active"
    /\ \/ ~gate[s] /\ work' = [work EXCEPT ![s] = TRUE] /\ UNCHANGED <<state, gate>>
       \/ SetGate(s, TRUE) /\ Publish(s, "paused") /\ UNCHANGED work
    /\ UNCHANGED <<loaded, writer, dropped>>

\* mark_failed: the tick raised.
MarkFailed(s) ==
    /\ loaded[s] /\ state[s] = "active"
    /\ Publish(s, "failed")
    /\ UNCHANGED <<loaded, gate, work, writer, dropped>>

\* The last running agent or step ends.
WorkEnds(s) ==
    /\ work[s]
    /\ work' = [work EXCEPT ![s] = FALSE]
    /\ dropped' = [dropped EXCEPT ![s] = FALSE]
    /\ UNCHANGED <<state, loaded, gate, writer>>

Load(s) == \/ AcquireLease(s) \/ WriterConflict(s)
           \/ \E closed \in {StartPaused, TRUE} : FinishLoad(s, closed)
           \/ HomesFail(s) \/ LoadRaises(s) \/ FindLoaded(s) \/ RefreshFails(s)

Leave(s) == UnloadRuntime(s) \/ UnloadNothing(s) \/ ForceUnload(s) \/ ShutdownAll(s) \/ Crash(s)

Control(s) == \/ Pause(s) \/ Resume(s) \/ ResumeFails(s) \/ SemanticAdvance(s)
              \/ RestoreSnapshot(s)
              \/ Tick(s) \/ MarkFailed(s) \/ WorkEnds(s)

RegistryNext == \E s \in Servers : Load(s) \/ Leave(s) \/ Control(s)

RegistrySpec == RegistryInit /\ [][RegistryNext]_registryVars


----------------------------------------------------------------------------
\* Types, and a record is active or paused only while it has a runtime.
RegistryTypeOK ==
    /\ state \in [Servers -> {"unloaded", "loading", "active", "paused", "failed"}]
    /\ loaded \in [Servers -> BOOLEAN]
    /\ gate \in [Servers -> BOOLEAN]
    /\ work \in [Servers -> BOOLEAN]
    /\ writer \in Servers \cup {NoServer}
    /\ dropped \in [Servers -> BOOLEAN]
    /\ \A s \in Servers : /\ loaded[s] => state[s] \in {"active", "paused", "failed"}
                          /\ state[s] \in {"active", "paused"} => loaded[s]

\* Agents and steps run only in the process that holds the writer lease,
\* through failed loads, conflicts, unloads and crashes of every process; the
\* exception is work an operator's force or a shutdown left behind.
WorkHoldsLease == \A s \in Servers : work[s] => writer = s \/ dropped[s]

\* A loaded runtime, and one being loaded, has the lease: no two processes
\* write the repository (RepoRuntimeWriterLease).
SoleWriter == \A s \in Servers : loaded[s] \/ Loading(s) => writer = s

\* The record and the pause controller agree where the scheduler loop relies
\* on it: a loaded record that is marked paused has a closed gate, so opening
\* the gate never leaves a repository that no tick looks at.
PausedMeansClosed == \A s \in Servers : loaded[s] /\ state[s] = "paused" => gate[s]

\* A load is refused with "A writable LC runtime already owns repository root"
\* only while some process has such a runtime, or is loading it.
ConflictNamesAWriter ==
    [][\A s \in Servers : WriterConflict(s) => \E t \in Servers : loaded[t] \/ Loading(t)]_registryVars
=============================================================================

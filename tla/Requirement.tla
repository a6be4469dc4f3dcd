---------------------------- MODULE Requirement ----------------------------
(***************************************************************************)
(* A consumer repository asks a provider repository for interfaces and     *)
(* waits for the release that offers them:                                 *)
(* services/repo_workspace/repo_requirement.py and repo_preparation.py,    *)
(* the reconciliation of release_finalizer.py, the Coordinator's resume    *)
(* gate in flows/coordinator/, and the operator's routes in                *)
(* app/admin_api.py.                                                       *)
(*                                                                         *)
(* A requirement is one file of the consumer.  Its Coordinator, the        *)
(* provider's release commit and the operator each change it by loading    *)
(* the record, changing it and saving it whole; nothing keeps one of them  *)
(* out between the load and the save of another.  One server process       *)
(* runs them all and may end at any point.                                 *)
(*                                                                         *)
(* A requirement asks for one interface, which has its name.  Releases of  *)
(* the provider are numbered in order; 0 stands for none.                  *)
(***************************************************************************)
EXTENDS Naturals

CONSTANTS
    Names,        \* requirements of the consumer for the provider
    MaxReleases,  \* bound: releases of the provider
    MaxCrashes,   \* bound: ends of the process
    None

Releases == 1..MaxReleases
Record   == [status : {"open", "satisfied", "handled"}, asks : BOOLEAN,
             submitted : BOOLEAN, observed : BOOLEAN, release : 0..MaxReleases]

ASSUME BoundAssumption == MaxReleases \in Nat \ {0} /\ MaxCrashes \in Nat
ASSUME NoneAssumption  == None \notin Names \cup Record

VARIABLES
    file,      \* the requirement files of the consumer
    flow,      \* the consumer's Coordinator
    dep,       \* the release the consumer's lakefile pins
    provider,  \* its publication and its preparation input
    offers,    \* the public interfaces of each of its releases
    draft,     \* a preparation input drafted by the bootstrap request
    rec,       \* the reconciliations in progress
    resume,    \* the operator's resume request in progress
    crashes,
    raced      \* ghost: requirements saved by one who had not seen the last save

vars == <<file, flow, dep, provider, offers, draft, rec, resume, crashes, raced>>

NewRecord   == [status |-> "open", asks |-> FALSE, submitted |-> FALSE,
                observed |-> FALSE, release |-> 0]
\* Who reconciles: the commit of a release once it is made, or the operator.
Callers     == {"commit", "operator"}
Idle        == [phase |-> "agent", name |-> None, mem |-> None]
Failed      == [phase |-> "failed", name |-> None, mem |-> None]

Phases     == {"agent", "create", "add", "mark", "waiting", "gate", "attach", "handle", "recheck", "failed"}
Flow       == [phase : Phases, name : Names \cup {None}, mem : Record \cup {None}]
Provider   == [status : {"absent", "developing", "stable"}, latest : 0..MaxReleases,
               refs : SUBSET Names, wants : SUBSET Names]
Draft      == [refs : SUBSET Names, wants : SUBSET Names]
Reconciler == [release : Releases, todo : SUBSET Names, name : Names \cup {None},
               call : {"satisfy", "record"}, seen : Record \cup {None}, mem : Record \cup {None}]

TypeOK ==
    /\ file \in [Names -> Record \cup {None}]
    /\ flow \in Flow
    /\ dep \in 0..MaxReleases
    /\ provider \in Provider
    /\ offers \in [Releases -> SUBSET Names]
    /\ draft \in Draft \cup {None}
    /\ rec \in [Callers -> Reconciler \cup {None}]
    /\ resume \in [name : Names, mem : Record] \cup {None}
    /\ crashes \in 0..MaxCrashes
    /\ raced \in SUBSET Names

Init ==
    /\ file = [n \in Names |-> None]
    /\ flow = Idle
    /\ dep = 0
    /\ provider = [status |-> "absent", latest |-> 0, refs |-> {}, wants |-> {}]
    /\ offers = [r \in Releases |-> {}]
    /\ draft = None /\ rec = [c \in Callers |-> None] /\ resume = None
    /\ crashes = 0 /\ raced = {}

Exists(n)  == file[n] # None
Open       == {n \in Names : Exists(n) /\ file[n].status = "open"}
Settled(r) == r.status \in {"satisfied", "handled"}
Waiting(r) == r.submitted /\ ~r.observed /\ r.status # "handled"

\* validate_requirement_provider_truth reads the provider's latest release.
\* Mutant: interfaces are not compared.
StableIsEnough(n) == provider.status = "stable"

TruthHolds(n) ==
    /\ provider.status = "stable"
    /\ file[n].asks => n \in offers[provider.latest]

\* _save writes the whole record that was loaded as `seen`.
Save(n, seen, new) ==
    /\ file' = [file EXCEPT ![n] = new]
    /\ raced' = IF file[n] = seen THEN raced ELSE raced \cup {n}

---------------------------------------------------------------------------
(* The Coordinator asks.  The requirement is created, completed and marked *)
(* as waiting after its turn has ended; it is new, so no one has answered  *)
(* it or waits for it when it is marked.                                   *)

At(phase) == flow.phase = phase
Goto(phase) == flow' = [flow EXCEPT !.phase = phase, !.mem = None]
Load(n)   == flow' = [flow EXCEPT !.mem = file[n]]
Loaded(phase) == At(phase) /\ flow.mem # None
NotLoaded(phase) == At(phase) /\ flow.mem = None

FlowFrame     == UNCHANGED <<dep, provider, offers, draft, rec, resume, crashes>>
FlowReads     == FlowFrame /\ UNCHANGED <<file, raced>>

SubmitRequirement(n) ==
    /\ At("agent") /\ ~Exists(n)
    /\ flow' = [phase |-> "create", name |-> n, mem |-> None]
    /\ FlowReads

CreateRequirement ==
    /\ At("create")
    /\ IF Exists(flow.name)
       THEN flow' = Failed /\ UNCHANGED file
       ELSE Goto("add") /\ file' = [file EXCEPT ![flow.name] = NewRecord]
    /\ UNCHANGED raced /\ FlowFrame

LoadOpen ==
    /\ NotLoaded("add")
    /\ IF flow.name \in Open THEN Load(flow.name) ELSE flow' = Failed
    /\ FlowReads

AddInterface ==
    /\ Loaded("add")
    /\ Save(flow.name, flow.mem, [flow.mem EXCEPT !.asks = TRUE])
    /\ Goto("mark") /\ FlowFrame

LoadForWaiting ==
    /\ NotLoaded("mark")
    /\ Load(flow.name) /\ FlowReads

MarkWaiting ==
    /\ Loaded("mark")
    /\ Save(flow.name, flow.mem, [flow.mem EXCEPT !.submitted = TRUE, !.observed = FALSE])
    /\ Goto("waiting") /\ FlowFrame

---------------------------------------------------------------------------
(* The Coordinator is resumed: it leaves its wait when the result has been *)
(* observed, and the gate attaches the provider and handles the            *)
(* requirement.  The gate is a step, so no maintenance runs beside it.     *)

\* Mutant: satisfied is left out.
HandledOnly(r) == r.status = "handled" /\ r.observed

Resumable(r) == Settled(r) /\ r.observed

ExitWaiting ==
    /\ At("waiting") /\ Resumable(file[flow.name])
    /\ Goto("gate") /\ FlowReads

ResumeGate ==
    /\ At("gate") /\ resume = None
    /\ flow' = IF ~Resumable(file[flow.name]) THEN [flow EXCEPT !.phase = "waiting"]
               ELSE IF TruthHolds(flow.name) THEN [flow EXCEPT !.phase = "attach"]
               ELSE Failed
    /\ FlowReads

\* attach_provider_for_requirement: the lakefile is left as it is when it
\* already pins the provider, and is put back when the lake update fails.
\* Mutant: the failed attachment is not reported.
HandleAnyway == Goto("handle")

AttachFails  == flow' = Failed
AttachProvider ==
    /\ At("attach")
    /\ \/ /\ Settled(file[flow.name]) /\ TruthHolds(flow.name)
          /\ dep' = IF dep = 0 THEN file[flow.name].release ELSE dep
          /\ Goto(IF file[flow.name].status = "satisfied" THEN "handle" ELSE "recheck")
       \/ /\ ~(Settled(file[flow.name]) /\ TruthHolds(flow.name)) \/ dep = 0
          /\ AttachFails /\ UNCHANGED dep
    /\ UNCHANGED <<file, provider, offers, draft, rec, resume, crashes, raced>>

LoadSatisfied ==
    /\ NotLoaded("handle")
    /\ IF file[flow.name].status = "satisfied" THEN Load(flow.name) ELSE flow' = Failed
    /\ FlowReads

MarkHandled ==
    /\ Loaded("handle")
    /\ Save(flow.name, flow.mem, [flow.mem EXCEPT !.status = "handled"])
    /\ Goto("recheck") /\ FlowFrame

\* The gate reads everything again before it lets the Coordinator go on.
Recheck ==
    /\ At("recheck")
    /\ flow' = IF file[flow.name].status = "handled" /\ file[flow.name].observed /\ dep # 0
               THEN Idle ELSE Failed
    /\ FlowReads

\* attach_ready_workspace_repo_dependency, a tool of the Coordinator.
AttachReady ==
    /\ At("agent") /\ provider.status = "stable" /\ dep = 0
    /\ dep' = provider.latest
    /\ UNCHANGED <<file, flow, provider, offers, draft, rec, resume, crashes, raced>>

\* An operator starts another Coordinator after one has failed.
StartCoordinator == At("failed") /\ flow' = Idle /\ FlowReads

---------------------------------------------------------------------------
(* The provider: bootstrapped from the open requirements, released, and    *)
(* continued with further interfaces.                                      *)

ProviderFrame == UNCHANGED <<file, flow, dep, resume, crashes, raced>>

\* aggregate_requirement_group and build_preparation_input_from_group.
DraftFromGroup ==
    /\ draft = None /\ provider.status = "absent" /\ Open # {}
    /\ draft' = [refs |-> Open, wants |-> {n \in Open : file[n].asks}]
    /\ UNCHANGED <<provider, offers, rec>> /\ ProviderFrame

\* prepare_provider_repo_shell creates the repository.  It aggregates the
\* group again, for the provider's completion mode, and keeps the draft.
PrepareShell ==
    /\ draft # None
    /\ provider' = [status |-> "developing", latest |-> 0,
                    refs |-> draft.refs, wants |-> draft.wants]
    /\ draft' = None
    /\ UNCHANGED <<offers, rec>> /\ ProviderFrame

Locked == rec["operator"] # None  \* the lifecycle lock, between two actions

StartOf(r) == [release |-> r, todo |-> provider.refs, name |-> None, call |-> "satisfy",
               seen |-> None, mem |-> None]

\* check_scope_contract_candidate: what a release offered stays offered.
\* Mutant: the guard of released interfaces is dropped.
ForgetReleased == {}

Released == UNION {offers[r] : r \in 1..provider.latest}

\* The candidate offers what the preparation requires and what was released.
\* The commit reconciles when it has given the lifecycle lock back; it ends
\* before the provider's next project does.
Release ==
    /\ provider.status = "developing" /\ ~Locked /\ rec["commit"] = None
    /\ LET r == provider.latest + 1
       IN /\ \E extra \in SUBSET Names :
                 offers' = [offers EXCEPT ![r] = provider.wants \cup Released \cup extra]
          /\ provider' = [provider EXCEPT !.status = "stable", !.latest = r]
          /\ rec' = [rec EXCEPT !["commit"] = StartOf(r)]
    /\ UNCHANGED draft /\ ProviderFrame

\* apply_native_run, under the lifecycle lock.
ContinueProvider ==
    /\ provider.status = "stable" /\ ~Locked
    /\ provider.latest < MaxReleases  \* bound
    /\ \E more \in SUBSET Names :
           provider' = [provider EXCEPT !.status = "developing", !.wants = @ \cup more]
    /\ UNCHANGED <<offers, draft, rec>> /\ ProviderFrame

\* reconcile_repo_requirements, the operator's route, under the lock.
Reconcile ==
    /\ provider.status = "stable" /\ ~Locked
    /\ rec' = [rec EXCEPT !["operator"] = StartOf(provider.latest)]
    /\ UNCHANGED <<provider, offers, draft>> /\ ProviderFrame

---------------------------------------------------------------------------
(* reconcile_provider_requirements: for each requirement of the            *)
(* preparation input, read it, decide, and load it again to change it.     *)

Running(c) == rec[c] # None
Current(c) == rec[c].name
NextRef(c) == rec' = [rec EXCEPT ![c].todo = @ \ {Current(c)}, ![c].name = None, ![c].mem = None]
RecFrame   == UNCHANGED <<flow, dep, provider, offers, draft, resume, crashes>>

Decide(c, n, call) ==
    rec' = [rec EXCEPT ![c].name = n, ![c].call = call, ![c].seen = file[n]]

CheckRef(c) ==
    /\ Running(c) /\ Current(c) = None /\ rec[c].todo # {}
    /\ LET n == CHOOSE n \in rec[c].todo : TRUE
       IN IF Settled(file[n]) /\ file[n].release # rec[c].release THEN Decide(c, n, "record")
          ELSE IF n \in Open /\ TruthHolds(n) THEN Decide(c, n, "satisfy")
          ELSE rec' = [rec EXCEPT ![c].todo = @ \ {n}]
    /\ UNCHANGED <<file, raced>> /\ RecFrame

\* What mark_requirement_satisfied and record_requirement_provider_release
\* accept of the record they load.
Accepts(call) == IF call = "satisfy" THEN {"open", "satisfied"} ELSE {"satisfied", "handled"}

LoadRef(c) ==
    /\ Running(c) /\ Current(c) # None /\ rec[c].mem = None
    /\ IF file[Current(c)].status \in Accepts(rec[c].call)
       THEN rec' = [rec EXCEPT ![c].mem = file[Current(c)]]
       ELSE NextRef(c)
    /\ raced' = IF file[Current(c)] = rec[c].seen THEN raced ELSE raced \cup {Current(c)}
    /\ UNCHANGED file /\ RecFrame

SaveRef(c) ==
    /\ Running(c) /\ rec[c].mem # None
    /\ Save(Current(c), rec[c].mem,
            [rec[c].mem EXCEPT !.status = IF rec[c].call = "satisfy" THEN "satisfied" ELSE @,
                               !.release = rec[c].release])
    /\ NextRef(c) /\ RecFrame

ReconcileDone(c) ==
    /\ Running(c) /\ rec[c].todo = {}
    /\ rec' = [rec EXCEPT ![c] = None]
    /\ UNCHANGED <<file, raced>> /\ RecFrame

---------------------------------------------------------------------------
(* resume_requirement: the operator's route, with the consumer in          *)
(* maintenance, for a Coordinator that waits for the requirement.          *)

\* list_resume_candidates_for_requirement offers these to the operator.
ResumeCandidate(n) == Waiting(file[n]) /\ file[n].status = "satisfied" /\ TruthHolds(n)

LoadForResume(n) ==
    /\ resume = None /\ flow.phase \in {"waiting", "gate"} /\ flow.name = n
    /\ ResumeCandidate(n)
    /\ resume' = [name |-> n, mem |-> file[n]]
    /\ UNCHANGED <<file, flow, dep, provider, offers, draft, rec, crashes, raced>>

MarkObserved ==
    /\ resume # None
    /\ Save(resume.name, resume.mem, [resume.mem EXCEPT !.observed = TRUE])
    /\ resume' = None
    /\ UNCHANGED <<flow, dep, provider, offers, draft, rec, crashes>>

---------------------------------------------------------------------------
\* The server ends: the flow store has the turn that was accepted and the
\* step that ran, and both are run again.
Crash ==
    /\ crashes < MaxCrashes  \* bound
    /\ crashes' = crashes + 1
    /\ draft' = None /\ rec' = [c \in Callers |-> None] /\ resume' = None
    /\ flow' = [flow EXCEPT !.mem = None, !.phase =
                   IF @ \in {"create", "add", "mark"} THEN "create"
                   ELSE IF @ \in {"attach", "handle", "recheck"} THEN "gate" ELSE @]
    /\ UNCHANGED <<file, dep, provider, offers, raced>>

Ask == CreateRequirement \/ LoadOpen \/ AddInterface \/ LoadForWaiting \/ MarkWaiting
Resume == ExitWaiting \/ ResumeGate \/ AttachProvider \/ LoadSatisfied \/ MarkHandled \/ Recheck
ReconcileStep(c) == CheckRef(c) \/ LoadRef(c) \/ SaveRef(c) \/ ReconcileDone(c)
ResumeRequest == (\E n \in Names : LoadForResume(n)) \/ MarkObserved

Next ==
    \/ \E n \in Names : SubmitRequirement(n)
    \/ Ask \/ Resume \/ AttachReady \/ StartCoordinator
    \/ DraftFromGroup \/ PrepareShell \/ Release \/ ContinueProvider \/ Reconcile
    \/ \E c \in Callers : ReconcileStep(c)
    \/ ResumeRequest
    \/ Crash

\* The scheduler advances the flow and a thread that has begun goes on; the
\* provider's project is finished; the operator reconciles a stable provider
\* and resumes what is listed as a candidate.
Fairness ==
    /\ WF_vars(Ask) /\ WF_vars(Resume) /\ WF_vars(MarkObserved)
    /\ \A c \in Callers : WF_vars(ReconcileStep(c))
    /\ WF_vars(Release) /\ WF_vars(Reconcile) /\ WF_vars(ResumeRequest)

Spec == Init /\ [][Next]_vars /\ Fairness

---------------------------------------------------------------------------
\* A requirement that counts as answered names a release that exists and
\* offers what it asks for, at whatever later release it is recorded,
\* unless one who changed it had not seen the last change.
SatisfiedByARelease ==
    \A n \in Names \ raced :
        Exists(n) /\ Settled(file[n]) =>
            /\ file[n].release \in 1..provider.latest
            /\ file[n].asks => n \in offers[file[n].release]

\* A requirement is handled only when the provider is a dependency of the
\* consumer, whatever is lost between the three who save it.
HandledMeansAttached == \A n \in Names : Exists(n) /\ file[n].status = "handled" => dep # 0

\* A Coordinator goes on from its wait with a dependency that offers the
\* interface it asked for, also when the process ended inside the gate or
\* the provider has moved on.
ResumedOnItsRelease ==
    [][At("recheck") /\ At("agent")' /\ flow.name \notin raced
         => dep # 0 /\ flow.name \in offers[dep]]_vars

\* A Coordinator does not wait for ever for an interface its provider was
\* prepared to offer, although the process may end after the release and
\* before the reconciliation, unless a change of its requirement was lost.
WaitIsAnswered ==
    \A n \in Names :
        (At("waiting") /\ flow.name = n /\ n \in provider.refs \cap provider.wants)
            ~> (flow.name # n \/ n \in raced)
===========================================================================

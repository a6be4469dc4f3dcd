--------------------------- MODULE CoordinatorFlow ---------------------------
(***************************************************************************)
(* flows/coordinator: the flow that drives one native repository.  It runs *)
(* one step at a time: an agent's turn, then the snapshot, dispatch, wait  *)
(* and callback of whatever that turn submitted, or the release.           *)
(*                                                                         *)
(* The runtime kit around it is outside src/ and modelled from how the     *)
(* flow uses it: it creates the step create_next_step asks for, commits    *)
(* on_step_terminal with the step's result, and runs the hook              *)
(* after_step_terminal_stable in a step of its own after that commit.      *)
(*                                                                         *)
(* A step is identified by the number of steps created before it and       *)
(* itself; 0 stands for None.                                              *)
(***************************************************************************)
EXTENDS Naturals, FiniteSets

CONSTANTS
    Children,            \* child flows one dispatch may create
    CheckpointsEnabled,  \* repo_flow_boundary_checkpoints_enabled
    MaxSteps             \* bound: steps the flow creates

ASSUME ChildAssumption == Children # {} /\ CheckpointsEnabled \in BOOLEAN
ASSUME StepAssumption  == MaxSteps \in Nat

VARIABLES
    flow,      \* the persisted flow: status, error and its state's fields
    step,      \* the current step (current_step_id), or NoStep
    last,      \* the latest terminal step (step_ids[-1]) and its result
    hook,      \* after_step_terminal_stable still has to run for it
    running,   \* <<d, c>>: child c of dispatch step d is not terminal
    lineage,   \* the dispatch steps: what each dispatched, and from where
    plan,      \* the initial exploration plan step, once it has planned
    delivered, \* ghost: dispatches a callback step was created for
    observed,  \* the awaited requirement is satisfied and its result seen
    published, \* the repository's publication is stable with this release
    clock      \* steps created so far

vars == <<flow, step, last, hook, running, lineage, plan, delivered, observed, published, clock>>

StepIds == 1..MaxSteps
Kinds   == {"content_tasks", "resource_request", "repo_exploration"}
NoStep  == [id |-> 0, type |-> "none", mode |-> "none", callback |-> 0]

WaitingPhases == {"waiting_content_tasks", "waiting_resource_request", "waiting_repo_exploration"}
Phases == {"initial_repo_exploration_plan", "coordinator_agent", "coordinator_callback",
           "before_content_task_dispatch_snapshot", "before_resource_request_dispatch_snapshot",
           "before_repo_exploration_dispatch_snapshot", "ensure_repo_exploration_agents",
           "dispatch_content_tasks", "dispatch_resource_request", "dispatch_repo_exploration",
           "after_content_task_batch_snapshot", "after_resource_request_terminal_snapshot",
           "after_repo_exploration_terminal_snapshot", "waiting_requirement", "requirement_resume_gate",
           "coordinator_requirement_resume", "mark_repo_ready", "completed"} \cup WaitingPhases

SnapshotPhases == {"before_content_task_dispatch_snapshot", "before_resource_request_dispatch_snapshot",
                   "before_repo_exploration_dispatch_snapshot", "after_content_task_batch_snapshot",
                   "after_resource_request_terminal_snapshot", "after_repo_exploration_terminal_snapshot"}
AgentPhases    == {"coordinator_agent", "coordinator_callback", "coordinator_requirement_resume"}
DispatchPhases == {"dispatch_content_tasks", "dispatch_resource_request", "dispatch_repo_exploration"}

\* build_from_request: a fresh repository plans its explorations first.
Init ==
    /\ \E p \in {"initial_repo_exploration_plan", "coordinator_agent"} :
          flow = [phase |-> p, status |-> "running", error |-> "none", kind |-> "none",
                  source |-> 0, dispatch |-> 0, awaiting |-> FALSE, summary |-> FALSE]
    /\ step = NoStep
    /\ last = [id |-> 0, type |-> "none", mode |-> "none", callback |-> 0, outcome |-> "none",
               at |-> "none", recorded |-> FALSE]
    /\ hook = FALSE
    /\ running = {} /\ delivered = {}
    /\ lineage = [d \in {} |-> 0] /\ plan = 0
    /\ observed = FALSE /\ published = FALSE
    /\ clock = 0

Terminal == flow.status \in {"completed", "failed"}
Idle     == step = NoStep /\ ~hook

\* _child_flows_for_dispatch, and whether all of them are terminal.
ChildrenTerminal(d) == d # 0 /\ \A x \in running : x[1] # d

----------------------------------------------------------------------------
(* create_next_step                                                        *)

\* The step type each phase asks for; no step without a ready summary.
StepType(phase) ==
    CASE phase = "initial_repo_exploration_plan"  -> "initial_repo_exploration_plan_step"
      [] phase \in AgentPhases                    -> "coordinator_agent_step"
      [] phase \in SnapshotPhases                 -> "coordinator_content_batch_snapshot_step"
      [] phase \in DispatchPhases                 -> "dispatch_step"
      [] phase = "ensure_repo_exploration_agents" -> "ensure_repo_exploration_agents_step"
      [] phase = "requirement_resume_gate"        -> "coordinator_requirement_resume_gate_step"
      [] phase = "mark_repo_ready" /\ flow.summary -> "mark_coordinator_repo_ready_step"
      [] OTHER                                    -> "none"

\* Mutant: every wake in the callback phase is taken for a child's.
PromptOfPhase == IF flow.phase = "coordinator_callback" THEN "callback" ELSE "initial"

\* _coordinator_agent_step and _repo_ready_rejection_callback_prompt: after a
\* rejected release the wake is internal and names no dispatch.
PromptMode ==
    IF flow.phase = "coordinator_callback" /\ last.type # "mark_coordinator_repo_ready_step"
    THEN "callback" ELSE "initial"

CreateNextStep ==
    LET type == StepType(flow.phase)
        mode == IF type = "coordinator_agent_step" THEN PromptMode ELSE "none"
        back == IF mode = "callback" THEN flow.dispatch ELSE 0
    IN /\ flow.status = "running" /\ Idle /\ clock < MaxSteps
       /\ type # "none"
       /\ step' = [id |-> clock + 1, type |-> type, mode |-> mode, callback |-> back]
       /\ clock' = clock + 1
       /\ delivered' = IF back = 0 THEN delivered ELSE delivered \cup {back}
       /\ UNCHANGED <<flow, last, hook, running, lineage, plan, observed, published>>

----------------------------------------------------------------------------
(* on_step_terminal: the step's result is consumed and the flow committed  *)
(* in one edit; a waiting phase then suspends the flow.                    *)

\* Mutant: only the phases that wait for children suspend the flow.
StatusOfChildWait(phase) == IF phase \in WaitingPhases THEN "waiting" ELSE "running"

StatusOf(phase) == IF phase \in WaitingPhases \cup {"waiting_requirement"} THEN "waiting" ELSE "running"

\* The current step ends with an outcome, and the hook is left to run.
EndStep(outcome) ==
    /\ step' = NoStep
    /\ last' = [id |-> step.id, type |-> step.type, mode |-> step.mode, callback |-> step.callback,
                outcome |-> outcome, at |-> flow.phase, recorded |-> FALSE]
    /\ hook' = TRUE

MoveTo(phase) == flow' = [flow EXCEPT !.phase = phase, !.status = StatusOf(phase)]
Fail(error)   == flow' = [flow EXCEPT !.status = "failed", !.error = error]

\* A step of any type that raises fails the flow.
StepRaises ==
    /\ step # NoStep
    /\ EndStep("error") /\ Fail("step")
    /\ UNCHANGED <<running, lineage, plan, delivered, observed, published, clock>>

\* _consume_initial_repo_exploration_plan
InitialPlan ==
    /\ step.type = "initial_repo_exploration_plan_step"
    /\ \/ EndStep("not_required") /\ MoveTo("coordinator_agent") /\ UNCHANGED plan
       \/ /\ EndStep("planned")
          /\ flow' = [flow EXCEPT !.phase = "ensure_repo_exploration_agents",
                                  !.kind = "repo_exploration", !.source = step.id]
          /\ plan' = step.id
       \/ EndStep("blocked") /\ Fail("plan") /\ UNCHANGED plan
    /\ UNCHANGED <<running, lineage, delivered, observed, published, clock>>

\* _consume_coordinator_agent_result: a submission that children will serve.
SubmitDispatch ==
    /\ step.type = "coordinator_agent_step"
    /\ \E submitted \in Kinds :
          /\ EndStep(submitted)
          /\ flow' = [flow EXCEPT
                !.kind = submitted, !.source = step.id,
                !.phase = CASE submitted = "content_tasks"    -> "before_content_task_dispatch_snapshot"
                            [] submitted = "resource_request" -> "before_resource_request_dispatch_snapshot"
                            [] submitted = "repo_exploration" -> "ensure_repo_exploration_agents"]
    /\ UNCHANGED <<running, lineage, plan, delivered, observed, published, clock>>

\* The requirement is created and marked waiting, or one of the two fails.
SubmitRequirement ==
    /\ step.type = "coordinator_agent_step"
    /\ EndStep("repo_requirement")
    /\ \/ /\ flow' = [flow EXCEPT !.phase = "waiting_requirement", !.status = "waiting", !.awaiting = TRUE]
          /\ observed' = FALSE
       \/ Fail("requirement") /\ UNCHANGED observed
    /\ UNCHANGED <<running, lineage, plan, delivered, published, clock>>

SubmitRepoReady ==
    /\ step.type = "coordinator_agent_step"
    /\ EndStep("repo_ready")
    /\ flow' = [flow EXCEPT !.phase = "mark_repo_ready", !.summary = TRUE]
    /\ UNCHANGED <<running, lineage, plan, delivered, observed, published, clock>>

\* No submission, an oversized batch or a result of the wrong kind.
AgentIncomplete ==
    /\ step.type = "coordinator_agent_step"
    /\ \/ EndStep("incomplete") /\ Fail("incomplete")
       \/ EndStep("mismatch") /\ Fail("agent")
    /\ UNCHANGED <<running, lineage, plan, delivered, observed, published, clock>>

EnsureAgents ==
    /\ step.type = "ensure_repo_exploration_agents_step"
    /\ EndStep("ensured") /\ MoveTo("before_repo_exploration_dispatch_snapshot")
    /\ UNCHANGED <<running, lineage, plan, delivered, observed, published, clock>>

\* CoordinatorContentBatchSnapshotStep only announces the checkpoint; the
\* hook creates it once the step is terminal (_consume_content_snapshot_result).
AnnounceSnapshot ==
    /\ step.type = "coordinator_content_batch_snapshot_step"
    /\ EndStep(IF CheckpointsEnabled THEN "snapshot_created" ELSE "skipped")
    /\ MoveTo(CASE flow.phase = "before_content_task_dispatch_snapshot"     -> "dispatch_content_tasks"
                [] flow.phase = "before_resource_request_dispatch_snapshot" -> "dispatch_resource_request"
                [] flow.phase = "before_repo_exploration_dispatch_snapshot" -> "dispatch_repo_exploration"
                [] OTHER                                                    -> "coordinator_callback")
    /\ UNCHANGED <<running, lineage, plan, delivered, observed, published, clock>>

\* _consume_dispatch_result: the children exist before the flow waits.
Dispatch ==
    /\ step.type = "dispatch_step"
    /\ \/ /\ EndStep("dispatched")
          /\ \E created \in (SUBSET Children) \ {{}} : running' = running \cup ({step.id} \X created)
          /\ lineage' = [d \in DOMAIN lineage \cup {step.id} |->
                            IF d = step.id THEN [kind |-> flow.kind, source |-> flow.source] ELSE lineage[d]]
          /\ flow' = [flow EXCEPT
                !.dispatch = step.id, !.status = "waiting",
                !.phase = CASE flow.kind = "content_tasks"    -> "waiting_content_tasks"
                            [] flow.kind = "resource_request" -> "waiting_resource_request"
                            [] flow.kind = "repo_exploration" -> "waiting_repo_exploration"]
       \/ EndStep("failed") /\ Fail("dispatch") /\ UNCHANGED <<running, lineage>>
    /\ UNCHANGED <<plan, delivered, observed, published, clock>>

\* CoordinatorRequirementResumeGateStep and what consumes its result: the
\* requirement is read again, and the provider attached if it still holds.
ResumeGate ==
    /\ step.type = "coordinator_requirement_resume_gate_step"
    /\ \/ ~observed /\ EndStep("still_waiting") /\ MoveTo("waiting_requirement")
       \/ /\ observed /\ EndStep("resumed")
          /\ flow' = [flow EXCEPT !.phase = "coordinator_requirement_resume", !.awaiting = FALSE]
       \/ EndStep("invalid") /\ Fail("gate")
    /\ UNCHANGED <<running, lineage, plan, delivered, observed, published, clock>>

\* MarkCoordinatorRepoReadyStep: rejected (by its own runtime closeout when a
\* child still runs), left to the operator, or prepared for the hook.
MarkRepoReady ==
    /\ step.type = "mark_coordinator_repo_ready_step"
    /\ \/ /\ EndStep("candidate_blocked")
          /\ flow' = [flow EXCEPT !.phase = "coordinator_callback", !.summary = FALSE]
       \/ /\ running = {}
          /\ EndStep("ready_marked") \/ EndStep("candidate_prepared")
          /\ flow' = [flow EXCEPT !.phase = "completed", !.status = "completed"]
    /\ UNCHANGED <<running, lineage, plan, delivered, observed, published, clock>>

----------------------------------------------------------------------------
(* Waiting: can_exit_waiting and on_exit_waiting.                          *)

\* Mutant: one terminal child is enough.
AnyChildTerminal ==
    \/ /\ flow.phase \in WaitingPhases
       /\ \E c \in Children : <<flow.dispatch, c>> \notin running
    \/ flow.phase = "waiting_requirement" /\ flow.awaiting /\ observed

CanExitWaiting ==
    \/ flow.phase \in WaitingPhases /\ ChildrenTerminal(flow.dispatch)
    \/ flow.phase = "waiting_requirement" /\ flow.awaiting /\ observed

\* Mutant: only content tasks are followed by a checkpoint.
AfterContentOnly(phase) ==
    CASE phase = "waiting_content_tasks" -> "after_content_task_batch_snapshot"
      [] phase = "waiting_requirement"   -> "requirement_resume_gate"
      [] OTHER                           -> phase

AfterWaiting(phase) ==
    CASE phase = "waiting_content_tasks"    -> "after_content_task_batch_snapshot"
      [] phase = "waiting_resource_request" -> "after_resource_request_terminal_snapshot"
      [] phase = "waiting_repo_exploration" -> "after_repo_exploration_terminal_snapshot"
      [] OTHER                              -> "requirement_resume_gate"

OnExitWaiting ==
    /\ flow.status = "waiting" /\ Idle /\ CanExitWaiting
    /\ flow' = [flow EXCEPT !.status = "running", !.phase = AfterWaiting(flow.phase)]
    /\ UNCHANGED <<step, last, hook, running, lineage, plan, delivered, observed, published, clock>>

----------------------------------------------------------------------------
(* The batch the flow has pending (RepoActivity's persisted frontier), and *)
(* the checkpoints it is an exact boundary of.                             *)

\* RepoActivityComponent._PERSISTED_BATCH_PHASES
PersistedBatchPhases == {"before_content_task_dispatch_snapshot", "dispatch_content_tasks",
                         "waiting_content_tasks", "after_content_task_batch_snapshot",
                         "coordinator_callback"}

AtBatchPhase == /\ ~Terminal
                /\ flow.kind = "content_tasks"
                /\ flow.phase \in PersistedBatchPhases

\* _has_created_callback_step
HasCreatedCallbackStep == step.type = "coordinator_agent_step" /\ step.mode = "callback"

\* _persisted_content_batches: the batch's identity is its source step.
PersistedBatch ==
    IF AtBatchPhase /\ ~(flow.phase = "coordinator_callback" /\ HasCreatedCallbackStep)
    THEN flow.source ELSE 0

\* The initial plan's callback submitted the batch that is now pending, and
\* nothing was dispatched from it yet (_initial_callback_content_frontier_matches).
InitialCallbackContentFrontierMatches ==
    /\ PersistedBatch # 0
    /\ flow.phase = "before_content_task_dispatch_snapshot"
    /\ step = NoStep /\ last.id = flow.source
    /\ last.mode = "callback" /\ last.callback = flow.dispatch
    /\ plan # 0 /\ lineage[flow.dispatch].source = plan
    /\ ChildrenTerminal(flow.dispatch)
    /\ \A d \in DOMAIN lineage : lineage[d].kind # "content_tasks"

\* Mutant: the boundary is the announcing step's own phase.
BoundaryBeforeConsumption(kind) ==
    CASE kind = "before_content_task_dispatch"      -> flow.phase = "before_content_task_dispatch_snapshot"
      [] kind = "after_content_task_batch_terminal" -> flow.phase = "after_content_task_batch_snapshot"
      [] OTHER -> FALSE

\* The batch boundaries of _snapshot_activity_eligibility.
AtExactBoundary(kind) ==
    CASE kind = "before_content_task_dispatch" ->
            flow.phase \in {"before_content_task_dispatch_snapshot", "dispatch_content_tasks"}
      [] kind = "after_content_task_batch_terminal" ->
            /\ flow.phase \in {"after_content_task_batch_snapshot", "coordinator_callback"}
            /\ ChildrenTerminal(flow.dispatch)
      [] kind = "after_initial_repo_exploration_callback" -> InitialCallbackContentFrontierMatches
      [] OTHER -> FALSE

SnapshotEligible(kind) == AtBatchPhase => AtExactBoundary(kind)

----------------------------------------------------------------------------
(* after_step_terminal_stable                                              *)

\* The dispatch a callback step answers came from the initial plan
\* (_classify_initial_repo_exploration_callback).
IsInitialCallback ==
    /\ last.callback # 0 /\ last.callback = flow.dispatch
    /\ plan # 0 /\ lineage[last.callback].source = plan

CheckpointKind(phase) ==
    CASE phase = "before_content_task_dispatch_snapshot"     -> "before_content_task_dispatch"
      [] phase = "before_resource_request_dispatch_snapshot" -> "before_resource_request_dispatch"
      [] phase = "before_repo_exploration_dispatch_snapshot" -> "before_repo_exploration_dispatch"
      [] phase = "after_content_task_batch_snapshot"         -> "after_content_task_batch_terminal"
      [] phase = "after_resource_request_terminal_snapshot"  -> "after_resource_request_terminal"
      [] OTHER                                               -> "after_repo_exploration_terminal"

\* The checkpoints the hook takes for the step that has just ended.
Checkpoints ==
    IF ~CheckpointsEnabled THEN {}
    ELSE IF last.outcome = "snapshot_created" THEN {CheckpointKind(last.at)}
    ELSE IF last.type # "coordinator_agent_step" THEN {}
    ELSE (IF IsInitialCallback THEN {"after_initial_repo_exploration_callback"} ELSE {})
            \cup (IF last.outcome = "repo_requirement" /\ flow.phase = "waiting_requirement"
                  THEN {"coordinator_requirement_waiting"} ELSE {})

\* The step needs nothing of the hook.
NothingStable ==
    /\ hook /\ Checkpoints = {} /\ last.outcome # "candidate_prepared"
    /\ hook' = FALSE
    /\ UNCHANGED <<flow, step, last, running, lineage, plan, delivered, observed, published, clock>>

\* _record_stable_repo_snapshot: an ineligible frontier refuses the snapshot,
\* and so may the repository's other activity; the flow then fails.
RecordSnapshot ==
    /\ hook /\ Checkpoints # {} /\ last.outcome # "candidate_prepared"
    /\ hook' = FALSE
    /\ \/ /\ \A kind \in Checkpoints : SnapshotEligible(kind)
          /\ last' = [last EXCEPT !.recorded = TRUE] /\ UNCHANGED flow
       \/ Fail("snapshot") /\ UNCHANGED last
    /\ UNCHANGED <<step, running, lineage, plan, delivered, observed, published, clock>>

\* Mutant: a commit that does not go through is left to the operator.
CommitUnchecked ==
    /\ hook /\ last.outcome = "candidate_prepared"
    /\ hook' = FALSE
    /\ published' \in BOOLEAN
    /\ UNCHANGED <<flow, step, last, running, lineage, plan, delivered, observed, clock>>

\* commit_prepared_release, after the runtime closeout is checked again.  It
\* may fail before the publication turns stable or after; the flow fails
\* unless the publication is stable with this very release.
CommitPreparedRelease ==
    /\ hook /\ last.outcome = "candidate_prepared"
    /\ hook' = FALSE
    /\ \/ running = {} /\ published' = TRUE /\ UNCHANGED flow
       \/ Fail("release") /\ UNCHANGED published
    /\ UNCHANGED <<step, last, running, lineage, plan, delivered, observed, clock>>

----------------------------------------------------------------------------
(* The operator and the environment.                                       *)

\* app/snapshot_recovery.py: the flow is reopened and its hook run again; a
\* second failure restores what it found.
RetryContentSnapshot ==
    /\ flow.status = "failed" /\ flow.error = "snapshot" /\ Idle
    /\ flow.phase = "coordinator_callback"
    /\ last.outcome = "snapshot_created" /\ ~last.recorded
    /\ flow.kind = "content_tasks" => AtExactBoundary(CheckpointKind(last.at))
    /\ flow' = [flow EXCEPT !.status = "running", !.error = "none"]
    /\ last' = [last EXCEPT !.recorded = TRUE]
    /\ UNCHANGED <<step, hook, running, lineage, plan, delivered, observed, published, clock>>

\* The turn that recover_agent_step starts anew: one that raised, or the current
\* one when its provider has suspended it.
Recovered ==
    IF step.type = "coordinator_agent_step" THEN [mode |-> step.mode, callback |-> step.callback]
    ELSE [mode |-> last.mode, callback |-> last.callback]

\* recover_agent_step: the kit puts a new step with the same prompt in its place.
RecoverAgentStep ==
    /\ clock < MaxSteps /\ clock' = clock + 1
    /\ \/ step.type = "coordinator_agent_step" /\ UNCHANGED flow
       \/ /\ flow.status = "failed" /\ Idle
          /\ last.type = "coordinator_agent_step" /\ last.outcome = "error"
          /\ flow' = [flow EXCEPT !.status = "running", !.error = "none"]
    /\ step' = [id |-> clock + 1, type |-> "coordinator_agent_step",
                mode |-> Recovered.mode, callback |-> Recovered.callback]
    /\ UNCHANGED <<last, hook, running, lineage, plan, delivered, observed, published>>

\* reset_coordinator_for_current_truth at an idle callback boundary, and
\* app/coordinator_recovery.py after a callback that submitted nothing.
ResetForCurrentTruth ==
    /\ Idle /\ flow.phase = "coordinator_callback"
    /\ \/ flow.status = "running"
       \/ flow.status = "failed" /\ flow.error = "incomplete" /\ last.outcome = "incomplete"
    /\ flow' = [flow EXCEPT !.phase = "coordinator_agent", !.status = "running", !.error = "none"]
    /\ UNCHANGED <<step, last, hook, running, lineage, plan, delivered, observed, published, clock>>

\* A child flow completes or fails.
ChildEnds(x) ==
    /\ x \in running
    /\ running' = running \ {x}
    /\ UNCHANGED <<flow, step, last, hook, lineage, plan, delivered, observed, published, clock>>

\* The awaited requirement is satisfied and observed, or is so no longer.
RequirementChanges ==
    /\ flow.awaiting
    /\ observed' = ~observed
    /\ UNCHANGED <<flow, step, last, hook, running, lineage, plan, delivered, published, clock>>

OnStepTerminal ==
    \/ StepRaises \/ InitialPlan
    \/ SubmitDispatch \/ SubmitRequirement \/ SubmitRepoReady \/ AgentIncomplete
    \/ EnsureAgents \/ AnnounceSnapshot \/ Dispatch \/ ResumeGate \/ MarkRepoReady

AfterStepTerminalStable == NothingStable \/ RecordSnapshot \/ CommitPreparedRelease

Runtime == CreateNextStep \/ OnStepTerminal \/ AfterStepTerminalStable \/ OnExitWaiting

Next == \/ Runtime
        \/ RetryContentSnapshot \/ ResetForCurrentTruth \/ RecoverAgentStep
        \/ \E x \in running : ChildEnds(x)
        \/ RequirementChanges

Spec == Init /\ [][Next]_vars

\* The scheduler keeps ticking, agents end their turns and children terminate.
FairSpec == Spec /\ WF_vars(Runtime)
                 /\ \A d \in StepIds, c \in Children : WF_vars(ChildEnds(<<d, c>>))

----------------------------------------------------------------------------
\* The persisted flow, the steps and their lineage keep their types: a
\* callback names a dispatch that was made, and a child belongs to one.
StepTypes == {"initial_repo_exploration_plan_step", "coordinator_agent_step",
              "coordinator_content_batch_snapshot_step", "dispatch_step",
              "ensure_repo_exploration_agents_step", "coordinator_requirement_resume_gate_step",
              "mark_coordinator_repo_ready_step", "none"}
Outcomes  == Kinds \cup {"none", "error", "not_required", "planned", "blocked", "repo_requirement",
                         "repo_ready", "incomplete", "mismatch", "ensured", "snapshot_created",
                         "skipped", "dispatched", "failed", "still_waiting", "resumed", "invalid",
                         "candidate_blocked", "ready_marked", "candidate_prepared"}
Modes     == {"none", "initial", "callback"}

Flows == [phase : Phases, status : {"running", "waiting", "completed", "failed"},
          error : {"none", "step", "plan", "requirement", "incomplete", "agent", "dispatch",
                   "gate", "snapshot", "release"},
          kind : Kinds \cup {"none"}, source : 0..clock, dispatch : DOMAIN lineage \cup {0},
          awaiting : BOOLEAN, summary : BOOLEAN]
Steps == [id : {0, clock}, type : StepTypes, mode : Modes, callback : DOMAIN lineage \cup {0}]
Ended == [id : 0..clock, type : StepTypes, mode : Modes, callback : DOMAIN lineage \cup {0},
          outcome : Outcomes, at : Phases \cup {"none"}, recorded : BOOLEAN]

TypeOK ==
    /\ flow \in Flows /\ step \in Steps /\ last \in Ended /\ hook \in BOOLEAN
    /\ step.mode = "callback" => step.callback \in DOMAIN lineage
    /\ running \subseteq (DOMAIN lineage) \X Children
    /\ lineage \in [DOMAIN lineage -> [kind : Kinds, source : 1..clock]] /\ DOMAIN lineage \subseteq 1..clock
    /\ plan \in 0..clock /\ delivered \subseteq DOMAIN lineage
    /\ observed \in BOOLEAN /\ published \in BOOLEAN /\ clock \in 0..MaxSteps

\* A running flow always has a next step: no chain of submissions, waits,
\* rejections, retries and resets leaves it in a phase create_next_step does
\* not answer, where it would neither run nor wait.
NeverStuck == flow.status = "running" /\ Idle => StepType(flow.phase) # "none"

\* Each dispatch is called back at most once ("Do not reuse a stale
\* child-dispatch result", _repo_ready_rejection_callback_prompt), whatever
\* rejections, snapshot retries, recoveries and resets come between: again only
\* in place of a turn that gave no answer to it.
Unanswered == IF step # NoStep THEN step.callback ELSE IF last.outcome = "error" THEN last.callback ELSE 0
CallbackOnce ==
    [][step'.id # step.id /\ step'.mode = "callback" => step'.callback \notin delivered \ {Unanswered}]_vars

\* The agent is told of a dispatch only when all its children are terminal.
CallbackAfterChildren ==
    \A d \in delivered : \A x \in running : x[1] # d

\* While a content task runs its batch is the one the flow has pending, so
\* the activity component keeps its nodes reserved across restarts.
PendingWhileTasksRun ==
    \A x \in running : lineage[x[1]].kind = "content_tasks" => PersistedBatch = lineage[x[1]].source

\* Every checkpoint the flow asks for falls on a boundary that the snapshot
\* eligibility accepts: the hook runs after the step's result has moved the
\* phase on, and the two files agree on where that leaves the flow.
CheckpointsAreEligible == hook => \A kind \in Checkpoints : SnapshotEligible(kind)

\* A flow that settles as completed with a prepared release has published it.
CompletedMeansPublished ==
    flow.status = "completed" /\ ~hook /\ last.outcome = "candidate_prepared" => published

\* Once a callback step was created for a batch, the flow has that batch
\* pending no more (_has_created_callback_step, "Rebuild ephemeral ownership
\* from the current Coordinator frontier"), except between a rejected release
\* and the end of the turn it wakes, which may be recovered.
WokenByRejection ==
    \/ last.type = "mark_coordinator_repo_ready_step"
    \/ last.type = "coordinator_agent_step" /\ last.outcome = "error" /\ last.mode # "callback"
Handed(d) == lineage[d].kind = "content_tasks" /\ PersistedBatch = lineage[d].source
ReleasedUntilRejection ==
    (\E d \in delivered : Handed(d)) => WokenByRejection

\* From its dispatch to its callback a batch is the pending one, and only then:
\* what the activity component rehydrates is what runs.
BatchLifecycle == CallbackAfterChildren /\ PendingWhileTasksRun /\ ReleasedUntilRejection

\* Children that terminate bring the flow back to its agent, or to a failure
\* (on_exit_waiting, the closing checkpoint and the callback step).
WaitReturns ==
    flow.phase \in WaitingPhases /\ clock + 2 <= MaxSteps
        ~> flow.status = "failed" \/ step.type = "coordinator_agent_step"
=============================================================================

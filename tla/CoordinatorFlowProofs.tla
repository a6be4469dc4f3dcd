----------------------- MODULE CoordinatorFlowProofs -----------------------
(***************************************************************************)
(* Proofs about CoordinatorFlow, for any children, with and without        *)
(* checkpoints, and for any number of steps.                               *)
(***************************************************************************)
EXTENDS CoordinatorFlow, TLAPS

PreDispatchPhases == {"ensure_repo_exploration_agents", "before_content_task_dispatch_snapshot",
                      "before_resource_request_dispatch_snapshot",
                      "before_repo_exploration_dispatch_snapshot"} \cup DispatchPhases
AfterPhases       == {"after_content_task_batch_snapshot", "after_resource_request_terminal_snapshot",
                      "after_repo_exploration_terminal_snapshot"}

\* The phases that belong to one kind of submission.
PhasesOf(kind) ==
    CASE kind = "content_tasks"    -> {"before_content_task_dispatch_snapshot", "dispatch_content_tasks",
                                       "waiting_content_tasks", "after_content_task_batch_snapshot"}
      [] kind = "resource_request" -> {"before_resource_request_dispatch_snapshot",
                                       "dispatch_resource_request", "waiting_resource_request",
                                       "after_resource_request_terminal_snapshot"}
      [] kind = "repo_exploration" -> {"ensure_repo_exploration_agents",
                                       "before_repo_exploration_dispatch_snapshot",
                                       "dispatch_repo_exploration", "waiting_repo_exploration",
                                       "after_repo_exploration_terminal_snapshot"}

\* The status fits the phase: only a flow in a waiting phase waits.
StatusFits ==
    /\ flow.status = "running" => flow.phase \notin WaitingPhases \cup {"waiting_requirement", "completed"}
    /\ flow.phase \in WaitingPhases => flow.status = "waiting"
    /\ flow.phase = "mark_repo_ready" => flow.summary
    /\ \A kind \in Kinds : flow.phase \in PhasesOf(kind) => flow.kind = kind

\* A step runs in the phase that asked for it, and nothing refers to it yet.
StepFits ==
    step # NoStep =>
        /\ flow.status = "running" /\ ~hook
        /\ step.id = clock /\ step.id # 0 /\ step.type = StepType(flow.phase) /\ step.type # "none"
        /\ step.callback # 0 => step.mode = "callback"
        /\ step.type = "coordinator_agent_step" /\ step.mode # "callback"
              /\ flow.phase = "coordinator_callback" => WokenByRejection
        /\ step.id \notin DOMAIN lineage /\ plan # step.id
        /\ \A d \in DOMAIN lineage : lineage[d].source # step.id

\* Children run only while the flow waits for their dispatch.
ChildrenFit == \A x \in running : flow.phase \in WaitingPhases /\ x[1] = flow.dispatch

\* What is submitted is dispatched once, and its dispatch is the last one
\* until the flow has called it back.
Undelivered ==
    /\ flow.dispatch # 0 /\ flow.dispatch \notin delivered
    /\ lineage[flow.dispatch] = [kind |-> flow.kind, source |-> flow.source]

DispatchesFit ==
    /\ \A d, e \in DOMAIN lineage : lineage[d].source = lineage[e].source => d = e
    /\ flow.phase \in PreDispatchPhases =>
          flow.source # 0 /\ \A d \in DOMAIN lineage : lineage[d].source # flow.source
    /\ flow.phase \in WaitingPhases \cup AfterPhases => Undelivered
    /\ flow.phase = "coordinator_callback" /\ step = NoStep
          /\ last.type # "mark_coordinator_repo_ready_step"
          /\ (flow.status = "running" \/ last.outcome = "snapshot_created") => Undelivered

\* The initial plan's explorations are the first thing dispatched.
PlanFits ==
    /\ flow.phase = "initial_repo_exploration_plan" => DOMAIN lineage = {} /\ plan = 0
    /\ plan # 0 /\ flow.phase \in PreDispatchPhases /\ flow.source = plan =>
          DOMAIN lineage = {} /\ flow.kind = "repo_exploration"
    /\ plan # 0 /\ flow.dispatch # 0 /\ lineage[flow.dispatch].source = plan =>
          DOMAIN lineage = {flow.dispatch} /\ lineage[flow.dispatch].kind = "repo_exploration"

\* A prepared release is committed by the hook, or the flow has failed.
ReleaseFits ==
    flow.status = "completed" /\ last.outcome = "candidate_prepared" => hook \/ published

\* The hook that runs while children do is their dispatch's, a step that names a
\* dispatch called it back, and a turn that raised left the flow where it was.
HookFits ==
    /\ last.callback # 0 <=> last.mode = "callback"
    /\ step = NoStep /\ last.type = "coordinator_agent_step" /\ last.outcome = "error" =>
          flow.status = "failed" /\ flow.phase \in AgentPhases
    /\ hook /\ flow.phase \in WaitingPhases => last.type = "dispatch_step" /\ last.outcome = "dispatched"

Coherent ==
    /\ TypeOK
    /\ StatusFits /\ StepFits /\ ChildrenFit /\ DispatchesFit /\ PlanFits /\ ReleaseFits /\ HookFits
    /\ CheckpointsAreEligible /\ BatchLifecycle

\* A flow starts with no steps, no children and nothing dispatched.
LEMMA InitCoherent == Init => Coherent
<1> SUFFICES ASSUME Init PROVE Coherent OBVIOUS
<1> USE ChildAssumption, StepAssumption DEF Init
<1>1. TypeOK
    <2>1. DOMAIN lineage = {} OBVIOUS
    <2>6. lineage \in [DOMAIN lineage -> [kind : Kinds, source : 1..clock]] OBVIOUS
    <2>2. flow \in Flows BY DEF Flows, Phases
    <2>3. step \in Steps BY DEF Steps, NoStep, StepTypes, Modes
    <2>4. last \in Ended BY DEF Ended, StepTypes, Modes, Outcomes
    <2>5. step.mode # "callback" BY DEF NoStep
    <2>7. /\ running \subseteq (DOMAIN lineage) \X Children /\ DOMAIN lineage \subseteq 1..clock
          /\ plan \in 0..clock /\ delivered \subseteq DOMAIN lineage /\ clock \in 0..MaxSteps
        BY <2>1
    <2> QED BY <2>2, <2>3, <2>4, <2>5, <2>6, <2>7 DEF TypeOK
<1>2. StatusFits /\ PlanFits
    BY DEF StatusFits, PlanFits, PreDispatchPhases, DispatchPhases, WaitingPhases, PhasesOf, Kinds
<1>3. StepFits /\ ChildrenFit /\ ReleaseFits /\ HookFits
    BY DEF StepFits, ChildrenFit, ReleaseFits, HookFits
<1>4. DispatchesFit
    BY DEF DispatchesFit, PreDispatchPhases, DispatchPhases, AfterPhases, WaitingPhases
<1>5. CheckpointsAreEligible /\ BatchLifecycle
    BY DEF CheckpointsAreEligible, BatchLifecycle, CallbackAfterChildren, PendingWhileTasksRun,
           ReleasedUntilRejection
<1> QED BY <1>1, <1>2, <1>3, <1>4, <1>5 DEF Coherent

\* The phase a step of each type runs in.
LEMMA StepsPhase ==
    ASSUME Coherent, step.type # "none"
    PROVE  /\ step # NoStep /\ step.id = clock /\ step.id # 0 /\ flow.status = "running" /\ ~hook
           /\ flow.phase \notin WaitingPhases /\ running = {}
           /\ step.type = "coordinator_agent_step" => flow.phase \in AgentPhases
           /\ step.type = "coordinator_content_batch_snapshot_step" => flow.phase \in SnapshotPhases
           /\ step.type = "dispatch_step" => flow.phase \in DispatchPhases
           /\ step.type = "ensure_repo_exploration_agents_step" =>
                 flow.phase = "ensure_repo_exploration_agents"
           /\ step.type = "initial_repo_exploration_plan_step" =>
                 flow.phase = "initial_repo_exploration_plan"
           /\ step.type = "coordinator_requirement_resume_gate_step" =>
                 flow.phase = "requirement_resume_gate"
           /\ step.type = "mark_coordinator_repo_ready_step" => flow.phase = "mark_repo_ready"
<1>1. step # NoStep BY DEF NoStep
<1>2. /\ step.id = clock /\ step.id # 0 /\ flow.status = "running" /\ ~hook
      /\ step.type = StepType(flow.phase)
    BY <1>1 DEF Coherent, StepFits
<1>3. flow.phase \notin WaitingPhases BY <1>2 DEF Coherent, StatusFits
<1>4. running = {} BY <1>3 DEF Coherent, ChildrenFit
<1> QED BY <1>1, <1>2, <1>3, <1>4
    DEF StepType, AgentPhases, SnapshotPhases, DispatchPhases, Coherent, TypeOK, Flows, Phases

\* A new step: it is a callback only of a dispatch that was not yet called back.
LEMMA CreateCoherent ==
    ASSUME Coherent, CreateNextStep
    PROVE  /\ Coherent'
           /\ step'.mode = "callback" => step'.callback \notin delivered
<1> DEFINE type == StepType(flow.phase)
           mode == IF type = "coordinator_agent_step" THEN PromptMode ELSE "none"
           back == IF mode = "callback" THEN flow.dispatch ELSE 0
<1>1. /\ flow.status = "running" /\ step = NoStep /\ ~hook /\ clock < MaxSteps /\ type # "none"
      /\ step' = [id |-> clock + 1, type |-> type, mode |-> mode, callback |-> back]
      /\ clock' = clock + 1
      /\ delivered' = IF back = 0 THEN delivered ELSE delivered \cup {back}
      /\ UNCHANGED <<flow, last, hook, running, lineage, plan, observed, published>>
    BY DEF CreateNextStep, Idle
<1>2. clock \in Nat /\ clock' \in 0..MaxSteps /\ clock' # 0
    BY <1>1, StepAssumption DEF Coherent, TypeOK
<1>3. type \in StepTypes BY DEF StepType, StepTypes
<1>4. mode \in Modes /\ back \in DOMAIN lineage \cup {0} /\ (back # 0 => mode = "callback")
    BY DEF PromptMode, Modes, Coherent, TypeOK, Flows
<1>5. mode = "callback" =>
         /\ flow.phase = "coordinator_callback" /\ back = flow.dispatch /\ type = "coordinator_agent_step"
         /\ Undelivered
    BY <1>1 DEF PromptMode, Coherent, DispatchesFit
<1>6. mode # "callback" /\ type = "coordinator_agent_step" /\ flow.phase = "coordinator_callback"
         => last.type = "mark_coordinator_repo_ready_step"
    BY DEF PromptMode
<1>7. flow.phase \notin WaitingPhases /\ running = {}
    BY <1>1 DEF Coherent, StatusFits, ChildrenFit
<1> HIDE DEF type, mode, back
<1>8. step' # NoStep BY <1>1, <1>2 DEF NoStep
<1>9. TypeOK' /\ StatusFits' /\ ChildrenFit' /\ PlanFits' /\ ReleaseFits' /\ HookFits'
    <2>1. step' \in Steps' BY <1>1, <1>2, <1>3, <1>4 DEF Steps
    <2>2. flow' \in Flows' /\ last' \in Ended'
        BY <1>1, <1>2 DEF Coherent, TypeOK, Flows, Ended
    <2>3. TypeOK' BY <1>1, <1>2, <1>4, <1>5, <2>1, <2>2 DEF Coherent, TypeOK, Undelivered, Flows
    <2>4. StatusFits' /\ ChildrenFit' BY <1>1 DEF Coherent, StatusFits, ChildrenFit
    <2>5. PlanFits' /\ ReleaseFits' /\ HookFits' BY <1>1 DEF Coherent, PlanFits, ReleaseFits, HookFits
    <2> QED BY <2>3, <2>4, <2>5
<1>10. StepFits'
    <2>1. \A d \in DOMAIN lineage : lineage[d].source # clock' /\ d # clock'
        BY <1>1, <1>2 DEF Coherent, TypeOK
    <2>2. plan # clock' BY <1>1, <1>2 DEF Coherent, TypeOK
    <2>3. StepType(flow.phase)' = type BY <1>1 DEF StepType, type
    <2> QED BY <1>1, <1>2, <1>4, <1>6, <2>1, <2>2, <2>3 DEF StepFits, WokenByRejection
<1>11. DispatchesFit'
    BY <1>1, <1>4, <1>5, <1>8 DEF Coherent, DispatchesFit, Undelivered, WaitingPhases, AfterPhases
<1>12. CheckpointsAreEligible' BY <1>1 DEF CheckpointsAreEligible
<1>13. BatchLifecycle'
    <2>1. CallbackAfterChildren' /\ PendingWhileTasksRun'
        BY <1>1, <1>7 DEF CallbackAfterChildren, PendingWhileTasksRun
    <2>2. PersistedBatch' \in {0, PersistedBatch}
          /\ (mode = "callback" => PersistedBatch' = 0)
        BY <1>1, <1>5 DEF PersistedBatch, AtBatchPhase, Terminal, HasCreatedCallbackStep, NoStep
    <2>3. \A d \in DOMAIN lineage : lineage[d].source # 0
        BY DEF Coherent, TypeOK
    <2>4. ReleasedUntilRejection'
        BY <1>1, <1>4, <2>2, <2>3 DEF ReleasedUntilRejection, WokenByRejection, Handed, Coherent, BatchLifecycle, TypeOK
    <2> QED BY <2>1, <2>4 DEF BatchLifecycle
<1>14. step'.mode = "callback" => step'.callback \notin delivered
    BY <1>1, <1>5 DEF Undelivered
<1> QED BY <1>9, <1>10, <1>11, <1>12, <1>13, <1>14 DEF Coherent

\* A step is a callback if it names a dispatch.
LEMMA CallbacksFit ==
    ASSUME Coherent, step # NoStep
    PROVE  step.callback # 0 <=> step.mode = "callback"
BY DEF Coherent, StepFits, TypeOK

\* A step that ends and dispatches nothing, whatever its result does to the
\* phase: no child runs, and the hook is left to run.
LEMMA EndCoherent ==
    ASSUME Coherent, step.type # "none", NEW outcome \in Outcomes, EndStep(outcome),
           UNCHANGED <<running, lineage, delivered, published, clock>>,
           plan' \in 0..clock, observed' \in BOOLEAN,
           flow' \in Flows', flow'.phase \notin WaitingPhases, StatusFits', DispatchesFit', PlanFits',
           outcome = "error" => flow'.status = "failed" /\ flow'.phase = flow.phase,
           CheckpointsAreEligible', ReleasedUntilRejection'
    PROVE  Coherent'
<1>1. step # NoStep /\ running = {} BY StepsPhase
<1>2. last' \in Ended' /\ step' = NoStep /\ hook' = TRUE
    BY DEF EndStep, Ended, Steps, Flows, Coherent, TypeOK
<1>3. TypeOK'
    <2>1. step' \in Steps' /\ step'.mode # "callback"
        BY <1>2 DEF Steps, NoStep, StepTypes, Modes
    <2> QED BY <1>2, <2>1 DEF Coherent, TypeOK
<1>4. StepFits' /\ ChildrenFit' /\ ReleaseFits' BY <1>1, <1>2 DEF StepFits, ChildrenFit, ReleaseFits
<1>5. HookFits'
    <2>1. /\ last'.type = step.type /\ last'.mode = step.mode /\ last'.callback = step.callback
          /\ last'.outcome = outcome
        BY DEF EndStep
    <2>2. step.type = "coordinator_agent_step" => flow.phase \in AgentPhases BY StepsPhase
    <2> QED BY <1>1, <2>1, <2>2, CallbacksFit DEF HookFits
<1>6. CallbackAfterChildren' /\ PendingWhileTasksRun'
    BY <1>1 DEF CallbackAfterChildren, PendingWhileTasksRun
<1> QED BY <1>3, <1>4, <1>5, <1>6 DEF Coherent, BatchLifecycle

\* Where no batch is pending afterwards there is nothing to check about it.
LEMMA EndOutsideBatch ==
    ASSUME Coherent, step.type # "none", NEW outcome \in Outcomes, EndStep(outcome),
           UNCHANGED <<running, lineage, delivered, published, clock>>,
           plan' \in 0..clock, observed' \in BOOLEAN,
           flow' \in Flows', flow'.phase \notin WaitingPhases, StatusFits', DispatchesFit', PlanFits',
           outcome = "error" => flow'.status = "failed" /\ flow'.phase = flow.phase,
           ~AtBatchPhase'
    PROVE  Coherent'
<1>1. CheckpointsAreEligible' /\ ReleasedUntilRejection'
    <2>1. /\ lineage' \in [DOMAIN lineage' -> [kind : Kinds, source : 1..clock']]
          /\ delivered' \subseteq DOMAIN lineage'
        BY DEF Coherent, TypeOK
    <2> QED BY <2>1 DEF CheckpointsAreEligible, SnapshotEligible, ReleasedUntilRejection, WokenByRejection, Handed,
                        PersistedBatch
<1> QED BY <1>1, EndCoherent

\* A step of any type fails.
LEMMA FailCoherent ==
    ASSUME Coherent, step.type # "none", NEW outcome \in Outcomes \ {"snapshot_created"}, EndStep(outcome),
           NEW error \in {"step", "plan", "requirement", "incomplete", "agent", "dispatch", "gate"},
           Fail(error),
           UNCHANGED <<running, lineage, plan, delivered, observed, published, clock>>
    PROVE  Coherent'
<1>1. flow' \in Flows' BY DEF Fail, Coherent, TypeOK, Flows
<1>2. /\ flow'.phase = flow.phase /\ flow'.status = "failed" /\ flow'.kind = flow.kind
      /\ flow'.source = flow.source /\ flow'.dispatch = flow.dispatch /\ flow'.summary = flow.summary
    BY DEF Fail, Coherent, TypeOK, Flows
<1>3. flow.phase \notin WaitingPhases BY StepsPhase
<1>4. StatusFits' BY <1>2, <1>3 DEF StatusFits, Coherent
<1>5. last'.outcome # "snapshot_created" BY DEF EndStep
<1>6. DispatchesFit' BY <1>2, <1>5 DEF DispatchesFit, Undelivered, Coherent
<1>7. PlanFits' BY <1>2 DEF PlanFits, Coherent
<1>8. ~AtBatchPhase' BY <1>2 DEF AtBatchPhase, Terminal
<1> QED BY <1>1, <1>2, <1>3, <1>4, <1>6, <1>7, <1>8, EndOutsideBatch DEF Coherent, TypeOK

\* The phases of different kinds are different, and none of them is another.
LEMMA PhasesDiffer ==
    /\ \A kind \in Kinds : PhasesOf(kind) \cap {"coordinator_agent", "coordinator_callback",
            "waiting_requirement", "requirement_resume_gate", "coordinator_requirement_resume",
            "mark_repo_ready", "completed", "initial_repo_exploration_plan"} = {}
    /\ \A k1, k2 \in Kinds : k1 # k2 => PhasesOf(k1) \cap PhasesOf(k2) = {}
    /\ PreDispatchPhases \cup WaitingPhases \cup AfterPhases =
          PhasesOf("content_tasks") \cup PhasesOf("resource_request") \cup PhasesOf("repo_exploration")
BY DEF PhasesOf, Kinds, PreDispatchPhases, DispatchPhases, WaitingPhases, AfterPhases

\* The initial plan.
LEMMA InitialPlanCoherent == ASSUME Coherent, InitialPlan PROVE Coherent'
<1>1. /\ step.type # "none" /\ flow.phase = "initial_repo_exploration_plan"
      /\ step # NoStep /\ step.id = clock /\ step.id # 0
      /\ DOMAIN lineage = {} /\ plan = 0 /\ plan' \in 0..clock
    BY StepsPhase DEF InitialPlan, Coherent, PlanFits, TypeOK
<1>2. UNCHANGED <<running, lineage, delivered, observed, published, clock>> BY DEF InitialPlan
<1>3. CASE EndStep("blocked") /\ Fail("plan") /\ UNCHANGED plan
    BY <1>1, <1>2, <1>3, FailCoherent DEF Outcomes
<1>4. ASSUME NEW outcome \in {"not_required", "planned"}, EndStep(outcome),
             NEW phase \in {"coordinator_agent", "ensure_repo_exploration_agents"},
             flow' \in Flows', flow'.phase = phase, flow'.status = "running",
             phase = "coordinator_agent" => plan' = 0,
             phase = "ensure_repo_exploration_agents" =>
                flow'.kind = "repo_exploration" /\ flow'.source = step.id
      PROVE  Coherent'
    <2>1. StatusFits'
        BY <1>4 DEF StatusFits, WaitingPhases, PhasesOf, Kinds
    <2>2. DispatchesFit'
        BY <1>1, <1>2, <1>4 DEF DispatchesFit, PreDispatchPhases, DispatchPhases, WaitingPhases, AfterPhases
    <2>3. PlanFits'
        BY <1>1, <1>2, <1>4 DEF PlanFits, PreDispatchPhases, DispatchPhases, Flows
    <2>4. ~AtBatchPhase' BY <1>4 DEF AtBatchPhase, PersistedBatchPhases
    <2> QED BY <1>1, <1>2, <1>4, <2>1, <2>2, <2>3, <2>4, EndOutsideBatch DEF Outcomes, Coherent, TypeOK, WaitingPhases
<1>5. CASE EndStep("not_required") /\ MoveTo("coordinator_agent") /\ UNCHANGED plan
    <2>1. flow' \in Flows' /\ flow'.phase = "coordinator_agent" /\ flow'.status = "running"
        BY <1>2, <1>5 DEF MoveTo, StatusOf, WaitingPhases, Coherent, TypeOK, Flows, Phases
    <2> QED BY <1>1, <1>4, <1>5, <2>1
<1>6. CASE /\ EndStep("planned")
           /\ flow' = [flow EXCEPT !.phase = "ensure_repo_exploration_agents",
                                   !.kind = "repo_exploration", !.source = step.id]
           /\ plan' = step.id
    <2>1. flow.status = "running" /\ step.id \in 0..clock BY <1>1, StepsPhase DEF Coherent, TypeOK
    <2>2. flow' \in Flows' /\ flow'.phase = "ensure_repo_exploration_agents"
          /\ flow'.kind = "repo_exploration" /\ flow'.source = step.id /\ flow'.status = "running"
        BY <1>2, <1>6, <2>1 DEF Coherent, TypeOK, Flows, Phases, Kinds
    <2> QED BY <1>4, <1>6, <2>2
<1> QED BY <1>3, <1>5, <1>6 DEF InitialPlan

\* A turn of the agent that submits what children will serve. After the
\* callback of the initial plan's explorations, a batch it submits is the
\* first that is.
LEMMA SubmitDispatchCoherent == ASSUME Coherent, SubmitDispatch PROVE Coherent'
<1>1. PICK submitted \in Kinds :
         /\ EndStep(submitted)
         /\ flow' = [flow EXCEPT
                !.kind = submitted, !.source = step.id,
                !.phase = CASE submitted = "content_tasks"    -> "before_content_task_dispatch_snapshot"
                            [] submitted = "resource_request" -> "before_resource_request_dispatch_snapshot"
                            [] submitted = "repo_exploration" -> "ensure_repo_exploration_agents"]
    BY DEF SubmitDispatch
<1>2. /\ step.type = "coordinator_agent_step" /\ step # NoStep /\ step.id = clock /\ step.id # 0
      /\ flow.phase \in AgentPhases /\ flow.status = "running" /\ running = {}
      /\ UNCHANGED <<running, lineage, plan, delivered, observed, published, clock>>
    BY StepsPhase DEF SubmitDispatch
<1>3. step.id \in 0..clock /\ submitted \in Outcomes BY <1>2 DEF Coherent, TypeOK, Outcomes
<1> DEFINE phase == flow'.phase
<1>4. /\ flow' \in Flows' /\ flow'.kind = submitted /\ flow'.source = step.id
      /\ flow'.status = "running" /\ flow'.dispatch = flow.dispatch
      /\ phase = CASE submitted = "content_tasks"    -> "before_content_task_dispatch_snapshot"
                   [] submitted = "resource_request" -> "before_resource_request_dispatch_snapshot"
                   [] submitted = "repo_exploration" -> "ensure_repo_exploration_agents"
    <2> DEFINE next == CASE submitted = "content_tasks"    -> "before_content_task_dispatch_snapshot"
                         [] submitted = "resource_request" -> "before_resource_request_dispatch_snapshot"
                         [] submitted = "repo_exploration" -> "ensure_repo_exploration_agents"
    <2>2. next \in Phases BY DEF Kinds, Phases
    <2>3. flow' = [flow EXCEPT !.kind = submitted, !.source = step.id, !.phase = next] BY <1>1
    <2> HIDE DEF next
    <2>1. flow' \in Flows' BY <1>2, <1>3, <2>2, <2>3 DEF Coherent, TypeOK, Flows
    <2> QED BY <1>1, <1>2, <2>1 DEF Coherent, TypeOK, Flows
<1>5. phase \in PhasesOf(submitted) /\ phase \in PreDispatchPhases
      /\ phase \notin WaitingPhases \cup AfterPhases
      /\ phase \notin {"waiting_requirement", "completed", "mark_repo_ready", "coordinator_callback",
                       "initial_repo_exploration_plan"}
    BY <1>4 DEF Kinds, PhasesOf, PreDispatchPhases, WaitingPhases, AfterPhases
<1> HIDE DEF phase
<1>6. StatusFits'
    BY <1>4, <1>5, PhasesDiffer DEF StatusFits, phase
<1>7. DispatchesFit'
    BY <1>2, <1>4, <1>5 DEF DispatchesFit, phase, Coherent, StepFits
<1>8. PlanFits' BY <1>2, <1>4, <1>5 DEF PlanFits, phase, Coherent, StepFits
<1>9. CASE submitted # "content_tasks"
    <2>1. ~AtBatchPhase' BY <1>4, <1>9 DEF AtBatchPhase
    <2> QED BY <1>1, <1>2, <1>3, <1>4, <1>5, <1>6, <1>7, <1>8, <2>1, EndOutsideBatch DEF Coherent, TypeOK, Kinds, phase
<1>10. CASE submitted = "content_tasks"
    <2>1. flow'.phase = "before_content_task_dispatch_snapshot" /\ step' = NoStep
        BY <1>1, <1>4, <1>10 DEF EndStep, phase
    <2>2. PersistedBatch' = step.id
        BY <1>4, <2>1, <1>10 DEF PersistedBatch, AtBatchPhase, Terminal, PersistedBatchPhases
    <2>3. ReleasedUntilRejection'
        BY <1>2, <2>2 DEF ReleasedUntilRejection, WokenByRejection, Handed, Coherent, StepFits, TypeOK
    <2>4. last'.id = step.id /\ last'.callback = step.callback /\ last'.mode = step.mode
          /\ last'.type = "coordinator_agent_step" /\ last'.outcome = "content_tasks"
        BY <1>1, <1>2, <1>10 DEF EndStep
    <2>5. Checkpoints' \subseteq
             IF IsInitialCallback' THEN {"after_initial_repo_exploration_callback"} ELSE {}
        BY <2>4 DEF Checkpoints
    <2>6. ASSUME IsInitialCallback' PROVE InitialCallbackContentFrontierMatches'
        <3>1. /\ last'.callback # 0 /\ last'.callback = flow.dispatch
              /\ plan # 0 /\ lineage[flow.dispatch].source = plan
            BY <1>2, <1>4, <2>6 DEF IsInitialCallback
        <3>2. last'.mode = "callback" BY <1>2, <2>4, <3>1 DEF Coherent, StepFits
        <3>3. \A d \in DOMAIN lineage : lineage[d].kind # "content_tasks"
            BY <3>1 DEF Coherent, PlanFits
        <3>4. ChildrenTerminal(flow.dispatch)' BY <1>2, <1>4, <3>1 DEF ChildrenTerminal
        <3> QED BY <1>2, <1>4, <2>1, <2>2, <2>4, <3>1, <3>2, <3>3, <3>4
            DEF InitialCallbackContentFrontierMatches
    <2>7. CheckpointsAreEligible'
        BY <2>5, <2>6 DEF CheckpointsAreEligible, SnapshotEligible, AtExactBoundary
    <2> QED BY <1>1, <1>2, <1>3, <1>4, <1>5, <1>6, <1>7, <1>8, <2>3, <2>7, <1>10, EndCoherent DEF Coherent, TypeOK, phase
<1> QED BY <1>9, <1>10

\* The other turns of the agent: a requirement, a release, or nothing.
LEMMA AgentCoherent ==
    ASSUME Coherent, SubmitRequirement \/ SubmitRepoReady \/ AgentIncomplete
    PROVE  Coherent'
<1>1. /\ step.type = "coordinator_agent_step" /\ step # NoStep /\ flow.phase \in AgentPhases
      /\ UNCHANGED <<running, lineage, plan, delivered, published, clock>>
      /\ plan' \in 0..clock /\ observed \in BOOLEAN
    BY StepsPhase DEF SubmitRequirement, SubmitRepoReady, AgentIncomplete, Coherent, TypeOK
<1>2. ASSUME NEW outcome \in Outcomes \ {"error"}, EndStep(outcome), flow' \in Flows', observed' \in BOOLEAN,
             NEW phase \in {"waiting_requirement", "mark_repo_ready"}, flow'.phase = phase,
             phase = "waiting_requirement" => flow'.status = "waiting",
             phase = "mark_repo_ready" => flow'.summary,
             flow'.dispatch = flow.dispatch
      PROVE  Coherent'
    <2>1. StatusFits' BY <1>2 DEF StatusFits, WaitingPhases, PhasesOf, Kinds
    <2>2. DispatchesFit'
        BY <1>1, <1>2
        DEF DispatchesFit, PreDispatchPhases, DispatchPhases, WaitingPhases, AfterPhases, Coherent
    <2>3. PlanFits'
        BY <1>1, <1>2 DEF PlanFits, PreDispatchPhases, DispatchPhases, Coherent
    <2>4. ~AtBatchPhase' BY <1>2 DEF AtBatchPhase, PersistedBatchPhases
    <2> QED BY <1>1, <1>2, <2>1, <2>2, <2>3, <2>4, EndOutsideBatch DEF WaitingPhases
<1>3. CASE SubmitRequirement
    <2>1. CASE /\ flow' = [flow EXCEPT !.phase = "waiting_requirement", !.status = "waiting",
                                       !.awaiting = TRUE]
               /\ observed' = FALSE
        <3>1. flow' \in Flows' /\ flow'.phase = "waiting_requirement" /\ flow'.status = "waiting"
              /\ flow'.dispatch = flow.dispatch
            BY <1>1, <2>1 DEF Coherent, TypeOK, Flows, Phases
        <3> QED BY <1>2, <1>3, <2>1, <3>1 DEF SubmitRequirement, Outcomes
    <2>2. CASE Fail("requirement") /\ UNCHANGED observed
        BY <1>1, <1>3, <2>2, FailCoherent DEF SubmitRequirement, Outcomes
    <2> QED BY <1>3, <2>1, <2>2 DEF SubmitRequirement
<1>4. CASE SubmitRepoReady
    <2>1. flow' \in Flows' /\ flow'.phase = "mark_repo_ready" /\ flow'.summary
          /\ flow'.dispatch = flow.dispatch
        BY <1>1, <1>4 DEF SubmitRepoReady, Coherent, TypeOK, Flows, Phases
    <2> QED BY <1>1, <1>2, <1>4, <2>1 DEF SubmitRepoReady, Outcomes
<1>5. CASE AgentIncomplete
    BY <1>1, <1>5, FailCoherent DEF AgentIncomplete, Outcomes
<1> QED BY <1>3, <1>4, <1>5

\* A step that raises.
LEMMA RaiseCoherent == ASSUME Coherent, StepRaises PROVE Coherent'
<1>1. step.type # "none" BY DEF StepRaises, Coherent, StepFits
<1> QED BY <1>1, FailCoherent DEF StepRaises, Outcomes

\* The agents of an exploration are there before its checkpoint.
LEMMA EnsureCoherent == ASSUME Coherent, EnsureAgents PROVE Coherent'
<1>1. /\ step.type # "none" /\ flow.phase = "ensure_repo_exploration_agents" /\ flow.status = "running"
      /\ EndStep("ensured") /\ MoveTo("before_repo_exploration_dispatch_snapshot")
      /\ UNCHANGED <<running, lineage, plan, delivered, observed, published, clock>>
    BY StepsPhase DEF EnsureAgents
<1>2. /\ flow' \in Flows' /\ flow'.phase = "before_repo_exploration_dispatch_snapshot"
      /\ flow'.status = "running" /\ flow'.kind = flow.kind /\ flow'.source = flow.source
      /\ flow'.dispatch = flow.dispatch
    BY <1>1 DEF MoveTo, StatusOf, WaitingPhases, Coherent, TypeOK, Flows, Phases
<1>3. flow.kind = "repo_exploration"
    BY <1>1 DEF Coherent, StatusFits, PhasesOf, Kinds
<1>4. StatusFits' BY <1>2, <1>3 DEF StatusFits, WaitingPhases, PhasesOf, Kinds
<1>5. DispatchesFit'
    BY <1>1, <1>2
    DEF DispatchesFit, PreDispatchPhases, DispatchPhases, WaitingPhases, AfterPhases, Coherent
<1>6. PlanFits' BY <1>1, <1>2 DEF PlanFits, PreDispatchPhases, DispatchPhases, Coherent
<1>7. ~AtBatchPhase' BY <1>2, <1>3 DEF AtBatchPhase
<1> QED BY <1>1, <1>2, <1>4, <1>5, <1>6, <1>7, EndOutsideBatch DEF Outcomes, Coherent, TypeOK, WaitingPhases

\* A checkpoint is announced in the phase before or after a dispatch, and
\* taken by the hook in the phase that follows.
LEMMA AnnounceCoherent == ASSUME Coherent, AnnounceSnapshot PROVE Coherent'
<1> DEFINE outcome == IF CheckpointsEnabled THEN "snapshot_created" ELSE "skipped"
           next == CASE flow.phase = "before_content_task_dispatch_snapshot"     -> "dispatch_content_tasks"
                     [] flow.phase = "before_resource_request_dispatch_snapshot" -> "dispatch_resource_request"
                     [] flow.phase = "before_repo_exploration_dispatch_snapshot" -> "dispatch_repo_exploration"
                     [] OTHER                                                    -> "coordinator_callback"
<1>1. /\ step.type = "coordinator_content_batch_snapshot_step" /\ step # NoStep
      /\ flow.phase \in SnapshotPhases /\ flow.status = "running" /\ running = {}
      /\ EndStep(outcome) /\ MoveTo(next)
      /\ UNCHANGED <<running, lineage, plan, delivered, observed, published, clock>>
    BY StepsPhase DEF AnnounceSnapshot
<1>2. /\ flow.phase \in {"before_content_task_dispatch_snapshot", "before_resource_request_dispatch_snapshot",
                         "before_repo_exploration_dispatch_snapshot"} =>
            /\ flow.phase \in PreDispatchPhases /\ next \in DispatchPhases
            /\ \A kind \in Kinds : next \in PhasesOf(kind) => flow.phase \in PhasesOf(kind)
      /\ flow.phase \notin {"before_content_task_dispatch_snapshot", "before_resource_request_dispatch_snapshot",
                         "before_repo_exploration_dispatch_snapshot"} =>
            flow.phase \in AfterPhases /\ next = "coordinator_callback"
    BY <1>1 DEF SnapshotPhases, PreDispatchPhases, AfterPhases, DispatchPhases, PhasesOf, Kinds
<1>3. /\ next \in DispatchPhases \cup {"coordinator_callback"}
      /\ next \in PreDispatchPhases \cup {"coordinator_callback"} /\ next \in Phases
      /\ next \notin WaitingPhases \cup AfterPhases \cup {"waiting_requirement", "completed", "mark_repo_ready",
                        "initial_repo_exploration_plan"}
    BY <1>2 DEF DispatchPhases, WaitingPhases, AfterPhases, PreDispatchPhases, Phases
<1>4. outcome \in {"snapshot_created", "skipped"} /\ outcome \in Outcomes BY DEF Outcomes
<1>5. next # "dispatch_content_tasks" => flow.phase # "before_content_task_dispatch_snapshot"
    OBVIOUS
<1> HIDE DEF next, outcome
<1>6. /\ flow' \in Flows' /\ flow'.phase = next /\ flow'.status = "running"
      /\ flow'.kind = flow.kind /\ flow'.source = flow.source /\ flow'.dispatch = flow.dispatch
    BY <1>1, <1>3 DEF MoveTo, StatusOf, Coherent, TypeOK, Flows
<1>7. StatusFits'
    <2>1. CASE next = "coordinator_callback"
        BY <1>6, <2>1 DEF StatusFits, WaitingPhases, PhasesOf, Kinds
    <2>2. CASE next # "coordinator_callback" BY <1>2, <1>3, <1>6, <2>2 DEF StatusFits, Coherent
    <2> QED BY <2>1, <2>2
<1>8. DispatchesFit'
    <2>1. CASE next = "coordinator_callback"
        <3>1. flow.phase \in AfterPhases
            BY <1>2, <2>1 DEF DispatchPhases
        <3>2. Undelivered BY <3>1 DEF Coherent, DispatchesFit
        <3> QED BY <1>1, <1>6, <2>1, <3>2
            DEF DispatchesFit, Undelivered, Coherent, PreDispatchPhases, DispatchPhases, WaitingPhases,
                AfterPhases
    <2>2. CASE next # "coordinator_callback"
        BY <1>1, <1>2, <1>3, <1>6, <2>2 DEF DispatchesFit, Coherent
    <2> QED BY <2>1, <2>2
<1>9. PlanFits'
    <2>1. CASE next = "coordinator_callback"
        BY <1>1, <1>6, <2>1 DEF PlanFits, Coherent, PreDispatchPhases, DispatchPhases
    <2>2. CASE next # "coordinator_callback"
        BY <1>1, <1>2, <1>3, <1>6, <2>2 DEF PlanFits, Coherent
    <2> QED BY <2>1, <2>2
<1>10. /\ last'.at = flow.phase /\ last'.type = "coordinator_content_batch_snapshot_step"
       /\ last'.outcome = outcome /\ step' = NoStep
    BY <1>1 DEF EndStep
<1>11. CASE flow.kind # "content_tasks"
    <2>1. ~AtBatchPhase' BY <1>6, <1>11 DEF AtBatchPhase
    <2> QED BY <1>1, <1>3, <1>4, <1>6, <1>7, <1>8, <1>9, <2>1, EndOutsideBatch DEF Coherent, TypeOK
<1>12. CASE flow.kind = "content_tasks"
    <2>1. flow.phase \in {"before_content_task_dispatch_snapshot", "after_content_task_batch_snapshot"}
        BY <1>1, <1>12 DEF Coherent, StatusFits, Kinds, PhasesOf, SnapshotPhases
    <2>2. /\ flow.phase = "before_content_task_dispatch_snapshot" => next = "dispatch_content_tasks"
          /\ flow.phase = "after_content_task_batch_snapshot" => next = "coordinator_callback"
        BY DEF next
    <2>3. PersistedBatch' = flow.source
        BY <1>6, <1>10, <1>12, <2>1, <2>2
        DEF PersistedBatch, AtBatchPhase, Terminal, PersistedBatchPhases, HasCreatedCallbackStep, NoStep
    <2>4. \A d \in delivered : d \in DOMAIN lineage /\ lineage[d].source # flow.source
        <3>1. CASE flow.phase = "before_content_task_dispatch_snapshot"
            BY <3>1 DEF Coherent, DispatchesFit, PreDispatchPhases, TypeOK
        <3>2. CASE flow.phase = "after_content_task_batch_snapshot"
            <4>1. Undelivered BY <3>2 DEF Coherent, DispatchesFit, AfterPhases
            <4>2. flow.dispatch \in DOMAIN lineage /\ delivered \subseteq DOMAIN lineage
                BY <4>1 DEF Undelivered, Coherent, TypeOK, Flows
            <4>3. lineage[flow.dispatch].source = flow.source BY <4>1 DEF Undelivered
            <4> QED BY <4>1, <4>2, <4>3 DEF Undelivered, Coherent, DispatchesFit
        <3> QED BY <2>1, <3>1, <3>2
    <2>5. ReleasedUntilRejection'
        BY <1>1, <2>3, <2>4 DEF ReleasedUntilRejection, WokenByRejection, Handed
    <2>6. ASSUME NEW kind \in Checkpoints' PROVE AtExactBoundary(kind)'
        <3>1. CASE flow.phase = "before_content_task_dispatch_snapshot"
            <4>1. kind = "before_content_task_dispatch"
                BY <1>10, <2>6, <3>1 DEF Checkpoints, CheckpointKind
            <4> QED BY <1>6, <2>2, <3>1, <4>1 DEF AtExactBoundary
        <3>2. CASE flow.phase = "after_content_task_batch_snapshot"
            <4>1. kind = "after_content_task_batch_terminal"
                BY <1>10, <2>6, <3>2 DEF Checkpoints, CheckpointKind
            <4>2. flow.dispatch # 0
                BY <3>2 DEF Coherent, DispatchesFit, AfterPhases, Undelivered
            <4> QED BY <1>1, <1>6, <2>2, <3>2, <4>1, <4>2 DEF AtExactBoundary, ChildrenTerminal
        <3> QED BY <2>1, <3>1, <3>2
    <2>7. CheckpointsAreEligible' BY <2>6 DEF CheckpointsAreEligible, SnapshotEligible
    <2> QED BY <1>1, <1>3, <1>4, <1>6, <1>7, <1>8, <1>9, <2>5, <2>7, EndCoherent DEF Coherent, TypeOK
<1> QED BY <1>11, <1>12

\* The children of a dispatch exist before the flow waits for them, and what
\* it waits for is the batch it has pending.
LEMMA DispatchCoherent == ASSUME Coherent, Dispatch PROVE Coherent'
<1>1. /\ step.type = "dispatch_step" /\ step # NoStep /\ step.id = clock /\ step.id # 0
      /\ flow.phase \in DispatchPhases /\ flow.status = "running" /\ running = {}
      /\ UNCHANGED <<plan, delivered, observed, published, clock>>
    BY StepsPhase DEF Dispatch
<1>2. CASE EndStep("failed") /\ Fail("dispatch") /\ UNCHANGED <<running, lineage>>
    BY <1>1, <1>2, FailCoherent DEF Outcomes
<1> DEFINE d == step.id
           pair == [kind |-> flow.kind, source |-> flow.source]
           next == CASE flow.kind = "content_tasks"    -> "waiting_content_tasks"
                     [] flow.kind = "resource_request" -> "waiting_resource_request"
                     [] flow.kind = "repo_exploration" -> "waiting_repo_exploration"
<1>3. ASSUME EndStep("dispatched"),
             NEW created \in SUBSET Children, running' = running \cup ({d} \X created),
             lineage' = [e \in DOMAIN lineage \cup {d} |-> IF e = d THEN pair ELSE lineage[e]],
             flow' = [flow EXCEPT !.dispatch = d, !.status = "waiting", !.phase = next]
      PROVE  Coherent'
    <2>1. flow.phase \in PreDispatchPhases /\ flow.kind \in Kinds
        BY <1>1 DEF PreDispatchPhases, DispatchPhases, Coherent, StatusFits, PhasesOf, Kinds
    <2>2. next \in WaitingPhases /\ next \in Phases /\ next \in PhasesOf(flow.kind)
          /\ (flow.kind = "content_tasks" => next = "waiting_content_tasks")
          /\ next \notin PreDispatchPhases \cup {"coordinator_callback", "mark_repo_ready",
                                             "initial_repo_exploration_plan"}
        BY <2>1 DEF Kinds, Phases, WaitingPhases, PhasesOf, PreDispatchPhases, DispatchPhases
    <2>3. /\ flow.source # 0 /\ \A e \in DOMAIN lineage : lineage[e].source # flow.source
          /\ d \notin DOMAIN lineage /\ d \in 1..clock /\ flow.source \in 1..clock
          /\ delivered \subseteq DOMAIN lineage
        BY <1>1, <2>1 DEF Coherent, DispatchesFit, StepFits, TypeOK, Flows
    <2>4. /\ DOMAIN lineage' = DOMAIN lineage \cup {d} /\ lineage'[d] = pair
          /\ \A e \in DOMAIN lineage : lineage'[e] = lineage[e]
        BY <1>3, <2>3
    <2>5. pair \in [kind : Kinds, source : 1..clock] /\ pair.source = flow.source /\ pair.kind = flow.kind
        BY <2>1, <2>3
    <2> HIDE DEF pair, next
    <2>6. /\ flow' \in Flows' /\ flow'.phase = next /\ flow'.status = "waiting" /\ flow'.dispatch = d
          /\ flow'.kind = flow.kind /\ flow'.source = flow.source
        BY <1>1, <1>3, <2>2, <2>4 DEF Coherent, TypeOK, Flows
    <2>7. /\ step' = NoStep /\ hook' = TRUE
          /\ last'.type = "dispatch_step" /\ last'.outcome = "dispatched"
          /\ last'.callback = step.callback /\ last'.mode = step.mode
          /\ last' \in Ended'
        BY <1>1, <1>3, <2>4 DEF EndStep, Ended, Steps, Flows, Coherent, TypeOK, Outcomes
    <2>8. running' = {d} \X created BY <1>1, <1>3
    <2>9. TypeOK'
        <3>1. step' \in Steps' /\ step'.mode # "callback"
            BY <2>7 DEF Steps, NoStep, StepTypes, Modes
        <3>2. lineage' \in [DOMAIN lineage' -> [kind : Kinds, source : 1..clock']]
            BY <1>1, <1>3, <2>4, <2>5 DEF Coherent, TypeOK
        <3> QED BY <1>1, <2>3, <2>4, <2>6, <2>7, <2>8, <3>1, <3>2 DEF Coherent, TypeOK
    <2>10. StatusFits' BY <2>2, <2>6, PhasesDiffer, <2>1 DEF StatusFits
    <2>11. StepFits' /\ ChildrenFit' /\ ReleaseFits' /\ HookFits'
        BY <1>1, <2>2, <2>6, <2>7, <2>8, CallbacksFit DEF StepFits, ChildrenFit, ReleaseFits, HookFits, Coherent
    <2>12. DispatchesFit'
        <3>1. Undelivered' BY <1>1, <2>3, <2>4, <2>6 DEF Undelivered, pair
        <3>2. \A e, f \in DOMAIN lineage' : lineage'[e].source = lineage'[f].source => e = f
            BY <2>3, <2>4, <2>5 DEF Coherent, DispatchesFit
        <3> QED BY <2>2, <2>6, <3>1, <3>2 DEF DispatchesFit
    <2>13. PlanFits'
        <3>1. plan # 0 /\ flow.source = plan => DOMAIN lineage = {} /\ flow.kind = "repo_exploration"
            BY <2>1 DEF Coherent, PlanFits
        <3> QED BY <1>1, <2>2, <2>4, <2>5, <2>6, <3>1 DEF PlanFits
    <2>14. CheckpointsAreEligible' BY <2>7 DEF CheckpointsAreEligible, Checkpoints
    <2>15. CallbackAfterChildren' BY <1>1, <2>3, <2>8 DEF CallbackAfterChildren
    <2>16. PersistedBatch' = IF flow.kind = "content_tasks" THEN flow.source ELSE 0
        BY <2>2, <2>6 DEF PersistedBatch, AtBatchPhase, Terminal, PersistedBatchPhases
    <2>17. PendingWhileTasksRun' BY <2>4, <2>5, <2>8, <2>16 DEF PendingWhileTasksRun
    <2>18. ReleasedUntilRejection'
        BY <1>1, <2>3, <2>4, <2>16 DEF ReleasedUntilRejection, WokenByRejection, Handed, Coherent, TypeOK
    <2> QED BY <2>9, <2>10, <2>11, <2>12, <2>13, <2>14, <2>15, <2>17, <2>18 DEF Coherent, BatchLifecycle
<1> QED BY <1>2, <1>3 DEF Dispatch

\* The gate of a requirement's resumption.
LEMMA GateCoherent == ASSUME Coherent, ResumeGate PROVE Coherent'
<1>1. /\ step.type # "none" /\ flow.status = "running"
      /\ UNCHANGED <<running, lineage, plan, delivered, observed, published, clock>>
    BY StepsPhase DEF ResumeGate
<1>2. ASSUME NEW outcome \in {"still_waiting", "resumed"}, EndStep(outcome), flow' \in Flows',
             NEW phase \in {"waiting_requirement", "coordinator_requirement_resume"},
             flow'.phase = phase,
             flow'.status = IF phase = "waiting_requirement" THEN "waiting" ELSE "running",
             flow'.dispatch = flow.dispatch
      PROVE  Coherent'
    <2>1. StatusFits' BY <1>2 DEF StatusFits, WaitingPhases, PhasesOf, Kinds
    <2>2. DispatchesFit'
        BY <1>1, <1>2
        DEF DispatchesFit, PreDispatchPhases, DispatchPhases, WaitingPhases, AfterPhases, Coherent
    <2>3. PlanFits' BY <1>1, <1>2 DEF PlanFits, PreDispatchPhases, DispatchPhases, Coherent
    <2>4. ~AtBatchPhase' BY <1>2 DEF AtBatchPhase, PersistedBatchPhases
    <2> QED BY <1>1, <1>2, <2>1, <2>2, <2>3, <2>4, EndOutsideBatch DEF Outcomes, Coherent, TypeOK, WaitingPhases
<1>3. CASE EndStep("still_waiting") /\ MoveTo("waiting_requirement")
    <2>1. flow' \in Flows' /\ flow'.phase = "waiting_requirement" /\ flow'.status = "waiting"
          /\ flow'.dispatch = flow.dispatch
        BY <1>1, <1>3 DEF MoveTo, StatusOf, Coherent, TypeOK, Flows, Phases
    <2> QED BY <1>2, <1>3, <2>1
<1>4. CASE /\ EndStep("resumed")
           /\ flow' = [flow EXCEPT !.phase = "coordinator_requirement_resume", !.awaiting = FALSE]
    <2>1. flow' \in Flows' /\ flow'.phase = "coordinator_requirement_resume"
          /\ flow'.status = "running" /\ flow'.dispatch = flow.dispatch
        BY <1>1, <1>4 DEF Coherent, TypeOK, Flows, Phases
    <2> QED BY <1>2, <1>4, <2>1
<1>5. CASE EndStep("invalid") /\ Fail("gate")
    BY <1>1, <1>5, FailCoherent DEF Outcomes
<1> QED BY <1>3, <1>4, <1>5 DEF ResumeGate

\* A release is rejected, left to the operator, or left to the hook.
LEMMA ReadyCoherent == ASSUME Coherent, MarkRepoReady PROVE Coherent'
<1>1. /\ step.type = "mark_coordinator_repo_ready_step" /\ flow.status = "running"
      /\ UNCHANGED <<running, lineage, plan, delivered, observed, published, clock>>
    BY StepsPhase DEF MarkRepoReady
<1>2. CASE /\ EndStep("candidate_blocked")
           /\ flow' = [flow EXCEPT !.phase = "coordinator_callback", !.summary = FALSE]
    <2>1. flow' \in Flows' /\ flow'.phase = "coordinator_callback"
          /\ flow'.status = "running" /\ flow'.dispatch = flow.dispatch
        BY <1>1, <1>2 DEF Coherent, TypeOK, Flows, Phases
    <2>2. StatusFits' BY <2>1 DEF StatusFits, WaitingPhases, PhasesOf, Kinds
    <2>3. last'.type = "mark_coordinator_repo_ready_step" /\ last'.outcome = "candidate_blocked"
        BY <1>1, <1>2 DEF EndStep
    <2>4. DispatchesFit'
        BY <1>1, <2>1, <2>3
        DEF DispatchesFit, PreDispatchPhases, DispatchPhases, WaitingPhases, AfterPhases, Coherent
    <2>5. PlanFits' BY <1>1, <2>1 DEF PlanFits, PreDispatchPhases, DispatchPhases, Coherent
    <2>6. ReleasedUntilRejection' BY <2>3 DEF ReleasedUntilRejection, WokenByRejection
    <2>7. CheckpointsAreEligible' BY <2>3 DEF CheckpointsAreEligible, Checkpoints
    <2> QED BY <1>1, <1>2, <2>1, <2>2, <2>4, <2>5, <2>6, <2>7, EndCoherent DEF Outcomes, Coherent, TypeOK, WaitingPhases
<1>3. ASSUME NEW outcome \in {"ready_marked", "candidate_prepared"}, EndStep(outcome),
             flow' = [flow EXCEPT !.phase = "completed", !.status = "completed"]
      PROVE  Coherent'
    <2>1. flow' \in Flows' /\ flow'.phase = "completed"
          /\ flow'.status = "completed" /\ flow'.dispatch = flow.dispatch
        BY <1>1, <1>3 DEF Coherent, TypeOK, Flows, Phases
    <2>2. StatusFits' BY <2>1 DEF StatusFits, WaitingPhases, PhasesOf, Kinds
    <2>3. DispatchesFit'
        BY <1>1, <2>1
        DEF DispatchesFit, PreDispatchPhases, DispatchPhases, WaitingPhases, AfterPhases, Coherent
    <2>4. PlanFits' BY <1>1, <2>1 DEF PlanFits, PreDispatchPhases, DispatchPhases, Coherent
    <2>5. ~AtBatchPhase' BY <2>1 DEF AtBatchPhase, Terminal
    <2> QED BY <1>1, <1>3, <2>1, <2>2, <2>3, <2>4, <2>5, EndOutsideBatch DEF Outcomes, Coherent, TypeOK, WaitingPhases
<1> QED BY <1>2, <1>3 DEF MarkRepoReady

\* The hook needs nothing, takes its checkpoints, or commits the release: the
\* flow stays where its step's result left it, or it fails.
LEMMA HookCoherent ==
    ASSUME Coherent, hook, hook' = FALSE, last' \in Ended',
           last'.type = last.type, last'.mode = last.mode, last'.callback = last.callback,
           last'.outcome = last.outcome,
           UNCHANGED <<step, running, lineage, plan, delivered, observed, clock>>,
           published' \in BOOLEAN,
           \/ flow' = flow
           \/ ~(last.type = "dispatch_step" /\ last.outcome = "dispatched")
              /\ \E error \in {"snapshot", "release"} : Fail(error),
           last.outcome = "candidate_prepared" => flow'.status # "completed" \/ published',
           last.outcome # "candidate_prepared" => published' = published
    PROVE  Coherent'
<1>1. /\ flow' \in Flows' /\ flow'.phase = flow.phase /\ flow'.kind = flow.kind
      /\ flow'.source = flow.source /\ flow'.dispatch = flow.dispatch /\ flow'.summary = flow.summary
      /\ flow'.status \in {flow.status, "failed"}
      /\ flow'.status # flow.status => flow.phase \notin WaitingPhases
    BY DEF Fail, Coherent, TypeOK, Flows, HookFits
<1>2. step = NoStep BY DEF Coherent, StepFits
<1>3. TypeOK' BY <1>1 DEF Coherent, TypeOK, Steps
<1>4. StatusFits' BY <1>1 DEF Coherent, StatusFits
<1>5. StepFits' /\ ChildrenFit' /\ HookFits'
    BY <1>1, <1>2 DEF Coherent, StepFits, ChildrenFit, HookFits
<1>6. DispatchesFit' BY <1>1 DEF Coherent, DispatchesFit, Undelivered
<1>7. PlanFits' BY <1>1 DEF Coherent, PlanFits
<1>8. ReleaseFits' BY <1>1 DEF Coherent, ReleaseFits
<1>9. CheckpointsAreEligible' BY DEF CheckpointsAreEligible
<1>10. BatchLifecycle'
    <2>1. \/ PersistedBatch' = 0 /\ flow.phase \notin WaitingPhases
          \/ PersistedBatch' = PersistedBatch
        BY <1>1 DEF PersistedBatch, AtBatchPhase, Terminal, HasCreatedCallbackStep
    <2>2. CASE PersistedBatch' = 0 /\ flow.phase \notin WaitingPhases
        <3>1. running = {} BY <2>2 DEF Coherent, ChildrenFit
        <3>2. \A d \in delivered : lineage[d].source # 0
            BY DEF Coherent, TypeOK
        <3> QED BY <2>2, <3>1, <3>2
            DEF BatchLifecycle, CallbackAfterChildren, PendingWhileTasksRun, ReleasedUntilRejection, WokenByRejection, Handed
    <2>3. CASE PersistedBatch' = PersistedBatch
        BY <2>3 DEF Coherent, BatchLifecycle, CallbackAfterChildren, PendingWhileTasksRun,
                    ReleasedUntilRejection, WokenByRejection, Handed
    <2> QED BY <2>1, <2>2, <2>3
<1> QED BY <1>3, <1>4, <1>5, <1>6, <1>7, <1>8, <1>9, <1>10 DEF Coherent

\* The hook's three outcomes.
LEMMA StableCoherent == ASSUME Coherent, AfterStepTerminalStable PROVE Coherent'
<1>1. CASE NothingStable
    <2>1. last' \in Ended' BY <1>1 DEF NothingStable, Coherent, TypeOK, Ended
    <2> QED BY <1>1, <2>1, HookCoherent DEF NothingStable, Coherent, TypeOK
<1>2. CASE RecordSnapshot
    <2>1. /\ last' \in Ended' /\ last'.type = last.type /\ last'.mode = last.mode
          /\ last'.callback = last.callback /\ last'.outcome = last.outcome
        BY <1>2 DEF RecordSnapshot, Coherent, TypeOK, Ended
    <2>2. last.outcome = "dispatched" => last.type # "dispatch_step"
        BY <1>2 DEF RecordSnapshot, Checkpoints
    <2>3. flow' = flow \/ Fail("snapshot") BY <1>2 DEF RecordSnapshot
    <2>4. UNCHANGED <<step, running, lineage, plan, delivered, observed, published, clock>>
          /\ hook /\ hook' = FALSE /\ last.outcome # "candidate_prepared"
        BY <1>2 DEF RecordSnapshot
    <2> QED BY <2>1, <2>2, <2>3, <2>4, HookCoherent DEF Coherent, TypeOK
<1>3. CASE CommitPreparedRelease
    <2>1. last' \in Ended' BY <1>3 DEF CommitPreparedRelease, Coherent, TypeOK, Ended
    <2>2. CASE published' = TRUE /\ flow' = flow
        BY <1>3, <2>1, <2>2, HookCoherent DEF CommitPreparedRelease
    <2>3. CASE Fail("release") /\ published' = published
        <3>1. flow'.status # "completed" BY <2>3 DEF Fail, Coherent, TypeOK, Flows
        <3> QED BY <1>3, <2>1, <2>3, <3>1, HookCoherent DEF CommitPreparedRelease, Coherent, TypeOK
    <2> QED BY <1>3, <2>2, <2>3 DEF CommitPreparedRelease
<1> QED BY <1>1, <1>2, <1>3 DEF AfterStepTerminalStable

\* The wait ends when the children do: the batch is still the one the flow
\* has pending, and was not called back.
LEMMA ExitCoherent == ASSUME Coherent, OnExitWaiting PROVE Coherent'
<1> DEFINE next == AfterWaiting(flow.phase)
<1>1. /\ flow.status = "waiting" /\ step = NoStep /\ ~hook
      /\ flow' = [flow EXCEPT !.status = "running", !.phase = next]
      /\ UNCHANGED <<step, last, hook, running, lineage, plan, delivered, observed, published, clock>>
      /\ \/ flow.phase \in WaitingPhases /\ ChildrenTerminal(flow.dispatch)
         \/ flow.phase = "waiting_requirement"
    BY DEF OnExitWaiting, CanExitWaiting, Idle
<1>2. running = {}
    BY <1>1 DEF Coherent, ChildrenFit, ChildrenTerminal, WaitingPhases
<1>3. /\ next \in Phases /\ next \in AfterPhases \cup {"requirement_resume_gate"}
      /\ next \notin PreDispatchPhases \cup WaitingPhases
      /\ next \notin {"waiting_requirement", "completed", "mark_repo_ready", "coordinator_callback",
                      "initial_repo_exploration_plan"}
      /\ next # "requirement_resume_gate" => flow.phase \in WaitingPhases
      /\ \A kind \in Kinds : next \in PhasesOf(kind) => flow.phase \in PhasesOf(kind)
    BY <1>1 DEF AfterWaiting, Phases, AfterPhases, PreDispatchPhases, DispatchPhases, WaitingPhases,
                PhasesOf, Kinds
<1> HIDE DEF next
<1>4. /\ flow' \in Flows' /\ flow'.phase = next /\ flow'.status = "running" /\ flow'.kind = flow.kind
      /\ flow'.source = flow.source /\ flow'.dispatch = flow.dispatch
    BY <1>1, <1>3 DEF Coherent, TypeOK, Flows
<1>5. TypeOK' BY <1>1, <1>4 DEF Coherent, TypeOK, Steps, Ended
<1>6. StatusFits' BY <1>1, <1>3, <1>4 DEF Coherent, StatusFits
<1>7. StepFits' /\ ChildrenFit' /\ ReleaseFits' /\ HookFits'
    BY <1>1, <1>2, <1>4 DEF Coherent, StepFits, ChildrenFit, ReleaseFits, HookFits
<1>8. next # "requirement_resume_gate" => Undelivered
    BY <1>3 DEF Coherent, DispatchesFit
<1>9. DispatchesFit'
    BY <1>1, <1>3, <1>4, <1>8 DEF Coherent, DispatchesFit, Undelivered, AfterPhases, WaitingPhases
<1>10. PlanFits' BY <1>1, <1>3, <1>4 DEF Coherent, PlanFits
<1>11. CheckpointsAreEligible' BY <1>1 DEF CheckpointsAreEligible
<1>12. ReleasedUntilRejection'
    <2>1. \A d \in delivered : d \in DOMAIN lineage /\ lineage[d].source # 0
        BY DEF Coherent, TypeOK
    <2>2. CASE next = "requirement_resume_gate"
        <3>1. PersistedBatch' = 0 BY <1>4, <2>2 DEF PersistedBatch, AtBatchPhase, PersistedBatchPhases
        <3> QED BY <1>1, <2>1, <3>1 DEF ReleasedUntilRejection, WokenByRejection, Handed
    <2>3. CASE next # "requirement_resume_gate"
        <3>1. \A d \in delivered : lineage[d].source # flow.source
            <4>1. Undelivered BY <2>3, <1>8
            <4>2. flow.dispatch \in DOMAIN lineage /\ lineage[flow.dispatch].source = flow.source
                BY <4>1 DEF Undelivered, Coherent, TypeOK, Flows
            <4> QED BY <2>1, <4>1, <4>2 DEF Undelivered, Coherent, DispatchesFit
        <3>2. PersistedBatch' \in {0, flow.source} BY <1>4 DEF PersistedBatch
        <3> QED BY <1>1, <2>1, <3>1, <3>2 DEF ReleasedUntilRejection, WokenByRejection, Handed
    <2> QED BY <2>2, <2>3
<1>13. BatchLifecycle'
    BY <1>1, <1>2, <1>12 DEF BatchLifecycle, CallbackAfterChildren, PendingWhileTasksRun
<1> QED BY <1>5, <1>6, <1>7, <1>9, <1>10, <1>11, <1>13 DEF Coherent

\* The operator retries a refused checkpoint: the dispatch it closes was not
\* called back, so the batch is pending again.
LEMMA RetryCoherent == ASSUME Coherent, RetryContentSnapshot PROVE Coherent'
<1>1. /\ flow.status = "failed" /\ step = NoStep /\ ~hook /\ flow.phase = "coordinator_callback"
      /\ last.outcome = "snapshot_created"
      /\ flow' = [flow EXCEPT !.status = "running", !.error = "none"]
      /\ last' = [last EXCEPT !.recorded = TRUE]
      /\ UNCHANGED <<step, hook, running, lineage, plan, delivered, observed, published, clock>>
    BY DEF RetryContentSnapshot, Idle
<1>2. /\ flow' \in Flows' /\ flow'.phase = flow.phase /\ flow'.status = "running"
      /\ flow'.kind = flow.kind /\ flow'.source = flow.source /\ flow'.dispatch = flow.dispatch
      /\ flow'.summary = flow.summary
    BY <1>1 DEF Coherent, TypeOK, Flows
<1>3. /\ last' \in Ended' /\ last'.type = last.type /\ last'.mode = last.mode
      /\ last'.callback = last.callback /\ last'.outcome = last.outcome
    BY <1>1 DEF Coherent, TypeOK, Ended
<1>4. TypeOK' BY <1>1, <1>2, <1>3 DEF Coherent, TypeOK, Steps
<1>5. StatusFits' BY <1>1, <1>2 DEF Coherent, StatusFits, WaitingPhases
<1>6. running = {} BY <1>1 DEF Coherent, ChildrenFit, WaitingPhases
<1>7. StepFits' /\ ChildrenFit' /\ ReleaseFits' /\ HookFits'
    BY <1>1, <1>2, <1>3, <1>6 DEF Coherent, StepFits, ChildrenFit, ReleaseFits, HookFits
<1>8. DispatchesFit' BY <1>1, <1>2, <1>3 DEF Coherent, DispatchesFit, Undelivered
<1>9. PlanFits' BY <1>1, <1>2 DEF Coherent, PlanFits
<1>10. CheckpointsAreEligible' BY <1>1 DEF CheckpointsAreEligible
<1>11. ReleasedUntilRejection'
    <2>1. \A d \in delivered : d \in DOMAIN lineage /\ lineage[d].source # 0
        BY DEF Coherent, TypeOK
    <2>2. SUFFICES ASSUME last.type # "mark_coordinator_repo_ready_step"
                   PROVE  \A d \in delivered : lineage[d].source \notin {0, flow.source}
        <3>1. PersistedBatch' \in {0, flow.source} BY <1>2 DEF PersistedBatch
        <3> QED BY <1>1, <1>3, <3>1 DEF ReleasedUntilRejection, WokenByRejection, Handed
    <2>3. Undelivered BY <1>1, <2>2 DEF Coherent, DispatchesFit
    <2>4. flow.dispatch \in DOMAIN lineage /\ lineage[flow.dispatch].source = flow.source
        BY <2>3 DEF Undelivered, Coherent, TypeOK, Flows
    <2> QED BY <2>1, <2>3, <2>4 DEF Undelivered, Coherent, DispatchesFit
<1>12. BatchLifecycle'
    BY <1>1, <1>6, <1>11 DEF BatchLifecycle, CallbackAfterChildren, PendingWhileTasksRun
<1> QED BY <1>4, <1>5, <1>7, <1>8, <1>9, <1>10, <1>12 DEF Coherent

\* The operator starts the agent over: no batch is pending.
LEMMA ResetCoherent == ASSUME Coherent, ResetForCurrentTruth PROVE Coherent'
<1>1. /\ step = NoStep /\ ~hook /\ flow.phase = "coordinator_callback"
      /\ flow.status = "running" \/ last.outcome = "incomplete"
      /\ flow' = [flow EXCEPT !.phase = "coordinator_agent", !.status = "running", !.error = "none"]
      /\ UNCHANGED <<step, last, hook, running, lineage, plan, delivered, observed, published, clock>>
    BY DEF ResetForCurrentTruth, Idle
<1>2. /\ flow' \in Flows' /\ flow'.phase = "coordinator_agent" /\ flow'.status = "running"
      /\ flow'.dispatch = flow.dispatch
    BY <1>1 DEF Coherent, TypeOK, Flows, Phases
<1>3. TypeOK' BY <1>1, <1>2 DEF Coherent, TypeOK, Steps, Ended
<1>4. StatusFits' BY <1>2 DEF StatusFits, WaitingPhases, PhasesOf, Kinds
<1>5. running = {} BY <1>1 DEF Coherent, ChildrenFit, WaitingPhases
<1>6. StepFits' /\ ChildrenFit' /\ ReleaseFits' /\ HookFits'
    BY <1>1, <1>2, <1>5 DEF Coherent, StepFits, ChildrenFit, ReleaseFits, HookFits
<1>7. DispatchesFit'
    BY <1>1, <1>2
    DEF DispatchesFit, PreDispatchPhases, DispatchPhases, WaitingPhases, AfterPhases, Coherent
<1>8. PlanFits' BY <1>1, <1>2 DEF PlanFits, PreDispatchPhases, DispatchPhases, Coherent
<1>9. CheckpointsAreEligible' BY <1>1 DEF CheckpointsAreEligible
<1>10. PersistedBatch' = 0 BY <1>2 DEF PersistedBatch, AtBatchPhase, PersistedBatchPhases
<1>11. \A d \in delivered : lineage[d].source # 0 BY DEF Coherent, TypeOK
<1>12. BatchLifecycle'
    BY <1>1, <1>5, <1>10, <1>11
    DEF BatchLifecycle, CallbackAfterChildren, PendingWhileTasksRun, ReleasedUntilRejection, WokenByRejection, Handed
<1> QED BY <1>3, <1>4, <1>6, <1>7, <1>8, <1>9, <1>12 DEF Coherent

\* A new step in place of a turn that raised or was suspended: the phase asks for
\* it still, and the batch it calls back was handed over with the first one.
LEMMA RecoverCoherent ==
    ASSUME Coherent, RecoverAgentStep
    PROVE  /\ Coherent'
           /\ step'.mode = "callback" => step'.callback = Unanswered
<1>1. /\ clock < MaxSteps /\ clock' = clock + 1
      /\ step' = [id |-> clock + 1, type |-> "coordinator_agent_step",
                  mode |-> Recovered.mode, callback |-> Recovered.callback]
      /\ UNCHANGED <<last, hook, running, lineage, plan, delivered, observed, published>>
    BY DEF RecoverAgentStep
<1>2. clock \in Nat /\ clock' \in 0..MaxSteps /\ clock' # 0
    BY <1>1, StepAssumption DEF Coherent, TypeOK
<1>3. /\ flow.phase \in AgentPhases /\ ~hook
      /\ flow'.phase = flow.phase /\ flow'.status = "running" /\ flow'.kind = flow.kind
      /\ flow'.source = flow.source /\ flow'.dispatch = flow.dispatch /\ flow'.summary = flow.summary
      /\ flow' \in Flows
    <2>1. CASE step.type = "coordinator_agent_step"
        <3>1. UNCHANGED flow BY <2>1 DEF RecoverAgentStep, Idle, NoStep
        <3> QED BY <2>1, <3>1, StepsPhase DEF Coherent, TypeOK
    <2>2. CASE step.type # "coordinator_agent_step"
        <3>1. /\ step = NoStep /\ ~hook /\ last.type = "coordinator_agent_step" /\ last.outcome = "error"
              /\ flow' = [flow EXCEPT !.status = "running", !.error = "none"]
            BY <2>2 DEF RecoverAgentStep, Idle
        <3>2. flow.phase \in AgentPhases BY <3>1 DEF Coherent, HookFits
        <3> QED BY <3>1, <3>2 DEF Coherent, TypeOK, Flows
    <2> QED BY <2>1, <2>2
<1>4. /\ Recovered.mode \in Modes /\ Recovered.callback \in DOMAIN lineage \cup {0}
      /\ Recovered.callback # 0 <=> Recovered.mode = "callback"
      /\ Recovered.mode = "callback" => Recovered.callback = Unanswered
    <2>1. \A d \in DOMAIN lineage : d # 0 BY DEF Coherent, TypeOK
    <2>2. CASE step.type = "coordinator_agent_step"
        <3>1. step # NoStep BY <2>2 DEF NoStep
        <3> QED BY <2>1, <2>2, <3>1 DEF Recovered, Unanswered, Coherent, TypeOK, Steps, StepFits
    <2>3. CASE step.type # "coordinator_agent_step"
        <3>1. step = NoStep /\ last.outcome = "error" BY <2>3 DEF RecoverAgentStep, Idle
        <3> QED BY <2>3, <3>1 DEF Recovered, Unanswered, Coherent, TypeOK, Ended, HookFits
    <2> QED BY <2>2, <2>3
<1>5. Recovered.mode # "callback" /\ flow.phase = "coordinator_callback" => WokenByRejection
    <2>1. CASE step.type = "coordinator_agent_step"
        <3>1. step # NoStep BY <2>1 DEF NoStep
        <3> QED BY <2>1, <3>1 DEF Recovered, Coherent, StepFits
    <2>2. CASE step.type # "coordinator_agent_step"
        BY <2>2 DEF RecoverAgentStep, Recovered, WokenByRejection
    <2> QED BY <2>1, <2>2
<1>6. running = {} /\ flow.phase \notin WaitingPhases
    BY <1>3 DEF Coherent, ChildrenFit, AgentPhases, WaitingPhases
<1>7. step' # NoStep BY <1>1, <1>2 DEF NoStep
<1>8. TypeOK'
    <2>1. step' \in Steps' BY <1>1, <1>2, <1>4 DEF Steps, StepTypes
    <2>2. flow' \in Flows' /\ last' \in Ended'
        BY <1>1, <1>2, <1>3 DEF Coherent, TypeOK, Flows, Ended
    <2>3. \A d \in DOMAIN lineage : d # 0 BY DEF Coherent, TypeOK
    <2>4. step'.mode = "callback" => step'.callback \in DOMAIN lineage BY <1>1, <1>4, <2>3
    <2> QED BY <1>1, <1>2, <2>1, <2>2, <2>4 DEF Coherent, TypeOK
<1>9. StatusFits' /\ ChildrenFit' /\ PlanFits' /\ ReleaseFits' /\ HookFits'
    <2>1. StatusFits' BY <1>3 DEF Coherent, StatusFits, AgentPhases, WaitingPhases
    <2>2. ChildrenFit' BY <1>1, <1>6 DEF ChildrenFit
    <2>3. PlanFits' BY <1>1, <1>3 DEF Coherent, PlanFits
    <2>4. ReleaseFits' /\ HookFits'
        BY <1>1, <1>3, <1>7 DEF Coherent, ReleaseFits, HookFits
    <2> QED BY <2>1, <2>2, <2>3, <2>4
<1>10. StepFits'
    <2>1. \A d \in DOMAIN lineage : lineage[d].source # clock' /\ d # clock'
        BY <1>1, <1>2 DEF Coherent, TypeOK
    <2>2. plan # clock' BY <1>1, <1>2 DEF Coherent, TypeOK
    <2>3. StepType(flow.phase)' = "coordinator_agent_step"
        BY <1>3 DEF StepType, AgentPhases, SnapshotPhases, DispatchPhases
    <2>4. WokenByRejection' = WokenByRejection BY <1>1 DEF WokenByRejection
    <2> QED BY <1>1, <1>2, <1>3, <1>4, <1>5, <2>1, <2>2, <2>3, <2>4 DEF StepFits
<1>11. DispatchesFit'
    BY <1>1, <1>3, <1>6, <1>7
    DEF Coherent, DispatchesFit, Undelivered, WaitingPhases, AfterPhases, AgentPhases
<1>12. CheckpointsAreEligible' BY <1>1, <1>3 DEF CheckpointsAreEligible
<1>13. BatchLifecycle'
    <2>1. CallbackAfterChildren' /\ PendingWhileTasksRun'
        BY <1>1, <1>6 DEF CallbackAfterChildren, PendingWhileTasksRun
    <2>2. \A d \in delivered : d \in DOMAIN lineage /\ lineage[d].source # 0
        BY DEF Coherent, TypeOK
    <2>3. WokenByRejection' = WokenByRejection BY <1>1 DEF WokenByRejection
    <2>4. PersistedBatch' = 0 \/ WokenByRejection
        BY <1>1, <1>3, <1>5
        DEF PersistedBatch, AtBatchPhase, HasCreatedCallbackStep, AgentPhases, PersistedBatchPhases
    <2>5. ReleasedUntilRejection'
        BY <1>1, <2>2, <2>3, <2>4 DEF ReleasedUntilRejection, WokenByRejection, Handed
    <2> QED BY <2>1, <2>5 DEF BatchLifecycle
<1> QED BY <1>1, <1>4, <1>8, <1>9, <1>10, <1>11, <1>12, <1>13 DEF Coherent

\* A child ends: fewer run.
LEMMA ChildCoherent == ASSUME Coherent, NEW x \in running, ChildEnds(x) PROVE Coherent'
<1>1. /\ running' = running \ {x}
      /\ UNCHANGED <<flow, step, last, hook, lineage, plan, delivered, observed, published, clock>>
    BY DEF ChildEnds
<1>2. TypeOK' BY <1>1 DEF Coherent, TypeOK, Flows, Steps, Ended
<1>3. StatusFits' /\ StepFits' /\ ChildrenFit' /\ PlanFits' /\ ReleaseFits' /\ HookFits'
    BY <1>1 DEF Coherent, StatusFits, StepFits, StepType, ChildrenFit, PlanFits, ReleaseFits, HookFits,
                WokenByRejection
<1>4. DispatchesFit' BY <1>1 DEF Coherent, DispatchesFit, Undelivered
<1>5. CheckpointsAreEligible'
    <2>1. /\ Checkpoints' = Checkpoints /\ AtBatchPhase' = AtBatchPhase
          /\ PersistedBatch' = PersistedBatch
        BY <1>1 DEF Checkpoints, IsInitialCallback, AtBatchPhase, Terminal, PersistedBatch,
                    HasCreatedCallbackStep
    <2>2. \A d : ChildrenTerminal(d) => ChildrenTerminal(d)'
        BY <1>1 DEF ChildrenTerminal
    <2>3. ASSUME NEW kind, AtExactBoundary(kind) PROVE AtExactBoundary(kind)'
        BY <1>1, <2>1, <2>2, <2>3 DEF AtExactBoundary, InitialCallbackContentFrontierMatches, ChildrenTerminal
    <2> QED BY <1>1, <2>1, <2>3 DEF Coherent, CheckpointsAreEligible, SnapshotEligible
<1>6. BatchLifecycle'
    BY <1>1 DEF Coherent, BatchLifecycle, CallbackAfterChildren, PendingWhileTasksRun,
                ReleasedUntilRejection, WokenByRejection, Handed, PersistedBatch, AtBatchPhase, Terminal,
                HasCreatedCallbackStep
<1> QED BY <1>2, <1>3, <1>4, <1>5, <1>6 DEF Coherent

\* What the requirement does is not in the invariant, and neither is a stutter.
LEMMA OtherCoherent ==
    ASSUME Coherent, RequirementChanges \/ UNCHANGED vars
    PROVE  Coherent'
<1>1. /\ UNCHANGED <<flow, step, last, hook, running, lineage, plan, delivered, published, clock>>
      /\ observed' \in BOOLEAN
    BY DEF RequirementChanges, vars, Coherent, TypeOK
<1>2. TypeOK' BY <1>1 DEF Coherent, TypeOK, Flows, Steps, Ended
<1>3. StatusFits' /\ StepFits' /\ ChildrenFit' /\ PlanFits' /\ ReleaseFits' /\ HookFits'
    BY <1>1 DEF Coherent, StatusFits, StepFits, StepType, ChildrenFit, PlanFits, ReleaseFits, HookFits,
                WokenByRejection
<1>4. DispatchesFit' BY <1>1 DEF Coherent, DispatchesFit, Undelivered
<1>5. CheckpointsAreEligible'
    BY <1>1 DEF Coherent, CheckpointsAreEligible, SnapshotEligible, Checkpoints, IsInitialCallback,
                AtBatchPhase, Terminal, AtExactBoundary, InitialCallbackContentFrontierMatches,
                ChildrenTerminal, PersistedBatch, HasCreatedCallbackStep
<1>6. BatchLifecycle'
    BY <1>1 DEF Coherent, BatchLifecycle, CallbackAfterChildren, PendingWhileTasksRun,
                ReleasedUntilRejection, WokenByRejection, Handed, PersistedBatch, AtBatchPhase, Terminal,
                HasCreatedCallbackStep
<1> QED BY <1>2, <1>3, <1>4, <1>5, <1>6 DEF Coherent

\* Every step of the flow, its hook and its environment keeps the invariant.
LEMMA NextCoherent == ASSUME Coherent, [Next]_vars PROVE Coherent'
<1>1. CASE CreateNextStep BY <1>1, CreateCoherent
<1>2. CASE OnStepTerminal
    BY <1>2, RaiseCoherent, InitialPlanCoherent, SubmitDispatchCoherent, AgentCoherent, EnsureCoherent,
       AnnounceCoherent, DispatchCoherent, GateCoherent, ReadyCoherent
    DEF OnStepTerminal
<1>3. CASE AfterStepTerminalStable BY <1>3, StableCoherent
<1>4. CASE OnExitWaiting BY <1>4, ExitCoherent
<1>5. CASE RetryContentSnapshot BY <1>5, RetryCoherent
<1>6. CASE ResetForCurrentTruth BY <1>6, ResetCoherent
<1>7. CASE \E x \in running : ChildEnds(x) BY <1>7, ChildCoherent
<1>8. CASE RequirementChanges \/ UNCHANGED vars BY <1>8, OtherCoherent
<1>9. CASE RecoverAgentStep BY <1>9, RecoverCoherent
<1> QED BY <1>1, <1>2, <1>3, <1>4, <1>5, <1>6, <1>7, <1>8, <1>9 DEF Next, Runtime

LEMMA CoherentInductive == Spec => []Coherent
BY InitCoherent, NextCoherent, PTL DEF Spec

\* The persisted flow, its steps and its dispatches have their types; the
\* source and the dispatch a flow names are steps that were created.
THEOREM FlowTypeCorrect == Spec => []TypeOK
<1>1. Coherent => TypeOK BY DEF Coherent
<1> QED BY CoherentInductive, <1>1, PTL

\* create_next_step answers every phase a running flow can rest in.
THEOREM AlwaysANextStep == Spec => []NeverStuck
<1>1. ASSUME Coherent PROVE NeverStuck
    <2>1. SUFFICES ASSUME flow.status = "running" PROVE StepType(flow.phase) # "none"
        BY DEF NeverStuck
    <2>2. flow.phase \in Phases /\ flow.phase \notin WaitingPhases \cup {"waiting_requirement", "completed"}
          /\ (flow.phase = "mark_repo_ready" => flow.summary)
        BY <1>1, <2>1 DEF Coherent, TypeOK, Flows, StatusFits
    <2> QED BY <2>2 DEF StepType, Phases, AgentPhases, SnapshotPhases, DispatchPhases
<1> QED BY CoherentInductive, <1>1, PTL

\* From its dispatch to its callback a batch is the pending one, and only
\* then, so that a restart rehydrates exactly the batch that runs.
THEOREM PendingIsWhatRuns == Spec => []BatchLifecycle
<1>1. Coherent => BatchLifecycle BY DEF Coherent
<1> QED BY CoherentInductive, <1>1, PTL

\* No checkpoint of the flow's own is refused for the batch it is taken at.
THEOREM OwnCheckpointsAccepted == Spec => []CheckpointsAreEligible
<1>1. Coherent => CheckpointsAreEligible BY DEF Coherent
<1> QED BY CoherentInductive, <1>1, PTL

\* A flow at rest as completed with a prepared release has published it.
THEOREM CompletedIsPublished == Spec => []CompletedMeansPublished
<1>1. Coherent => CompletedMeansPublished
    BY DEF Coherent, ReleaseFits, CompletedMeansPublished
<1> QED BY CoherentInductive, <1>1, PTL

\* No dispatch is called back twice, but in place of a turn that gave no answer.
THEOREM CalledBackOnce == Spec => CallbackOnce
<1> DEFINE Once == step'.id # step.id /\ step'.mode = "callback" => step'.callback \notin delivered \ {Unanswered}
<1>1. ASSUME Coherent, [Next]_vars PROVE [Once]_vars
    <2>1. CASE CreateNextStep BY <1>1, <2>1, CreateCoherent
    <2>2. CASE OnStepTerminal
        <3>1. step' = NoStep
            BY <2>2 DEF OnStepTerminal, StepRaises, InitialPlan, SubmitDispatch, SubmitRequirement,
                        SubmitRepoReady, AgentIncomplete, EnsureAgents, AnnounceSnapshot, Dispatch,
                        ResumeGate, MarkRepoReady, EndStep
        <3> QED BY <3>1 DEF NoStep
    <2>4. CASE RecoverAgentStep BY <1>1, <2>4, RecoverCoherent
    <2>3. CASE ~CreateNextStep /\ ~OnStepTerminal /\ ~RecoverAgentStep
        BY <1>1, <2>3
        DEF Next, Runtime, AfterStepTerminalStable, NothingStable, RecordSnapshot, CommitPreparedRelease,
            OnExitWaiting, RetryContentSnapshot, ResetForCurrentTruth, ChildEnds, RequirementChanges, vars
    <2> QED BY <2>1, <2>2, <2>3, <2>4
<1> QED BY CoherentInductive, <1>1, PTL DEF Spec, CallbackOnce
=============================================================================

------------------------------ MODULE DeclRound ------------------------------
(***************************************************************************)
(* Declaration rounds of one content node: the records that                *)
(* services/decl_graph keeps on disk (declarations, their revisions, the   *)
(* strategy and its rounds), the flow that executes a round stage by stage *)
(* (flows/content_node_task/decl_round), the content task whose Plan agent *)
(* plans and closes rounds (flows/content_node_task), and an operator who  *)
(* restarts failed agent steps.                                            *)
(*                                                                         *)
(* A declaration is the sequence of its revisions, the last one its head.  *)
(* Stage s takes a revision from state s - 1 to s. The runtime kit, which  *)
(* creates, runs and restarts the steps, is outside src/.                  *)
(*                                                                         *)
(* A round's record is loaded, changed and saved whole, by agents' tools,  *)
(* by the round's flow and by an operator's restart, without a lock that   *)
(* they share: what is loaded is a copy until it is saved.                 *)
(***************************************************************************)
EXTENDS Naturals, Sequences, FiniteSets, FiniteSetsExt

CONSTANTS
    Decls,          \* names of declarations
    LastStage,      \* the stages are 1..LastStage
    Goals,          \* target states a change may ask for
    AgentReviewed,  \* stages whose review_mode is "agent"
    MaxRetries,     \* max_retries_per_stage
    MaxRounds,      \* bound: rounds created
    MaxRevisions,   \* bound: revisions of all declarations
    MaxTasks,       \* bound: content tasks of the node
    MaxRestarts     \* bound: restarts of failed steps

ASSUME StageAssumption == LastStage \in Nat /\ Goals \cup AgentReviewed \subseteq 1..LastStage
ASSUME BoundAssumption == {MaxRetries, MaxRounds, MaxRevisions, MaxRestarts} \subseteq Nat /\ MaxTasks \in Nat \ {0}

VARIABLES
    decls,      \* the revisions of each declaration; <<>> if it has no record
    deleted,    \* declarations whose lifecycle is deleted
    strategy,   \* the latest strategy: "open" or "closed"
    rounds,     \* the rounds, in the order of round_index; each refers to
                \* a revision of a declaration, or to 0, none of them
    flows,      \* the DeclGraphRoundFlow of each round
    task,       \* the latest ContentNodeTaskFlow
    tasks,      \* content tasks so far
    closing,    \* the closeout that is being written, or NotClosing
    copy,       \* of each round, the record that its flow or a restart is about
                \* to save, and what for; or NoCopy
    planCopy,   \* the same for a closing tool, with the round it is of
    unreviewed, \* ghost: declarations with text that no review has passed
    lost,       \* ghost: running rounds whose failed step could not be recorded
    orphans,    \* ghost: declarations whose creation did not reach the round
    cut,        \* ghost: rounds whose closeout ended with the process
    dropped     \* ghost: a save of a round has dropped what another had saved

graph == <<decls, deleted, strategy, rounds>>
calls == <<closing, copy, planCopy>>
ghost == <<unreviewed, lost, orphans, cut, dropped>>
vars  == <<graph, flows, task, tasks, calls, ghost>>

Results == {"success", "blocked", "failed"}

Rank(kind)    == CASE kind = "success" -> 2 [] kind = "blocked" -> 1 [] kind = "failed" -> 0
Unfinished    == {"draft", "running", "awaiting"}
Current       == {r \in DOMAIN rounds : rounds[r].status \in Unfinished}
InStatus(st)  == {r \in Current : rounds[r].status = st}

NewRound == [status |-> "draft", refs |-> [d \in Decls |-> 0],
             exec |-> "none", marker |-> 0, result |-> "none"]

\* build_from_request, and a flow that was never dispatched.
NewFlow == [status |-> "running", phase |-> "round_start", stage |-> 0, retry |-> 0,
            targets |-> {}, worker |-> FALSE, review |-> "none", outcome |-> "none", attempt |-> 1]
NoFlow  == [NewFlow EXCEPT !.status = "none"]

NewTask    == [phase |-> "plan", child |-> 0, outcome |-> "none"]
NotClosing == [round |-> 0]
NoCopy     == [of |-> "nothing"]

Init ==
    /\ decls = [d \in Decls |-> <<>>] /\ deleted = {}
    /\ strategy = "closed" /\ rounds = <<>>
    /\ flows = [r \in 1..MaxRounds |-> NoFlow]
    /\ task = NewTask /\ tasks = 1
    /\ closing = NotClosing /\ copy = [r \in 1..MaxRounds |-> NoCopy] /\ planCopy = NoCopy
    /\ unreviewed = {} /\ lost = {} /\ orphans = {} /\ cut = {} /\ dropped = FALSE

HeadOf(d)    == decls[d][Len(decls[d])]
Active(d)    == decls[d] # <<>> /\ d \notin deleted
MoreRevisions == MapThenSumSet(LAMBDA d : Len(decls[d]), Decls) < MaxRevisions
Settled(d)   == Active(d) /\ ~HeadOf(d).open
RefsOf(r)    == {d \in Decls : rounds[r].refs[d] # 0}
Touched(d)   == \E r \in Current : d \in RefsOf(r)
RevOf(r, d)  == decls[d][rounds[r].refs[d]]
OpenHead(r, d) == Len(decls[d]) = rounds[r].refs[d] /\ HeadOf(d).open

\* Whoever saves a record puts it in the place of whatever is there by then.
Save(r, read, new) ==
    /\ rounds' = [rounds EXCEPT ![r] = new]
    /\ dropped' = (dropped \/ rounds[r] # read)

----------------------------------------------------------------------------
(* Planning tools of the Plan agent, which runs one at a time. Its turn    *)
(* may edit only a round that is a draft.                                  *)

Planning == task.phase = "plan" /\ closing = NotClosing /\ planCopy = NoCopy

EnsureStrategy ==
    /\ Planning /\ strategy = "closed"
    /\ strategy' = "open"
    /\ UNCHANGED <<decls, deleted, rounds, flows, task, tasks, calls, ghost>>

CloseStrategy ==
    /\ Planning /\ strategy = "open" /\ Current = {}
    /\ strategy' = "closed"
    /\ UNCHANGED <<decls, deleted, rounds, flows, task, tasks, calls, ghost>>

CreateRound ==
    /\ Planning /\ strategy = "open" /\ Current = {} /\ Len(rounds) < MaxRounds
    /\ rounds' = Append(rounds, NewRound)
    /\ UNCHANGED <<decls, deleted, strategy, flows, task, tasks, calls, ghost>>

Attach(r, d, n) == rounds' = [rounds EXCEPT ![r].refs[d] = n]

\* The record and its revision are written first, then the round's reference;
\* the last write may fail or never come.
CreateDecl(r, d, goal) ==
    /\ Planning /\ r \in InStatus("draft")
    /\ decls[d] = <<>> /\ MoreRevisions
    /\ decls' = [decls EXCEPT ![d] = <<[state |-> 0, goal |-> goal, open |-> TRUE]>>]
    /\ \/ Attach(r, d, 1) /\ UNCHANGED orphans
       \/ orphans' = orphans \cup {d} /\ UNCHANGED rounds
    /\ UNCHANGED <<deleted, strategy, flows, task, tasks, calls, unreviewed, lost, cut, dropped>>

\* One transaction writes revision, declaration and round.
OpenUpdate(r, d, start, goal) ==
    /\ Planning /\ r \in InStatus("draft")
    /\ Settled(d) /\ MoreRevisions
    /\ start <= HeadOf(d).state /\ start < goal
    /\ decls' = [decls EXCEPT ![d] = Append(@, [state |-> start, goal |-> goal, open |-> TRUE])]
    /\ Attach(r, d, Len(decls[d]) + 1)
    /\ UNCHANGED <<deleted, strategy, flows, task, tasks, calls, ghost>>

\* Mutant: the revisions that a discarded draft opened stay.
KeepRevisions(r) == UNCHANGED decls

\* Created declarations go, updated ones have their old head again.
DropRevisions(r) ==
    decls' = [d \in Decls |-> IF d \in RefsOf(r) THEN SubSeq(decls[d], 1, Len(decls[d]) - 1)
                                                 ELSE decls[d]]

DiscardDraft(r) ==
    /\ Planning /\ r \in InStatus("draft")
    /\ \A d \in RefsOf(r) : OpenHead(r, d)
    /\ DropRevisions(r)
    /\ rounds' = [rounds EXCEPT ![r].status = "discarded", ![r].refs = NewRound.refs]
    /\ UNCHANGED <<deleted, strategy, flows, task, tasks, calls, ghost>>

RestoreDecl(d, source) ==
    /\ Planning /\ Settled(d) /\ ~Touched(d) /\ MoreRevisions
    /\ source \in DOMAIN decls[d] /\ ~decls[d][source].open
    /\ decls' = [decls EXCEPT ![d] = Append(@, [@[source] EXCEPT !.goal = 0])]
    /\ UNCHANGED <<deleted, strategy, rounds, flows, task, tasks, calls, ghost>>

DeleteDecls(ds) ==
    /\ Planning /\ ds # {} /\ \A d \in ds : Settled(d) /\ ~Touched(d)
    /\ deleted' = deleted \cup ds
    /\ UNCHANGED <<decls, strategy, rounds, flows, task, tasks, calls, ghost>>

----------------------------------------------------------------------------
(* Closeout of a round by the Plan agent. It needs the round's result, its *)
(* summaries and its open revisions; it commits them one file at a time    *)
(* and the round last. Whatever fails restores the files it found.         *)

\* resolve_round_for_closeout: the round of the callback, or the current one.
ResolvesTo(r) == r \in InStatus("awaiting") /\ task.child \in {0, r}

\* write_round_summary loads the record and saves it with the text.
SummaryReads(r) ==
    /\ Planning /\ ResolvesTo(r)
    /\ planCopy' = [of |-> "summary", round |-> r, record |-> rounds[r]]
    /\ UNCHANGED <<graph, flows, task, tasks, closing, copy, ghost>>

SummaryWrites ==
    /\ planCopy.of = "summary"
    /\ Save(planCopy.round, planCopy.record, planCopy.record)
    /\ planCopy' = NoCopy
    /\ UNCHANGED <<decls, deleted, strategy, flows, task, tasks, closing, copy, unreviewed, lost, orphans, cut>>

\* Mutant: the recorded execution result is not consulted.
AllowAnyResult(r, kind) == rounds[r].status = "awaiting" /\ kind \in Results

\* Only a round that never ran may be closed without a recorded result.
AllowedResult(r, kind) ==
    \/ rounds[r].status = "draft" /\ kind # "success"
    \/ rounds[r].status = "awaiting" /\ Rank(kind) <= Rank(rounds[r].exec)

OpenCloseout(r, kind) ==
    /\ AllowedResult(r, kind)
    /\ closing' = [round |-> r, kind |-> kind, todo |-> RefsOf(r),
                   decls |-> decls, rounds |-> rounds]
    /\ UNCHANGED <<graph, flows, task, tasks, copy, planCopy, ghost>>

BeginCloseout(r, kind) == Planning /\ ResolvesTo(r) /\ OpenCloseout(r, kind)

Closing == closing # NotClosing

CommitRevision(d) ==
    /\ Closing /\ d \in closing.todo
    /\ OpenHead(closing.round, d)
    /\ decls' = [decls EXCEPT ![d][Len(decls[d])].open = FALSE]
    /\ closing' = [closing EXCEPT !.todo = @ \ {d}]
    /\ UNCHANGED <<deleted, strategy, rounds, flows, task, tasks, copy, planCopy, ghost>>

\* persist_round_closeout reads the round again.
PersistReads ==
    LET r == closing.round IN
    /\ Closing /\ closing.todo = {} /\ planCopy = NoCopy
    /\ rounds[r].status \in {"draft", "awaiting"}
    /\ planCopy' = [of |-> "closeout", round |-> r, record |-> rounds[r]]
    /\ UNCHANGED <<graph, flows, task, tasks, closing, copy, ghost>>

Persist ==
    LET r    == closing.round
        read == planCopy.record
    IN /\ Closing /\ planCopy.of = "closeout"
       /\ Save(r, read, [read EXCEPT !.status = "committed", !.result = closing.kind])
       /\ closing' = NotClosing /\ planCopy' = NoCopy
       /\ unreviewed' = unreviewed \ RefsOf(r)
       /\ UNCHANGED <<decls, deleted, strategy, flows, task, tasks, copy, lost, orphans, cut>>

\* A revision is not the open head, a guard refuses it, the projection fails
\* or the round is not to be persisted: the trees are written back.
RollBackCloseout ==
    /\ Closing
    /\ decls' = closing.decls /\ rounds' = closing.rounds
    /\ closing' = NotClosing /\ planCopy' = NoCopy
    /\ UNCHANGED <<deleted, strategy, flows, task, tasks, copy, ghost>>

\* The process ends, and with it the copies of records and trees.
Crash ==
    /\ Closing \/ planCopy # NoCopy \/ \E r \in DOMAIN copy : copy[r] # NoCopy
    /\ closing' = NotClosing /\ planCopy' = NoCopy /\ copy' = [r \in DOMAIN copy |-> NoCopy]
    /\ cut' = IF Closing /\ closing.todo # RefsOf(closing.round) THEN cut \cup {closing.round} ELSE cut
    /\ UNCHANGED <<graph, flows, task, tasks, unreviewed, lost, orphans, dropped>>

----------------------------------------------------------------------------
(* The content task: turns of the Plan agent and what they submit          *)

TaskTo(t) == task' = t /\ UNCHANGED <<graph, tasks, calls, ghost>>
TaskEnds(outcome) == [NewTask EXCEPT !.phase = "done", !.outcome = outcome]

\* submit_current_decl_round names the current draft.
SubmitRound(r) ==
    /\ Planning /\ r \in InStatus("draft")
    /\ TaskTo([task EXCEPT !.phase = "ensure", !.child = r]) /\ UNCHANGED flows

EnsureStageAgents ==
    /\ task.phase = "ensure"
    /\ TaskTo([task EXCEPT !.phase = "dispatch"]) \/ TaskTo(TaskEnds("failed"))
    /\ UNCHANGED flows

Dispatch ==
    /\ task.phase = "dispatch"
    /\ \/ TaskTo([task EXCEPT !.phase = "waiting"])
          /\ flows' = [flows EXCEPT ![task.child] = NewFlow]
       \/ TaskTo(TaskEnds("failed")) /\ UNCHANGED flows

\* can_exit_waiting, on_exit_waiting
ExitWaiting ==
    /\ task.phase = "waiting" /\ flows[task.child].status \in {"completed", "failed"}
    /\ \E phase \in {"checkpoint", "callback"} : TaskTo([task EXCEPT !.phase = phase])
    /\ UNCHANGED flows

ProgressCheckpoint ==
    /\ task.phase = "checkpoint"
    /\ TaskTo([task EXCEPT !.phase = "callback"]) \/ TaskTo(TaskEnds("failed"))
    /\ UNCHANGED flows

\* _completed_decl_round_id raises while the child, restarted, runs again: the
\* task fails unless its next attempt to create the step comes after the child.
CallPlanBack ==
    /\ task.phase = "callback"
    /\ IF task.child # 0 /\ flows[task.child].status = "running"
       THEN TaskTo(TaskEnds("failed"))
       ELSE TaskTo([task EXCEPT !.phase = "plan"])
    /\ UNCHANGED flows

\* Mutant: a terminal submission looks at the round of its callback only.
OwnRoundIsClosed == task.child \notin Current

\* _require_no_pending_decl_round
NoPendingRound == Current = {}

SubmitReady ==
    /\ Planning /\ NoPendingRound
    /\ TaskTo([task EXCEPT !.phase = "audit"]) /\ UNCHANGED flows

SubmitBlockedOrFailed ==
    /\ Planning /\ NoPendingRound
    /\ TaskTo(TaskEnds("failed")) /\ UNCHANGED flows

\* The turn ends without a submission.
PlanIncomplete == Planning /\ TaskTo(TaskEnds("failed")) /\ UNCHANGED flows

\* A failed audit is an internal wake: it names no round.
CompletionAudit ==
    /\ task.phase = "audit"
    /\ TaskTo(TaskEnds("ready")) \/ TaskTo([task EXCEPT !.phase = "callback", !.child = 0])
    /\ UNCHANGED flows

\* The Coordinator sends the node another task once this one is terminal.
StartTask ==
    /\ task.phase = "done" /\ tasks < MaxTasks /\ ~Closing
    /\ task' = NewTask /\ tasks' = tasks + 1
    /\ UNCHANGED <<graph, flows, calls, ghost>>

----------------------------------------------------------------------------
(* The round flow. Each action is one step and its consumer.               *)

AtAgentStep(r)   == flows[r].phase \in {"stage_worker", "stage_reviewer"}
RunsIn(r, phase) == flows[r].status = "running" /\ flows[r].phase = phase /\ copy[r] = NoCopy
Flow(r, f)       == flows' = [flows EXCEPT ![r] = f]
ToBuild(f, outcome) == [NewFlow EXCEPT !.phase = "build_result", !.outcome = outcome,
                                       !.attempt = f.attempt]
Ended(f, status) == [NoFlow EXCEPT !.status = status, !.attempt = f.attempt]

\* _advance_to_next_stage
ToNextStage(f) ==
    IF f.stage = LastStage
    THEN [f EXCEPT !.phase = "final_audit", !.stage = 0, !.targets = {}]
    ELSE [f EXCEPT !.phase = "stage_prepare", !.stage = @ + 1, !.retry = 0, !.targets = {},
                   !.worker = FALSE, !.review = "none"]

StepOnly == UNCHANGED <<graph, task, tasks, calls, ghost>>

\* While the first step of a flow starts a draft, its task waits for it and
\* nobody else writes the round: loading and saving it is one step here.
RoundStart(r) ==
    LET f == flows[r] IN
    /\ RunsIn(r, "round_start")
    /\ \/ /\ strategy = "open"
          /\ rounds[r].status = "draft" /\ rounds' = [rounds EXCEPT ![r].status = "running"]
          /\ Flow(r, IF RefsOf(r) = {} THEN ToBuild(f, "failed")
                     ELSE [f EXCEPT !.phase = "revision_normalize"])
       \/ Flow(r, ToBuild(f, "failed")) /\ UNCHANGED rounds
    /\ UNCHANGED <<decls, deleted, strategy, task, tasks, calls, ghost>>

Normalize(r) ==
    LET f == flows[r] IN
    /\ RunsIn(r, "revision_normalize") /\ StepOnly
    /\ \/ Flow(r, ToNextStage(f))
       \/ \E outcome \in {"blocked", "failed"} : Flow(r, ToBuild(f, outcome))

\* _stage_targets
StageTargets(r, s) == {d \in RefsOf(r) : RevOf(r, d).goal >= s /\ RevOf(r, d).state < s}

PrepareTargets(r) ==
    LET f == flows[r]
        targets == StageTargets(r, f.stage)
    IN /\ RunsIn(r, "stage_prepare") /\ StepOnly
       /\ \/ targets = {} /\ Flow(r, ToNextStage(f))
          \/ /\ targets # {}
             /\ Flow(r, [f EXCEPT !.phase = "stage_worker", !.targets = targets,
                                  !.worker = FALSE, !.review = "none"])
          \/ Flow(r, ToBuild(f, "failed"))

AfterWorker(f) == IF f.stage \in AgentReviewed THEN "stage_reviewer" ELSE "stage_gate_audit"

\* The worker writes the text of the stage through tools that want the round
\* to be running and the revision open.
Worker(r) ==
    LET f == flows[r] IN
    /\ RunsIn(r, "stage_worker")
    /\ unreviewed' = IF rounds[r].status = "running"
                     THEN unreviewed \cup {d \in f.targets : RevOf(r, d).open} ELSE unreviewed
    /\ \/ Flow(r, [f EXCEPT !.worker = TRUE, !.phase = AfterWorker(f)])
       \/ \E outcome \in {"blocked", "failed"} : Flow(r, ToBuild(f, outcome))
    /\ UNCHANGED <<graph, task, tasks, calls, lost, orphans, cut, dropped>>

\* A passed review names exactly the targets; one that is not submitted fails.
Reviewer(r) ==
    LET f == flows[r] IN
    /\ RunsIn(r, "stage_reviewer")
    /\ \/ /\ \E review \in {"passed", "rejected", "incomplete"} :
                /\ Flow(r, [f EXCEPT !.review = review, !.phase = "stage_gate_audit"])
                /\ unreviewed' = IF review = "passed" THEN unreviewed \ f.targets ELSE unreviewed
       \/ Flow(r, ToBuild(f, "failed")) /\ UNCHANGED unreviewed
    /\ UNCHANGED <<graph, task, tasks, calls, lost, orphans, cut, dropped>>

RetryWorker(f) == [f EXCEPT !.phase = "stage_worker", !.retry = @ + 1]

Advance(r, s, targets) ==
    decls' = [d \in Decls |->
                IF d \in targets /\ RevOf(r, d).state < s
                THEN [decls[d] EXCEPT ![rounds[r].refs[d]].state = s] ELSE decls[d]]

\* Mutant: a review that ended without a verdict lets the stage pass.
NotRejected(f) == f.worker /\ (f.stage \in AgentReviewed => f.review # "rejected")

Passed(f) == f.worker /\ (f.stage \in AgentReviewed => f.review = "passed")

\* gate_and_advance: the review first, then validation and audit of the text,
\* then one transaction that raises the states.
StageGate(r) ==
    LET f == flows[r]
        rejected == f.stage \in AgentReviewed /\ f.review = "rejected"
        advances == rounds[r].status = "running" /\ \A d \in f.targets : RevOf(r, d).open
    IN /\ RunsIn(r, "stage_gate_audit")
       /\ \/ /\ Passed(f) /\ advances
             /\ Advance(r, f.stage, f.targets) /\ Flow(r, ToNextStage(f))
          \/ rejected /\ f.retry < MaxRetries /\ Flow(r, RetryWorker(f)) /\ UNCHANGED decls
          \/ Passed(f) /\ Flow(r, ToBuild(f, "blocked")) /\ UNCHANGED decls
          \/ Flow(r, ToBuild(f, "failed")) /\ UNCHANGED decls
       /\ UNCHANGED <<deleted, strategy, rounds, task, tasks, calls, ghost>>

\* final_audit: every revision has reached its target state.
Reached(r) == \A d \in RefsOf(r) : RevOf(r, d).state >= RevOf(r, d).goal

FinalAudit(r) ==
    LET f == flows[r] IN
    /\ RunsIn(r, "final_audit") /\ StepOnly
    /\ \/ Reached(r) /\ Flow(r, ToBuild(f, "success"))
       \/ Flow(r, ToBuild(f, "failed"))

\* record_round_execution_result: the round is loaded, checked and saved.
Copies(r, of) == copy' = [copy EXCEPT ![r] = [of |-> of, record |-> rounds[r]]]
Drops(r)      == copy' = [copy EXCEPT ![r] = NoCopy]

Recordable(read, kind) ==
    \/ read.status = "running"
    \/ read.status = "draft" /\ kind = "failed"

Record(r, read, kind, marker) ==
    /\ Recordable(read, kind)
    /\ Save(r, read, [read EXCEPT !.status = "awaiting", !.exec = kind, !.marker = marker])

\* The last step audits a success once more before the round is loaded.
ResultReads(r) ==
    /\ RunsIn(r, "build_result")
    /\ flows[r].outcome = "success" => Reached(r)
    /\ Copies(r, "result")
    /\ UNCHANGED <<graph, flows, task, tasks, closing, planCopy, ghost>>

BuildResult(r) ==
    /\ copy[r].of = "result"
    /\ Record(r, copy[r].record, flows[r].outcome, 0)
    /\ Flow(r, Ended(flows[r], "completed")) /\ Drops(r)
    /\ UNCHANGED <<decls, deleted, strategy, task, tasks, closing, planCopy, unreviewed, lost, orphans, cut>>

\* A step raises, the last one because the result cannot be recorded; then
\* the round is loaded to carry the failed step.
StepRaises(r) ==
    /\ flows[r].status = "running" /\ copy[r].of \in {"nothing", "result"}
    /\ Copies(r, "failure")
    /\ UNCHANGED <<graph, flows, task, tasks, closing, planCopy, ghost>>

\* Mutant: the failure of an agent's step is not recorded.
RecordOwnFailures(r) ==
    IF ~AtAgentStep(r) /\ Recordable(copy[r].record, "failed")
    THEN Record(r, copy[r].record, "failed", flows[r].attempt) /\ UNCHANGED lost
    ELSE UNCHANGED <<rounds, lost, dropped>>

\* _record_failed_step_execution_result: the round carries the failed step,
\* unless it has another result already or cannot be written.
RecordFailedStep(r) ==
    \/ Record(r, copy[r].record, "failed", flows[r].attempt) /\ UNCHANGED lost
    \/ rounds[r].status = "running" /\ lost' = lost \cup {r} /\ UNCHANGED <<rounds, dropped>>
    \/ rounds[r].status # "running" /\ UNCHANGED <<rounds, lost, dropped>>

\* Only an agent's step can be restarted and needs the state of the flow.
StepFails(r) ==
    /\ copy[r].of = "failure"
    /\ RecordFailedStep(r)
    /\ Flow(r, IF AtAgentStep(r) THEN [flows[r] EXCEPT !.status = "failed"]
               ELSE Ended(flows[r], "failed"))
    /\ Drops(r)
    /\ UNCHANGED <<decls, deleted, strategy, task, tasks, closing, planCopy, unreviewed, orphans, cut>>

FlowStep(r) ==
    \/ RoundStart(r) \/ Normalize(r) \/ PrepareTargets(r) \/ Worker(r) \/ Reviewer(r)
    \/ StageGate(r) \/ FinalAudit(r) \/ ResultReads(r) \/ BuildResult(r)
    \/ StepRaises(r) \/ StepFails(r)

----------------------------------------------------------------------------
(* The operator. record.lock keeps a command of an operator from another,  *)
(* and not from the tools of an agent.                                     *)

\* Mutant: a round that was closed out is reopened as well.
MarkedOnly(r) == rounds[r].marker = flows[r].attempt

\* validate_failed_round_execution_restart
CarriesFailedStep(r) ==
    rounds[r].status = "awaiting" /\ rounds[r].exec = "failed" /\ rounds[r].marker = flows[r].attempt

\* recover_agent_step: reopen_failed_round_execution loads and checks the
\* round in the transaction that creates the replacement of the failed step.
RestartReads(r) ==
    /\ task.phase = "done" => ~Closing
    /\ flows[r].status = "failed" /\ AtAgentStep(r)
    /\ MapThenSumSet(LAMBDA q : flows[q].attempt - 1, 1..MaxRounds) < MaxRestarts
    /\ CarriesFailedStep(r) /\ \A q \in DOMAIN copy : copy[q].of # "reopening"
    /\ Copies(r, "reopening")
    /\ UNCHANGED <<graph, flows, task, tasks, closing, planCopy, ghost>>

\* The round is reopened and the step replaced. If the kit refuses that, the
\* round is written back as it was; or that fails too, or the process ends.
RestartStep(r) ==
    LET read     == copy[r].record
        reopened == [read EXCEPT !.status = "running", !.exec = "none", !.marker = 0]
    IN /\ copy[r].of = "reopening" /\ Drops(r)
       /\ \/ Save(r, read, reopened) /\ UNCHANGED lost
             /\ Flow(r, [flows[r] EXCEPT !.status = "running", !.attempt = @ + 1])
          \/ Save(r, read, read) /\ UNCHANGED <<flows, lost>>
          \/ Save(r, read, reopened) /\ lost' = lost \cup {r} /\ UNCHANGED flows
       /\ UNCHANGED <<decls, deleted, strategy, task, tasks, closing, planCopy, unreviewed, orphans, cut>>

\* check_operator_runtime_stable: no flow of the repository is unfinished.
Quiet ==
    /\ task.phase = "done" /\ ~Closing
    /\ \A r \in DOMAIN rounds : flows[r].status # "running" /\ copy[r] = NoCopy

OperatorRecords(r) ==
    /\ Quiet /\ rounds[r].status = "running"
    /\ \E kind \in Results : (kind = "success" => Reached(r)) /\ Record(r, rounds[r], kind, 0)
    /\ lost' = lost \ {r}
    /\ UNCHANGED <<decls, deleted, strategy, flows, task, tasks, calls, unreviewed, orphans, cut>>

\* The operator names the round, which may be a draft.
OperatorCloses(r, kind) == Quiet /\ OpenCloseout(r, kind)

----------------------------------------------------------------------------
Plan ==
    \/ EnsureStrategy \/ CloseStrategy \/ CreateRound
    \/ \E d \in Decls, goal \in Goals, r \in DOMAIN rounds :
          CreateDecl(r, d, goal) \/ \E start \in 0..LastStage : OpenUpdate(r, d, start, goal)
    \/ \E d \in Decls, source \in 1..MaxRevisions : RestoreDecl(d, source)
    \/ \E ds \in SUBSET Decls : DeleteDecls(ds)
    \/ \E r \in DOMAIN rounds : DiscardDraft(r) \/ SubmitRound(r) \/ SummaryReads(r)
    \/ \E r \in DOMAIN rounds, kind \in Results : BeginCloseout(r, kind)

Closeout == \/ \E d \in Decls : CommitRevision(d)
            \/ SummaryWrites \/ PersistReads \/ Persist \/ RollBackCloseout \/ Crash

Submit == SubmitReady \/ SubmitBlockedOrFailed \/ PlanIncomplete

TaskStep == EnsureStageAgents \/ Dispatch \/ ExitWaiting \/ ProgressCheckpoint \/ CallPlanBack \/ CompletionAudit

Operator == \E r \in DOMAIN rounds :
    RestartReads(r) \/ RestartStep(r) \/ OperatorRecords(r) \/ \E kind \in Results : OperatorCloses(r, kind)

Next == \/ Plan \/ Closeout \/ Submit \/ TaskStep \/ StartTask
        \/ \E r \in DOMAIN rounds : FlowStep(r)
        \/ Operator

Spec == Init /\ [][Next]_vars

----------------------------------------------------------------------------
Revision  == [state : 0..LastStage, goal : Goals \cup {0}, open : BOOLEAN]
Round     == [status : Unfinished \cup {"committed", "discarded"}, refs : [Decls -> Nat],
              exec : Results \cup {"none"}, marker : Nat, result : Results \cup {"none"}]
RoundFlow == [status : {"none", "running", "completed", "failed"},
              phase : {"round_start", "revision_normalize", "stage_prepare", "stage_worker", "stage_reviewer",
                       "stage_gate_audit", "final_audit", "build_result"},
              stage : 0..LastStage, retry : Nat, targets : SUBSET Decls, worker : BOOLEAN,
              review : {"none", "passed", "rejected", "incomplete"}, outcome : Results \cup {"none"},
              attempt : Nat]
Task      == [phase : {"plan", "ensure", "dispatch", "waiting", "checkpoint", "callback", "audit", "done"},
              child : {0} \cup DOMAIN rounds, outcome : {"none", "failed", "ready"}]
Closeouts == [round : DOMAIN rounds, kind : Results, todo : SUBSET Decls,
              decls : [Decls -> Seq(Revision)], rounds : Seq(Round)]

Copy      == [of : {"result", "failure", "reopening"}, record : Round]
PlanCopy  == [of : {"summary", "closeout"}, round : DOMAIN rounds, record : Round]

RecordTypes ==
    /\ decls \in [Decls -> Seq(Revision)] /\ deleted \subseteq Decls /\ strategy \in {"open", "closed"}
    /\ rounds \in Seq(Round) /\ Len(rounds) <= MaxRounds
    /\ flows \in [1..MaxRounds -> RoundFlow]
    /\ \A r \in DOMAIN rounds :
          /\ rounds[r].marker <= flows[r].attempt
          /\ \A d \in RefsOf(r) : rounds[r].refs[d] \in DOMAIN decls[d]
          /\ flows[r].targets \subseteq RefsOf(r)
          /\ AtAgentStep(r) => flows[r].stage # 0
    /\ task \in Task /\ tasks \in 1..MaxTasks
    /\ Closing => closing \in Closeouts /\ closing.todo \subseteq RefsOf(closing.round)
    /\ unreviewed \cup orphans \subseteq Decls /\ lost \cup cut \subseteq DOMAIN rounds

CopyTypes ==
    copy \in [1..MaxRounds -> Copy \cup {NoCopy}] /\ planCopy \in PlanCopy \cup {NoCopy}

\* The records, the flows and the task keep their types; what a round or a flow
\* names exists: a reference is a revision of its declaration, a flow's stage is
\* one of the stages while it works on one, and its targets are of its round.
TypeOK == RecordTypes /\ CopyTypes

\* The properties hold until a save of a round drops another one: what that
\* breaks, CommittedStays shows.

\* Who can still close an open revision: it is the head of its declaration and
\* in the one unfinished round, and that round has no other. The operations on
\* records, each written to several files, agree on this; a creation or a
\* closeout that the process did not survive is what breaks it for good.
Interrupted(d) ==
    \/ d \in orphans
    \/ \E r \in cut \cup {closing.round} : r \in DOMAIN rounds /\ d \in RefsOf(r)

OpenRevisionsBelongToRound ==
    ~dropped =>
        /\ Cardinality(Current) <= 1
        /\ \A d \in Decls : /\ \A i \in DOMAIN decls[d] : decls[d][i].open => i = Len(decls[d])
                            /\ ~Interrupted(d) => \A r \in Current :
                                  d \in RefsOf(r) => OpenHead(r, d)
                            /\ ~Interrupted(d) /\ decls[d] # <<>> /\ HeadOf(d).open => Touched(d)

\* A running round is never abandoned: its flow runs, through failed steps,
\* restarts, and closeouts that meet a restart. Only a failure that could not
\* be recorded and a restart that could not be undone leave it to the operator.
RunningHasItsFlow ==
    ~dropped => \A r \in InStatus("running") : flows[r].status = "running" \/ r \in lost

\* A success was executed: every revision of the round reached its target,
\* and no closeout, retry or restart makes the recorded result better.
SuccessIsEarned ==
    ~dropped => \A r \in DOMAIN rounds :
        /\ "success" \in {rounds[r].exec, rounds[r].result} => Reached(r)
        /\ rounds[r].status = "committed" =>
              IF rounds[r].exec = "none" THEN rounds[r].result # "success"
              ELSE Rank(rounds[r].result) <= Rank(rounds[r].exec)

\* A task that ends ready leaves no round of the node unfinished, neither its
\* own nor one an earlier task left or an operator restarted.
ReadyMeansClosed == task.outcome = "ready" /\ ~dropped => Current = {}

\* In a stage with agent review no text advances that no review has passed:
\* a review of the text before a retry, of another stage or of a step that
\* was restarted since does not count.
AdvanceIsReviewed ==
    [][~dropped' => \A d \in Decls : \A i \in DOMAIN decls[d] \cap DOMAIN decls'[d] :
         /\ decls'[d][i].state > decls[d][i].state
         /\ decls'[d][i].state \in AgentReviewed
         => d \notin unreviewed]_vars

\* A closed round is history: neither it nor its revisions change, whatever
\* runs, restarts or rolls back later.
ClosedIsFinal ==
    [][~dropped' => \A r \in DOMAIN rounds : rounds[r].status \in {"committed", "discarded"} =>
         /\ rounds'[r] = rounds[r]
         /\ \A d \in RefsOf(r) : decls'[d][rounds[r].refs[d]] = RevOf(r, d)]_vars

\* A closeout is consumed once: a round that the Plan agent closed is not
\* reopened. It does not hold, and is why the others speak of dropped: a restart
\* that loaded the round before the closeout saved it writes it as running.
CommittedStays ==
    [][\A r \in DOMAIN rounds :
         rounds[r].status = "committed" => rounds'[r].status = "committed"]_vars
=============================================================================

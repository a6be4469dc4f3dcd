------------------------- MODULE RestructureProofs -------------------------
(***************************************************************************)
(* Proofs about Restructure, for any workspace: any finite sets of         *)
(* repositories and nodes whose dependencies do not go round, any budget,  *)
(* and any number of repairs, requests of the operator and crashes.        *)
(***************************************************************************)
EXTENDS Restructure, FiniteSetTheorems, TLAPS

-----------------------------------------------------------------------------
(* Tasks and types. *)

\* A task is a build of a repository or a stage of a node, never both.
LEMMA TaskShape ==
    /\ \A k \in Tasks :
          \/ /\ k \in Builds /\ k \notin Contents /\ k = <<k[1], k[2]>>
             /\ k[1] \in Repos /\ k[2] \in {"declared", "final"}
          \/ /\ k \in Contents /\ k \notin Builds /\ k = <<k[1], k[2]>>
             /\ k[1] \in Nodes /\ k[2] \in {"declared", "proved"}
    /\ \A r \in Repos, s \in {"declared", "final"} : <<r, s>> \in Builds /\ <<r, s>> \notin Contents
    /\ \A n \in Nodes, s \in {"declared", "proved"} : <<n, s>> \in Contents /\ <<n, s>> \notin Builds
    /\ Builds \subseteq Tasks /\ Contents \subseteq Tasks
BY PlanAssumption DEF Tasks, Builds, Contents

\* The home of a task is a repository.
LEMMA HomeType == \A k \in Tasks : Home(k) \in Repos
BY TaskShape, PlanAssumption DEF Home, IsBuild

\* A dispatch leaves a binding of the right type, and a request to reserve.
LEMMA IntentType ==
    ASSUME TypeOK, NEW k \in Tasks, NEW again \in BOOLEAN
    PROVE  Intent(k, again) \in Binding
<1>1. binding[k] \in Binding BY DEF TypeOK
<1>2. Wanted(k) \in Nat BY TaskShape DEF Wanted, TypeOK, ContentWork
<1>3. Pins(k) \in SUBSET (Repos \X Epochs)
    <2> SUFFICES ASSUME NEW p \in Providers[k[1]], k \in Builds
                 PROVE  <<p, binding[<<p, "final">>].epoch>> \in Repos \X Epochs
        BY DEF Pins
    <2>1. p \in Repos BY TaskShape, PlanAssumption
    <2>2. <<p, "final">> \in Tasks BY <2>1, TaskShape
    <2> QED BY <2>1, <2>2 DEF TypeOK, Binding
<1>4. IF Wanted(k) > binding[k].epoch THEN Wanted(k) \in Epochs ELSE binding[k].epoch + 1 \in Epochs
    BY <1>1, <1>2 DEF Binding, Epochs
<1> QED BY <1>1, <1>3, <1>4 DEF Intent, Binding

\* The process ends: its flows begin their steps again.
LEMMA EndsType ==
    ASSUME TypeOK, NEW flows \in [Tasks -> [phase : Phases, repairs : 0..MaxRepairs]], Ends(flows)
    PROVE  /\ flow' \in [Tasks -> [phase : Phases, repairs : 0..MaxRepairs]]
           /\ queue' = {} /\ frozen' = {} /\ crashes' \in 0..MaxCrashes
           /\ \A k \in Tasks : /\ flow'[k].phase = Restarted(flows[k].phase)
                               /\ flow'[k].repairs = flows[k].repairs
<1>1. \A p \in Phases : Restarted(p) \in Phases BY DEF Restarted, Phases
<1>2. crashes' \in 0..MaxCrashes BY BoundAssumption DEF Ends, TypeOK
<1>3. \A k \in Tasks : flow'[k] = [flows[k] EXCEPT !.phase = Restarted(@)] BY DEF Ends
<1>4. ASSUME NEW k \in Tasks
      PROVE  /\ flow'[k] \in [phase : Phases, repairs : 0..MaxRepairs]
             /\ flow'[k].phase = Restarted(flows[k].phase) /\ flow'[k].repairs = flows[k].repairs
    <2>1. flows[k] \in [phase : Phases, repairs : 0..MaxRepairs] OBVIOUS
    <2>2. flow'[k] = [phase |-> Restarted(flows[k].phase), repairs |-> flows[k].repairs] BY <1>3, <2>1
    <2> QED BY <1>1, <2>1, <2>2
<1>5. flow' = [k \in Tasks |-> flow'[k]] BY DEF Ends
<1> QED BY <1>2, <1>4, <1>5 DEF Ends

\* What becomes of the flows: one dispatched flow is new, adopted or dropped.
LEMMA FlowAfterType ==
    ASSUME TypeOK, NEW k \in Tasks, NEW again \in BOOLEAN, NEW n \in 1..6
    PROVE  [flow EXCEPT ![k] = FlowAfter(k, again, n)] \in [Tasks -> [phase : Phases, repairs : 0..MaxRepairs]]
<1>1. 0 \in 0..MaxRepairs BY BoundAssumption
<1>2. FlowAfter(k, again, n) \in [phase : Phases, repairs : 0..MaxRepairs]
    BY <1>1 DEF FlowAfter, First, NoFlow, Phases, TypeOK
<1> QED BY <1>2 DEF TypeOK

\* A dispatch, whichever save it stops after, keeps the types.
LEMMA DispatchType ==
    ASSUME TypeOK, NEW k \in Tasks, NEW again \in BOOLEAN, NEW n \in 1..6, Dispatch(k, again, n),
           again => k \in Builds, retries' \in 0..MaxRetries
    PROVE  TypeOK'
<1> DEFINE b == Intent(k, again)
           flows == [flow EXCEPT ![k] = FlowAfter(k, again, n)]
<1>1. b \in Binding BY IntentType
<1>2. flows \in [Tasks -> [phase : Phases, repairs : 0..MaxRepairs]] BY FlowAfterType
<1> HIDE DEF b, flows
<1>3. run' \in [status : {"prepared", "running", "blocked", "completed"}, blocked : SUBSET Tasks]
    BY DEF Dispatch, StatusOf, TypeOK
<1>4. binding' \in [Tasks -> Binding]
    <2>1. [b EXCEPT !.res = @ \/ n >= 3, !.bound = @ \/ n >= 5] \in Binding BY <1>1 DEF Binding
    <2> QED BY <2>1 DEF Dispatch, TypeOK, b
<1>5. reserved' \subseteq Tasks \X Epochs
    <2>1. <<k, b.epoch>> \in Tasks \X Epochs BY <1>1 DEF Binding
    <2> QED BY <2>1 DEF Dispatch, TypeOK, b
<1>6. /\ flow' \in [Tasks -> [phase : Phases, repairs : 0..MaxRepairs]]
      /\ queue' \subseteq Tasks /\ frozen' \subseteq Builds /\ crashes' \in 0..MaxCrashes
    <2>1. CASE n \in {1, 6} BY <1>2, <2>1 DEF Dispatch, TypeOK, EnqueuedAfter, flows
    <2>2. CASE n \notin {1, 6}
        <3>1. Ends(flows) BY <2>2 DEF Dispatch, flows
        <3> QED BY <1>2, <3>1, EndsType
    <2> QED BY <2>1, <2>2
<1>7. early' \subseteq Builds BY DEF Dispatch, TypeOK
<1> QED BY <1>3, <1>4, <1>5, <1>6, <1>7 DEF Dispatch, TypeOK

\* Staling bindings, and ending the process.
LEMMA StaledType == ASSUME TypeOK, NEW S PROVE Staled(S) \in [Tasks -> Binding]
<1>1. ASSUME NEW k \in Tasks PROVE [binding[k] EXCEPT !.stale = TRUE] \in Binding
    <2>1. binding[k] \in Binding BY DEF TypeOK
    <2> QED BY <2>1 DEF Binding
<1> QED BY <1>1 DEF Staled, TypeOK

\* So does the end of the process.
LEMMA EndsKeepsType ==
    ASSUME TypeOK, Ends(flow), run' = run, binding' = binding, fresh' = fresh, torn' \in BOOLEAN,
           retries' \in 0..MaxRetries, work' \in [Nodes -> ContentWork], reserved' \subseteq reserved,
           decls' \in [Nodes -> 0..2], early' = early
    PROVE  TypeOK'
BY EndsType DEF TypeOK

\* retry_content keeps the types.
LEMMA RetryType == ASSUME TypeOK, NEW n \in Nodes, NEW cut \in BOOLEAN, Retry(n, cut) PROVE TypeOK'
<1>1. work' \in [Nodes -> ContentWork]
    <2>1. work[n] \in ContentWork BY DEF TypeOK
    <2> QED BY <2>1 DEF Retry, TypeOK, ContentWork
<1>2. retries' \in 0..MaxRetries BY BoundAssumption DEF Retry, Asks, TypeOK
<1>3. CASE cut BY <1>1, <1>2, <1>3, EndsKeepsType DEF Retry, Tears, Unreserved, TypeOK
<1>4. CASE ~cut
    <2>1. binding' \in [Tasks -> Binding] BY <1>4, StaledType DEF Retry, Invalidate
    <2> QED BY <1>1, <1>2, <1>4, <2>1 DEF Retry, Invalidate, StatusOf, Unreserved, TypeOK
<1> QED BY <1>3, <1>4

\* reopen_declared keeps them.
LEMMA ReopenType == ASSUME TypeOK, NEW n \in Nodes, NEW cut \in BOOLEAN, Reopen(n, cut) PROVE TypeOK'
<1>1. work' \in [Nodes -> ContentWork]
    <2>1. \E M : work' = Opened(M) BY DEF Reopen
    <2>2. ASSUME NEW M PROVE Opened(M) \in [Nodes -> ContentWork]
        <3> DEFINE opened(m) == IF m \in M /\ work[m].there
                THEN [work[m] EXCEPT !.stage = 0, !.epoch = @ + 1, !.base = FALSE, !.issue = FALSE]
                ELSE work[m]
        <3>1. ASSUME NEW m \in Nodes PROVE opened(m) \in ContentWork
            <4>1. work[m] \in ContentWork BY DEF TypeOK
            <4>2. work[m].epoch + 1 \in Nat /\ 0 \in 0..2 BY <4>1 DEF ContentWork
            <4> QED BY <4>1, <4>2 DEF ContentWork
        <3>2. Opened(M) = [m \in Nodes |-> opened(m)] BY DEF Opened
        <3> HIDE DEF opened
        <3> QED BY <3>1, <3>2
    <2> QED BY <2>1, <2>2
<1>2. retries' \in 0..MaxRetries BY BoundAssumption DEF Reopen, Asks, TypeOK
<1>3. decls' \in [Nodes -> 0..2] BY DEF Reopen, Drafted, TypeOK
<1>4. CASE cut BY <1>1, <1>2, <1>3, <1>4, EndsKeepsType DEF Reopen, Tears, Unreserved, TypeOK
<1>5. CASE ~cut
    <2>1. binding' \in [Tasks -> Binding] BY <1>5, StaledType DEF Reopen, Invalidate
    <2> QED BY <1>1, <1>2, <1>3, <1>5, <2>1 DEF Reopen, Invalidate, StatusOf, Unreserved, TypeOK
<1> QED BY <1>4, <1>5

\* reconcile keeps them.
LEMMA ReconcileType == ASSUME TypeOK, NEW k \in Tasks, NEW cut \in BOOLEAN, Reconcile(k, cut) PROVE TypeOK'
<1>1. work' \in [Nodes -> ContentWork]
    <2>1. CASE flow[k].phase = "bad" /\ k \in Contents
        <3>1. k[1] \in Nodes /\ work[k[1]] \in ContentWork BY <2>1, TaskShape DEF TypeOK
        <3> QED BY <2>1, <3>1 DEF Reconcile, TypeOK, ContentWork
    <2> QED BY <2>1 DEF Reconcile, TypeOK
<1>2. CASE cut BY <1>1, <1>2, EndsKeepsType DEF Reconcile, Unreserved, TypeOK
<1>3. CASE ~cut
    <2>1. [binding[k] EXCEPT !.outcome = flow[k].phase] \in Binding
        <3>1. binding[k] \in Binding BY DEF TypeOK
        <3> QED BY <3>1 DEF Reconcile, Ended, Binding
    <2>2. binding' = [binding EXCEPT ![k] = [binding[k] EXCEPT !.outcome = flow[k].phase]]
        BY <1>3 DEF Reconcile
    <2>3. binding' \in [Tasks -> Binding] BY <2>1, <2>2 DEF TypeOK
    <2> QED BY <1>1, <1>3, <2>3 DEF Reconcile, StatusOf, Unreserved, TypeOK
<1> QED BY <1>2, <1>3

\* A step of a flow, and what a repair makes stale.
LEMMA GoesType ==
    ASSUME TypeOK, NEW k \in Tasks,
           \/ \E phase \in Phases : Goes(k, phase)
           \/ Fails(k)
    PROVE  flow' \in [Tasks -> [phase : Phases, repairs : 0..MaxRepairs]]
<1>1. flow[k] \in [phase : Phases, repairs : 0..MaxRepairs] BY DEF TypeOK
<1>2. CASE \E phase \in Phases : Goes(k, phase)
    <2>1. PICK phase \in Phases : Goes(k, phase) BY <1>2
    <2>2. [flow[k] EXCEPT !.phase = phase] \in [phase : Phases, repairs : 0..MaxRepairs] BY <1>1
    <2> QED BY <2>1, <2>2 DEF Goes, TypeOK
<1>3. CASE Fails(k)
    <2>1. "bad" \in Phases /\ "repair" \in Phases BY DEF Phases
    <2>2. [flow[k] EXCEPT !.phase = "bad"] \in [phase : Phases, repairs : 0..MaxRepairs] BY <1>1, <2>1
    <2>3. flow[k].repairs < MaxRepairs =>
              [phase |-> "repair", repairs |-> flow[k].repairs + 1] \in [phase : Phases, repairs : 0..MaxRepairs]
        BY <1>1, <2>1, BoundAssumption
    <2> QED BY <1>3, <2>2, <2>3 DEF Fails, Goes, TypeOK
<1> QED BY <1>2, <1>3

\* A repair that makes builds stale keeps the types of run.json.
LEMMA PreparesType ==
    ASSUME TypeOK, NEW k \in Tasks, Prepares(k)
    PROVE  /\ binding' \in [Tasks -> Binding]
           /\ run' \in [status : {"prepared", "running", "blocked", "completed"}, blocked : SUBSET Tasks]
<1>1. binding' \in [Tasks -> Binding] BY StaledType DEF Prepares
<1>2. run \in [status : {"prepared", "running", "blocked", "completed"}, blocked : SUBSET Tasks] BY DEF TypeOK
<1> QED BY <1>1, <1>2 DEF Prepares

\* The steps of flows and the edits of agents keep the types.
LEMMA StepType == ASSUME TypeOK, NEW k \in Tasks, FlowStep(k) \/ Edits(k) PROVE TypeOK'
<1> USE DEF Kept
<1>0. /\ "work" \in Phases /\ "bad" \in Phases /\ "ok" \in Phases /\ "compile" \in Phases
      /\ "fix" \in Phases /\ "build" \in Phases
    BY DEF Phases
<1>1. CASE AgentStarts(k) BY <1>0, <1>1, GoesType DEF AgentStarts, TypeOK
<1>2. CASE AgentSubmits(k)
    <2>1. k[1] \in Nodes BY <1>2, TaskShape DEF AgentSubmits
    <2>2. work[k[1]] \in ContentWork /\ Level(k[2]) \in 0..2 BY <2>1 DEF TypeOK, Level
    <2>3. [work[k[1]] EXCEPT !.stage = Level(k[2]), !.base = TRUE] \in ContentWork BY <2>2 DEF ContentWork
    <2>4. work' = [work EXCEPT ![k[1]] = [work[k[1]] EXCEPT !.stage = Level(k[2]), !.base = TRUE]]
        BY <1>2 DEF AgentSubmits
    <2>5. work' \in [Nodes -> ContentWork] BY <2>3, <2>4 DEF TypeOK
    <2> QED BY <1>0, <1>2, <2>5, GoesType DEF AgentSubmits, TypeOK
<1>3. CASE AgentGivesUp(k) BY <1>0, <1>3, GoesType DEF AgentGivesUp, TypeOK
<1>4. CASE BuildStarts(k)
    <2>1. flow' \in [Tasks -> [phase : Phases, repairs : 0..MaxRepairs]]
        BY <1>0, <1>4, GoesType DEF BuildStarts
    <2>2. /\ binding' \in [Tasks -> Binding]
          /\ run' \in [status : {"prepared", "running", "blocked", "completed"}, blocked : SUBSET Tasks]
        BY <1>4, PreparesType DEF BuildStarts, TypeOK
    <2>3. frozen' \subseteq Builds /\ fresh' \subseteq Builds BY <1>4 DEF BuildStarts, IsBuild, TypeOK
    <2> QED BY <1>4, <2>1, <2>2, <2>3 DEF BuildStarts, TypeOK
<1>5. CASE BuildEnds(k) BY <1>0, <1>5, GoesType DEF BuildEnds, TypeOK
<1>6. CASE RepairStarts(k)
    <2>1. flow' \in [Tasks -> [phase : Phases, repairs : 0..MaxRepairs]]
        BY <1>0, <1>6, GoesType DEF RepairStarts
    <2>2. /\ binding' \in [Tasks -> Binding]
          /\ run' \in [status : {"prepared", "running", "blocked", "completed"}, blocked : SUBSET Tasks]
        BY <1>6, PreparesType DEF RepairStarts, TypeOK
    <2> QED BY <1>6, <2>1, <2>2 DEF RepairStarts, TypeOK
<1>7. CASE RepairEnds(k) BY <1>0, <1>7, GoesType DEF RepairEnds, TypeOK
<1>8. CASE AgentEdits(k)
    <2>1. k[1] \in Nodes BY <1>8, TaskShape DEF AgentEdits
    <2>2. work[k[1]] \in ContentWork BY <2>1 DEF TypeOK
    <2>3. [work[k[1]] EXCEPT !.there = TRUE] \in ContentWork BY <2>2 DEF ContentWork
    <2>4. work' \in [Nodes -> ContentWork] BY <1>8, <2>3 DEF AgentEdits, TypeOK
    <2>5. decls' \in [Nodes -> 0..2]
        <3>1. decls' = [decls EXCEPT ![k[1]] = Level(k[2])] BY <1>8 DEF AgentEdits
        <3>2. Level(k[2]) \in 0..2 BY DEF Level
        <3>3. decls \in [Nodes -> 0..2] BY DEF TypeOK
        <3> QED BY <3>1, <3>2, <3>3
    <2> QED BY <1>8, <2>4, <2>5 DEF AgentEdits, Touches, TypeOK
<1>9. CASE RepairEdits(k)
    <2>1. decls' \in [Nodes -> 0..2] BY <1>9 DEF RepairEdits, Level, TypeOK
    <2> QED BY <1>9, <2>1 DEF RepairEdits, Touches, TypeOK
<1> QED BY <1>1, <1>2, <1>3, <1>4, <1>5, <1>6, <1>7, <1>8, <1>9 DEF FlowStep, Edits

\* A prepared run is well typed.
LEMMA InitType == Init => TypeOK
<1>1. 0 \in 0..MaxRetries /\ 0 \in 0..MaxCrashes /\ 0 \in 0..MaxRepairs BY BoundAssumption
<1>2. Unbound \in Binding BY DEF Unbound, Binding, Epochs
<1>3. NoWork \in ContentWork BY DEF NoWork, ContentWork
<1>4. NoFlow \in [phase : Phases, repairs : 0..MaxRepairs] BY <1>1 DEF NoFlow, Phases
<1> SUFFICES ASSUME Init PROVE TypeOK OBVIOUS
<1>5. binding \in [Tasks -> Binding] BY <1>2 DEF Init
<1>6. work \in [Nodes -> ContentWork] BY <1>3 DEF Init
<1>7. flow \in [Tasks -> [phase : Phases, repairs : 0..MaxRepairs]] BY <1>4 DEF Init
<1>8. run \in [status : {"prepared", "running", "blocked", "completed"}, blocked : SUBSET Tasks] BY DEF Init
<1>9. decls \in [Nodes -> 0..2]
    <2>1. decls = [n \in Nodes |-> 0] /\ 0 \in 0..2 BY DEF Init
    <2> QED BY <2>1
<1> QED BY <1>1, <1>5, <1>6, <1>7, <1>8, <1>9 DEF Init, TypeOK

\* Every step keeps the types.
LEMMA NextType == ASSUME TypeOK, [Next]_vars PROVE TypeOK'
<1>1. CASE Crash BY <1>1, EndsKeepsType DEF Crash, TypeOK
<1>2. CASE CompleteRun BY <1>2 DEF CompleteRun, TypeOK
<1>3. ASSUME NEW k \in Tasks, Starts(k) PROVE TypeOK'
    BY <1>3, DispatchType DEF Starts, TypeOK
<1>4. ASSUME NEW k \in Tasks, OperatorBuild(k) PROVE TypeOK'
    <2>1. retries' \in 0..MaxRetries BY <1>4, BoundAssumption DEF OperatorBuild, Asks, TypeOK
    <2> QED BY <1>4, <2>1, DispatchType DEF OperatorBuild, IsBuild
<1>5. CASE UNCHANGED vars BY <1>5 DEF vars, TypeOK
<1> QED BY <1>1, <1>2, <1>3, <1>4, <1>5, StepType, ReconcileType, RetryType, ReopenType DEF Next

\* Types, for any workspace: every write of run.json, of a content, of the
\* budget and of a flow keeps its fields well formed.
THEOREM RestructureTypeCorrect == Spec => []TypeOK
<1>1. TypeOK /\ [Next]_vars => TypeOK' BY NextType
<1> QED BY <1>1, InitType, PTL DEF Spec
-----------------------------------------------------------------------------
(* What the steps do, task by task. *)

Working == {"work", "compile", "fix"}
EndPhases == {"ok", "bad"}

\* A restarted step is not at work any more; a flow that has ended stays so.
LEMMA RestartedPhase ==
    \A p \in Phases : /\ Restarted(p) \notin Working
                      /\ \A e \in EndPhases : Restarted(p) = e <=> p = e
BY DEF Restarted, Phases, Working, EndPhases

\* The end of the process: nothing is queued, nobody works, what ended has ended.
LEMMA EndsEffect ==
    ASSUME TypeOK, Ends(flow)
    PROVE  /\ queue' = {} /\ frozen' = {}
           /\ \A j \in Tasks : /\ flow'[j].phase \notin Working
                               /\ \A e \in EndPhases : flow'[j].phase = e <=> flow[j].phase = e
                               /\ flow'[j].phase # "fix"
<1>1. flow \in [Tasks -> [phase : Phases, repairs : 0..MaxRepairs]] BY DEF TypeOK
<1>2. /\ queue' = {} /\ frozen' = {}
      /\ \A j \in Tasks : flow'[j].phase = Restarted(flow[j].phase)
    BY <1>1, EndsType
<1>3. \A j \in Tasks : flow[j].phase \in Phases BY <1>1
<1>4. \A j \in Tasks : Restarted(flow[j].phase) # "fix" BY <1>3, RestartedPhase DEF Working
<1> QED BY <1>2, <1>3, <1>4, RestartedPhase

\* The new binding of a dispatched task is current and has no outcome; the
\* others do not change.
LEMMA DispatchBinds ==
    ASSUME TypeOK, NEW k \in Tasks, NEW again \in BOOLEAN, NEW n \in 1..6, Dispatch(k, again, n)
    PROVE  /\ \A j \in Tasks \ {k} : binding'[j] = binding[j]
           /\ ~binding'[k].stale /\ binding'[k].outcome = "none" /\ ~Succeeded(k)
           /\ \/ Rebinds(k, again) /\ binding'[k].pins = IF again THEN {} ELSE Pins(k)
              \/ /\ ~Rebinds(k, again) /\ Live(k) /\ ~Ended(k)
                 /\ binding'[k].pins = binding[k].pins /\ Request(k)' = Request(k)
                 /\ binding[k].bound => binding'[k].bound
           /\ n < 5 /\ Rebinds(k, again) => ~binding'[k].bound
           /\ n >= 5 => binding'[k].bound
           /\ Request(k)' = <<k, Intent(k, again).epoch>>
<1> DEFINE b == Intent(k, again)
<1>1. b \in Binding BY IntentType
<1>2. binding[k] \in Binding BY DEF TypeOK
<1>3. \/ /\ Rebinds(k, again) /\ ~b.bound /\ ~b.stale /\ b.outcome = "none"
         /\ b.pins = IF again THEN {} ELSE Pins(k)
      \/ ~Rebinds(k, again) /\ b = binding[k]
    BY DEF Intent
<1> HIDE DEF b
<1>4. binding' = [binding EXCEPT ![k] = [b EXCEPT !.res = @ \/ n >= 3, !.bound = @ \/ n >= 5]]
    BY DEF Dispatch, b
<1>5. \A j \in Tasks \ {k} : binding'[j] = binding[j] BY <1>4 DEF TypeOK
<1>6. /\ binding'[k].epoch = b.epoch /\ binding'[k].stale = b.stale /\ binding'[k].outcome = b.outcome
      /\ binding'[k].pins = b.pins /\ (binding'[k].bound <=> (b.bound \/ n >= 5))
    BY <1>1, <1>4 DEF TypeOK, Binding
<1>7. Rebinds(k, again) \/ (Live(k) /\ ~Ended(k)) BY DEF Dispatch
<1>8. ~Succeeded(k) BY <1>7 DEF Rebinds, Failed, Succeeded, Live
<1>9. ~Rebinds(k, again) => Live(k) /\ ~Ended(k) BY <1>7
<1>10. Request(k)' = <<k, b.epoch>> BY <1>6 DEF Request
<1>11. Request(k)' = <<k, Intent(k, again).epoch>> BY <1>10 DEF b
<1>12. CASE Rebinds(k, again) BY <1>3, <1>5, <1>6, <1>8, <1>11, <1>12
<1>13. CASE ~Rebinds(k, again)
    <2>1. b = binding[k] /\ Live(k) /\ ~Ended(k) BY <1>3, <1>9, <1>13
    <2>2. Request(k)' = Request(k) BY <1>10, <2>1 DEF Request
    <2> QED BY <1>5, <1>6, <1>8, <1>11, <1>13, <2>1, <2>2 DEF Live
<1> QED BY <1>12, <1>13

\* Its flow is dropped, new or the one it had; the others go on, or begin their
\* steps again when the process ends.
LEMMA DispatchFlows ==
    ASSUME TypeOK, NEW k \in Tasks, NEW again \in BOOLEAN, NEW n \in 1..6, Dispatch(k, again, n)
    PROVE  /\ \A j \in Tasks \ {k} :
                 /\ flow'[j].phase \in Working =>
                       flow'[j].phase = flow[j].phase /\ (j \in queue' <=> j \in queue)
                 /\ j \in queue' => j \in queue
           /\ \A j \in Tasks : (j # k \/ ~Rebinds(k, again)) =>
                 \A e \in EndPhases : flow'[j].phase = e <=> flow[j].phase = e
           /\ Rebinds(k, again) => flow'[k].phase \notin Working \cup EndPhases
           /\ flow'[k].phase \in Working => flow'[k].phase = flow[k].phase /\ n \in {1, 6}
           /\ k \in queue' <=> n = 6
           /\ frozen' \subseteq frozen
<1> DEFINE flows == [flow EXCEPT ![k] = FlowAfter(k, again, n)]
<1>1. flows \in [Tasks -> [phase : Phases, repairs : 0..MaxRepairs]] BY FlowAfterType
<1>2. (\A j \in Tasks \ {k} : flows[j] = flow[j]) /\ flows[k] = FlowAfter(k, again, n) BY DEF TypeOK
<1>3. /\ Rebinds(k, again) => FlowAfter(k, again, n).phase \notin Working \cup EndPhases
      /\ \/ FlowAfter(k, again, n) = flow[k]
         \/ FlowAfter(k, again, n).phase \notin Working \cup EndPhases
      /\ ~Rebinds(k, again) =>
            \A e \in EndPhases : FlowAfter(k, again, n).phase = e <=> flow[k].phase = e
    BY DEF FlowAfter, First, NoFlow, Working, EndPhases
<1>4. \A j \in Tasks : (j # k \/ ~Rebinds(k, again)) =>
          \A e \in EndPhases : flows[j].phase = e <=> flow[j].phase = e
    BY <1>2, <1>3
<1> HIDE DEF flows
<1>5. CASE n \in {1, 6}
    <2>1. flow' = flows /\ queue' = EnqueuedAfter(k, n) /\ frozen' = frozen BY <1>5 DEF Dispatch, flows
    <2>2. \A j \in Tasks \ {k} : j \in queue' <=> j \in queue BY <2>1 DEF EnqueuedAfter
    <2>3. k \in queue' <=> n = 6 BY <2>1 DEF EnqueuedAfter
    <2> QED BY <1>2, <1>3, <1>4, <1>5, <2>1, <2>2, <2>3
<1>6. CASE n \notin {1, 6}
    <2>1. Ends(flows) BY <1>6 DEF Dispatch, flows
    <2>2. /\ queue' = {} /\ frozen' = {}
          /\ \A j \in Tasks : flow'[j].phase = Restarted(flows[j].phase)
        BY <1>1, <2>1, EndsType
    <2>3. \A j \in Tasks : flows[j].phase \in Phases BY <1>1
    <2>4. \A j \in Tasks : /\ flow'[j].phase \notin Working
                          /\ \A e \in EndPhases : flow'[j].phase = e <=> flows[j].phase = e
        BY <2>2, <2>3, RestartedPhase
    <2>5. Rebinds(k, again) => flow'[k].phase \notin EndPhases BY <1>2, <1>3, <2>4
    <2> QED BY <1>4, <1>6, <2>2, <2>4, <2>5
<1> QED BY <1>5, <1>6

\* Its reservation is kept or added; without one it is not admitted.
LEMMA DispatchReserves ==
    ASSUME TypeOK, NEW k \in Tasks, NEW again \in BOOLEAN, NEW n \in 1..6, Dispatch(k, again, n)
    PROVE  /\ reserved \subseteq reserved'
           /\ \/ reserved' = reserved
              \/ /\ Admitted(<<k, Intent(k, again).epoch>>, k)
                 /\ reserved' = reserved \cup {<<k, Intent(k, again).epoch>>}
           /\ n = 1 => ~Admitted(<<k, Intent(k, again).epoch>>, k)
BY DEF Dispatch

\* Staling keeps all of a binding but that it is current.
LEMMA StaledEffect ==
    ASSUME TypeOK, NEW S, binding' = Staled(S)
    PROVE  \A j \in Tasks :
              /\ binding'[j].stale <=> (binding[j].stale \/ j \in S)
              /\ binding'[j].outcome = binding[j].outcome /\ binding'[j].epoch = binding[j].epoch
              /\ binding'[j].pins = binding[j].pins /\ binding'[j].bound = binding[j].bound
              /\ Request(j)' = Request(j) /\ (Live(j)' <=> Live(j) /\ j \notin S)
              /\ (InFlight(j)' <=> InFlight(j) /\ j \notin S)
              /\ (Succeeded(j)' <=> Succeeded(j) /\ j \notin S)
<1> SUFFICES ASSUME NEW j \in Tasks
             PROVE  /\ binding'[j].stale <=> (binding[j].stale \/ j \in S)
                    /\ binding'[j].outcome = binding[j].outcome /\ binding'[j].epoch = binding[j].epoch
                    /\ binding'[j].pins = binding[j].pins /\ binding'[j].bound = binding[j].bound
                    /\ Request(j)' = Request(j) /\ (Live(j)' <=> Live(j) /\ j \notin S)
                    /\ (InFlight(j)' <=> InFlight(j) /\ j \notin S)
                    /\ (Succeeded(j)' <=> Succeeded(j) /\ j \notin S)
    OBVIOUS
<1>1. binding[j] \in Binding BY DEF TypeOK
<1>2. binding'[j] = IF j \in S THEN [binding[j] EXCEPT !.stale = TRUE] ELSE binding[j] BY DEF Staled
<1>3. /\ binding'[j].stale <=> (binding[j].stale \/ j \in S)
      /\ binding'[j].outcome = binding[j].outcome /\ binding'[j].epoch = binding[j].epoch
      /\ binding'[j].pins = binding[j].pins /\ binding'[j].bound = binding[j].bound
    BY <1>1, <1>2 DEF Binding
<1> QED BY <1>3 DEF Request, Live, InFlight, Succeeded

\* A release takes the reservations of the tasks it is for, and no other.
LEMMA Released ==
    ASSUME NEW S, NEW j \in Tasks, j \notin S
    PROVE  Request(j) \in reserved => Request(j) \in Unreserved(S)
BY DEF Unreserved, Request

\* A flow that has ended is consumed, if the process lives to save it.
LEMMA ReconcileEffect ==
    ASSUME TypeOK, NEW k \in Tasks, NEW cut \in BOOLEAN, Reconcile(k, cut)
    PROVE  /\ InFlight(k) /\ Ended(k)
           /\ \A j \in Tasks \ {k} : binding'[j] = binding[j]
           /\ \/ binding' = binding
              \/ /\ ~cut /\ ~binding'[k].stale /\ binding'[k].outcome = flow[k].phase
                 /\ binding'[k].pins = binding[k].pins /\ binding'[k].bound = binding[k].bound
                 /\ Request(k)' = Request(k)
           /\ \A j \in Tasks : /\ flow'[j].phase \in Working => ~cut
                               /\ \A e \in EndPhases : flow'[j].phase = e <=> flow[j].phase = e
           /\ ~cut => UNCHANGED <<flow, queue, frozen>>
           /\ cut => queue' = {} /\ frozen' = {}
           /\ reserved' \subseteq reserved
           /\ \A j \in Tasks \ {k} : Request(j) \in reserved => Request(j) \in reserved'
<1>1. \A j \in Tasks \ {k} : Request(j) \in reserved => Request(j) \in reserved'
    BY Released DEF Reconcile
<1>2. reserved' \subseteq reserved BY DEF Reconcile, Unreserved
<1>3. InFlight(k) /\ Ended(k) BY DEF Reconcile
<1>4. CASE cut
    <2>1. Ends(flow) /\ binding' = binding BY <1>4 DEF Reconcile
    <2> QED BY <1>1, <1>2, <1>3, <1>4, <2>1, EndsEffect
<1>5. CASE ~cut
    <2>1. binding' = [binding EXCEPT ![k].outcome = flow[k].phase] /\ UNCHANGED <<flow, queue, frozen>>
        BY <1>5 DEF Reconcile
    <2>2. binding[k] \in Binding BY DEF TypeOK
    <2>3. /\ \A j \in Tasks \ {k} : binding'[j] = binding[j]
          /\ binding'[k].stale = binding[k].stale /\ binding'[k].outcome = flow[k].phase
          /\ binding'[k].pins = binding[k].pins /\ binding'[k].bound = binding[k].bound
          /\ binding'[k].epoch = binding[k].epoch
        BY <2>1, <2>2 DEF TypeOK, Binding
    <2> QED BY <1>1, <1>2, <1>3, <1>5, <2>1, <2>3 DEF InFlight, Live, Request
<1> QED BY <1>4, <1>5

\* A repair makes stale only declared builds that have ended, of its
\* repository and below.
LEMMA PreparesEffect ==
    ASSUME TypeOK, NEW k \in Tasks, Prepares(k)
    PROVE  /\ MayRepair(k) /\ binding' = Staled(Others(k) \cap Builds)
           /\ \A j \in Others(k) \cap Builds : /\ j # k /\ ~Live(j) /\ ~binding[j].stale
                                             /\ j[2] = "declared" /\ Home(j) \in Below(Home(k))
           /\ run'.status = run.status /\ run'.blocked = run.blocked \ (Others(k) \cap Builds)
<1>1. MayRepair(k) /\ binding' = Staled(Others(k) \cap Builds) BY DEF Prepares
<1>2. \A j \in Others(k) \cap Builds : /\ j # k /\ ~Live(j) /\ ~binding[j].stale
                                     /\ j[2] = "declared" /\ Home(j) \in Below(Home(k))
    BY <1>1 DEF MayRepair, Others, Live
<1>3. run'.status = run.status /\ run'.blocked = run.blocked \ (Others(k) \cap Builds)
    BY DEF Prepares, TypeOK
<1> QED BY <1>1, <1>2, <1>3

\* The step of a flow: what it needs, and what it leaves alone.
LEMMA StepEffect ==
    ASSUME TypeOK, NEW k \in Tasks, FlowStep(k) \/ Edits(k)
    PROVE  /\ UNCHANGED <<reserved, queue, torn, early>>
           /\ k \in queue /\ flow[k].phase \notin EndPhases
           /\ \A j \in Tasks \ {k} : flow'[j] = flow[j]
           /\ \/ binding' = binding /\ run' = run
              \/ /\ Prepares(k) /\ Valid(k) /\ k \in Builds /\ k[2] = "declared"
                 /\ flow'[k].phase \in {"compile", "fix"} /\ work' = work
           /\ flow'[k].phase \in Working => flow'[k].phase = flow[k].phase \/ Valid(k)
           /\ flow'[k].phase = "fix" /\ k[2] = "declared" => flow[k].phase = "fix" \/ MayRepair(k)
<1> USE DEF Kept, Working, EndPhases
<1>1. CASE AgentStarts(k) BY <1>1 DEF AgentStarts, At, Goes, TypeOK
<1>2. CASE AgentSubmits(k) BY <1>2 DEF AgentSubmits, At, Goes, TypeOK
<1>3. CASE AgentGivesUp(k) BY <1>3 DEF AgentGivesUp, At, Goes, TypeOK
<1>4. CASE BuildStarts(k) BY <1>4 DEF BuildStarts, At, Goes, Fails, IsBuild, TypeOK
<1>5. CASE BuildEnds(k) BY <1>5 DEF BuildEnds, At, Goes, Fails, TypeOK
<1>6. CASE RepairStarts(k) BY <1>6 DEF RepairStarts, At, Goes, IsBuild, TypeOK
<1>7. CASE RepairEnds(k) BY <1>7 DEF RepairEnds, At, Goes, TypeOK
<1>8. CASE AgentEdits(k) BY <1>8 DEF AgentEdits, At, TypeOK
<1>9. CASE RepairEdits(k) BY <1>9 DEF RepairEdits, At, TypeOK
<1> QED BY <1>1, <1>2, <1>3, <1>4, <1>5, <1>6, <1>7, <1>8, <1>9 DEF FlowStep, Edits

\* The operator's retries: the bindings of S become stale and their reservations
\* are given back, or the process ends before that is saved.
LEMMA OperatorEffect ==
    ASSUME TypeOK, NEW n \in Nodes, NEW cut \in BOOLEAN, Retry(n, cut) \/ Reopen(n, cut)
    PROVE  \E S \in SUBSET Tasks :
              /\ (Retry(n, cut) /\ S = RetriedBy(n)) \/ (Reopen(n, cut) /\ S = ReopenedBy(n))
              /\ NoWriter(S) /\ fresh' = fresh
              /\ reserved' \subseteq reserved
              /\ \A j \in Tasks \ S : Request(j) \in reserved => Request(j) \in reserved'
              /\ \/ /\ ~cut /\ binding' = Staled(S) /\ UNCHANGED <<flow, queue, frozen, torn>>
                    /\ run' = [status |-> StatusOf(run.blocked \ S), blocked |-> run.blocked \ S]
                 \/ /\ cut /\ torn' = TRUE /\ binding' = binding /\ run' = run /\ Ends(flow)
<1>1. ASSUME NEW S \in SUBSET Tasks, Invalidate(S) \/ Tears(S)
      PROVE  /\ reserved' \subseteq reserved
             /\ \A j \in Tasks \ S : Request(j) \in reserved => Request(j) \in reserved'
    BY <1>1, Released DEF Invalidate, Tears, Unreserved
<1>2. CASE Retry(n, cut)
    <2>1. RetriedBy(n) \in SUBSET Tasks BY DEF RetriedBy
    <2>2. NoWriter(RetriedBy(n)) /\ fresh' = fresh BY <1>2 DEF Retry
    <2>3. \/ ~cut /\ Invalidate(RetriedBy(n)) /\ UNCHANGED <<flow, queue, frozen, torn>>
          \/ cut /\ Tears(RetriedBy(n))
        BY <1>2 DEF Retry
    <2> QED BY <1>1, <1>2, <2>1, <2>2, <2>3 DEF Invalidate, Tears
<1>3. CASE Reopen(n, cut)
    <2>1. ReopenedBy(n) \in SUBSET Tasks BY DEF ReopenedBy
    <2>2. NoWriter(ReopenedBy(n)) /\ fresh' = fresh BY <1>3 DEF Reopen
    <2>3. \/ ~cut /\ Invalidate(ReopenedBy(n)) /\ UNCHANGED <<flow, queue, frozen, torn>>
          \/ cut /\ Tears(ReopenedBy(n))
        BY <1>3 DEF Reopen
    <2> QED BY <1>1, <1>3, <2>1, <2>2, <2>3 DEF Invalidate, Tears
<1> QED BY <1>2, <1>3

\* A tick or the operator starts a task by a dispatch.
LEMMA DispatchOf ==
    ASSUME NEW k \in Tasks, Starts(k) \/ OperatorBuild(k)
    PROVE  \E again \in BOOLEAN, n \in 1..6 :
              /\ Dispatch(k, again, n)
              /\ again => k \in Builds
              /\ ~again => Ready(k)
BY DEF Starts, OperatorBuild, IsBuild

\* Every step is one of these.
LEMMA StepKinds ==
    ASSUME [Next]_vars
    PROVE  \/ \E k \in Tasks : Starts(k) \/ OperatorBuild(k)
           \/ \E k \in Tasks, cut \in BOOLEAN : Reconcile(k, cut)
           \/ \E n \in Nodes, cut \in BOOLEAN : Retry(n, cut) \/ Reopen(n, cut)
           \/ \E k \in Tasks : FlowStep(k) \/ Edits(k)
           \/ Crash
           \/ UNCHANGED <<binding, work, reserved, flow, queue, frozen, fresh, torn, early>>
                 /\ (CompleteRun \/ run' = run)
BY DEF Next, CompleteRun, vars
-----------------------------------------------------------------------------
(* The budget. *)

\* The reservations fit the budget, those of replaced requests included.
ReservationsFit ==
    /\ IsFiniteSet(reserved)
    /\ \A k \in Tasks : Cardinality({x \in reserved : SameKind(x, k)}) <= Limit(k)

\* A flow at work is one of the scheduler's, and of a request with a
\* reservation: agents and builds begin with validate_execution.
WorkersAreValid ==
    \A k \in Tasks : flow[k].phase \in Working => k \in queue /\ Valid(k)

\* An admitted request stays within the limit of its kind.
LEMMA FitsReservation ==
    ASSUME TypeOK, ReservationsFit, NEW k \in Tasks, NEW e, Admitted(<<k, e>>, k),
           reserved' = reserved \cup {<<k, e>>}
    PROVE  ReservationsFit'
<1> DEFINE q == <<k, e>>
           Kind(j) == {x \in reserved : SameKind(x, j)}
<1>1. CASE q \in reserved
    <2>1. reserved' = reserved BY <1>1
    <2> QED BY <2>1 DEF ReservationsFit, SameKind, Limit
<1>2. CASE q \notin reserved
    <2>1. IsFiniteSet(reserved') BY FS_AddElement DEF ReservationsFit
    <2>2. Cardinality(Kind(k)) < Limit(k) BY <1>2 DEF Admitted
    <2>3. ASSUME NEW j \in Tasks
          PROVE  Cardinality({x \in reserved' : SameKind(x, j)}) <= Limit(j)
        <3>1. IsFiniteSet(Kind(j)) /\ Cardinality(Kind(j)) \in Nat
            BY FS_Subset, FS_CardinalityType DEF ReservationsFit
        <3>2. CASE SameKind(q, j)
            <4>1. Kind(j) = Kind(k) /\ Limit(j) = Limit(k) BY <3>2 DEF SameKind, Limit
            <4>2. {x \in reserved' : SameKind(x, j)} = Kind(j) \cup {q} BY <3>2
            <4>3. q \notin Kind(j) BY <1>2
            <4>4. Limit(k) \in Nat BY BoundAssumption DEF Limit
            <4> HIDE DEF Kind, q
            <4>5. Cardinality(Kind(j) \cup {q}) = Cardinality(Kind(j)) + 1 BY <3>1, <4>3, FS_AddElement
            <4>6. Cardinality(Kind(j) \cup {q}) <= Limit(j) BY <2>2, <3>1, <4>1, <4>4, <4>5
            <4> QED BY <4>2, <4>6
        <3>3. CASE ~SameKind(q, j)
            <4>1. {x \in reserved' : SameKind(x, j)} = Kind(j) BY <3>3
            <4> QED BY <4>1 DEF ReservationsFit
        <3> QED BY <3>2, <3>3
    <2>4. \A j \in Tasks : Cardinality({x \in reserved' : SameKind(x, j)}) <= Limit(j) BY <2>3
    <2> QED BY <2>1, <2>4 DEF ReservationsFit, SameKind, Limit
<1> QED BY <1>1, <1>2

\* A release leaves room.
LEMMA FitsRelease ==
    ASSUME ReservationsFit, reserved' \subseteq reserved PROVE ReservationsFit'
<1>1. IsFiniteSet(reserved') BY FS_Subset DEF ReservationsFit
<1>2. ASSUME NEW j \in Tasks
      PROVE  Cardinality({x \in reserved' : SameKind(x, j)}) <= Limit(j)
    <2> DEFINE Old == {x \in reserved : SameKind(x, j)}
               New == {x \in reserved' : SameKind(x, j)}
    <2>1. IsFiniteSet(Old) /\ Old \subseteq reserved BY FS_Subset DEF ReservationsFit
    <2>2. New \in SUBSET Old OBVIOUS
    <2>3. /\ Cardinality(New) <= Cardinality(Old) /\ Cardinality(Old) \in Nat
          /\ Cardinality(New) \in Nat
        BY <2>1, <2>2, FS_Subset, FS_CardinalityType
    <2>4. Cardinality(Old) <= Limit(j) BY DEF ReservationsFit
    <2>5. Limit(j) \in Nat BY BoundAssumption DEF Limit
    <2> QED BY <2>3, <2>4, <2>5
<1> QED BY <1>1, <1>2 DEF ReservationsFit, SameKind, Limit

\* Every step keeps the reservations within the budget.
LEMMA ReservationsKept == ASSUME TypeOK, ReservationsFit, [Next]_vars PROVE ReservationsFit'
<1>1. ASSUME NEW k \in Tasks, Starts(k) \/ OperatorBuild(k) PROVE ReservationsFit'
    BY <1>1, DispatchOf, DispatchReserves, FitsReservation, FitsRelease
<1>2. ASSUME NEW k \in Tasks, NEW cut \in BOOLEAN, Reconcile(k, cut) PROVE ReservationsFit'
    BY <1>2, ReconcileEffect, FitsRelease
<1>3. ASSUME NEW n \in Nodes, NEW cut \in BOOLEAN, Retry(n, cut) \/ Reopen(n, cut) PROVE ReservationsFit'
    BY <1>3, OperatorEffect, FitsRelease
<1>4. ASSUME NEW k \in Tasks, FlowStep(k) \/ Edits(k) PROVE ReservationsFit'
    BY <1>4, StepEffect, FitsRelease
<1>5. CASE Crash BY <1>5, FitsRelease DEF Crash
<1> QED BY <1>1, <1>2, <1>3, <1>4, <1>5, StepKinds, FitsRelease

\* What a step of a flow does to the binding of a task.
LEMMA StepBindings ==
    ASSUME TypeOK, NEW k \in Tasks, FlowStep(k) \/ Edits(k), NEW j \in Tasks
    PROVE  /\ binding'[j].outcome = binding[j].outcome /\ binding'[j].bound = binding[j].bound
           /\ Request(j)' = Request(j)
           /\ Live(j)' <=> Live(j)
           /\ InFlight(j)' <=> InFlight(j)
           /\ Succeeded(j)' => Succeeded(j)
           /\ binding[j].stale => binding'[j].stale
<1>1. CASE binding' = binding
    BY <1>1 DEF Request, Live, InFlight, Succeeded
<1>2. CASE Prepares(k)
    <2> DEFINE S == Others(k) \cap Builds
    <2>1. binding' = Staled(S) /\ (j \in S => ~Live(j)) BY <1>2, PreparesEffect
    <2> HIDE DEF S
    <2>2. InFlight(j) => Live(j) BY DEF InFlight
    <2> QED BY <2>1, <2>2, StaledEffect
<1> QED BY <1>1, <1>2, StepEffect

\* A repair makes builds stale, never a content.
LEMMA StepContents ==
    ASSUME TypeOK, NEW k \in Tasks, FlowStep(k) \/ Edits(k), NEW j \in Contents
    PROVE  binding'[j] = binding[j]
<1>1. j \in Tasks /\ j \notin Builds BY TaskShape
<1>2. CASE Prepares(k) BY <1>1, <1>2 DEF Prepares, Staled
<1> QED BY <1>2, StepEffect

\* Whoever is at work is current and holds a reservation, after every step.
LEMMA WorkersKept == ASSUME TypeOK, WorkersAreValid, [Next]_vars PROVE WorkersAreValid'
<1> SUFFICES ASSUME NEW j \in Tasks, flow'[j].phase \in Working PROVE j \in queue' /\ Valid(j)'
    BY DEF WorkersAreValid
<1>1. ASSUME NEW k \in Tasks, Starts(k) \/ OperatorBuild(k) PROVE j \in queue' /\ Valid(j)'
    <2>1. PICK again \in BOOLEAN, n \in 1..6 :
              Dispatch(k, again, n) /\ (again => k \in Builds)
        BY <1>1, DispatchOf
    <2>2. reserved \subseteq reserved' BY <2>1, DispatchReserves
    <2>3. CASE j # k
        <3>1. flow'[j].phase = flow[j].phase /\ (j \in queue' <=> j \in queue)
            BY <2>1, <2>3, DispatchFlows
        <3>2. j \in queue /\ Valid(j) BY <3>1 DEF WorkersAreValid
        <3>3. binding'[j] = binding[j] BY <2>1, <2>3, DispatchBinds
        <3> QED BY <2>2, <3>1, <3>2, <3>3 DEF Valid, InFlight, Live, Request
    <2>4. CASE j = k
        <3>1. ~Rebinds(k, again) /\ flow'[k].phase = flow[k].phase /\ n \in {1, 6} /\ (k \in queue' <=> n = 6)
            BY <2>1, <2>4, DispatchFlows
        <3>2. Valid(k) BY <2>4, <3>1 DEF WorkersAreValid
        <3>3. Intent(k, again) = binding[k] BY <3>1 DEF Intent
        <3>4. Admitted(<<k, Intent(k, again).epoch>>, k) BY <3>2, <3>3 DEF Admitted, Valid, Request
        <3>5. n = 6 BY <2>1, <3>1, <3>4, DispatchReserves
        <3>6. /\ ~binding'[k].stale /\ binding'[k].outcome = "none" /\ binding'[k].bound
              /\ Request(k)' = Request(k)
            BY <2>1, <3>1, <3>5, DispatchBinds
        <3> QED BY <2>2, <2>4, <3>1, <3>2, <3>5, <3>6 DEF Valid, InFlight, Live
    <2> QED BY <2>3, <2>4
<1>2. ASSUME NEW k \in Tasks, NEW cut \in BOOLEAN, Reconcile(k, cut) PROVE j \in queue' /\ Valid(j)'
    <2>1. UNCHANGED <<flow, queue, frozen>> /\ Ended(k) BY <1>2, ReconcileEffect
    <2>2. j # k /\ j \in queue /\ Valid(j) BY <2>1 DEF WorkersAreValid, Ended, Working
    <2>3. binding'[j] = binding[j] /\ (Request(j) \in reserved => Request(j) \in reserved')
        BY <1>2, <2>2, ReconcileEffect
    <2> QED BY <2>1, <2>2, <2>3 DEF Valid, InFlight, Live, Request
<1>3. ASSUME NEW n \in Nodes, NEW cut \in BOOLEAN, Retry(n, cut) \/ Reopen(n, cut) PROVE j \in queue' /\ Valid(j)'
    <2>1. PICK S \in SUBSET Tasks :
             /\ NoWriter(S)
             /\ \A i \in Tasks \ S : Request(i) \in reserved => Request(i) \in reserved'
             /\ \/ binding' = Staled(S) /\ UNCHANGED <<flow, queue>>
                \/ Ends(flow)
        BY <1>3, OperatorEffect
    <2>2. ~Ends(flow) BY EndsEffect
    <2>3. j \in queue /\ Valid(j) BY <2>1, <2>2 DEF WorkersAreValid
    <2>4. j \notin S BY <2>1, <2>3 DEF NoWriter, Valid
    <2> QED BY <2>1, <2>2, <2>3, <2>4, StaledEffect DEF Valid
<1>4. ASSUME NEW k \in Tasks, FlowStep(k) \/ Edits(k) PROVE j \in queue' /\ Valid(j)'
    <2>1. /\ UNCHANGED <<reserved, queue>> /\ k \in queue
          /\ j # k => flow'[j] = flow[j]
          /\ j = k => flow'[k].phase = flow[k].phase \/ Valid(k)
        BY <1>4, StepEffect
    <2>2. j \in queue /\ Valid(j) BY <2>1 DEF WorkersAreValid
    <2>3. Request(j)' = Request(j) /\ (InFlight(j)' <=> InFlight(j)) BY <1>4, StepBindings
    <2> QED BY <2>1, <2>2, <2>3 DEF Valid
<1>5. CASE Crash BY <1>5, EndsEffect DEF Crash
<1>6. CASE UNCHANGED <<binding, reserved, flow, queue>>
    BY <1>6 DEF WorkersAreValid, Valid, InFlight, Live, Request
<1> QED BY <1>1, <1>2, <1>3, <1>4, <1>5, <1>6, StepKinds

\* A flow that runs or has ended is named in its binding.
FlowsAreBound ==
    \A k \in Tasks : Live(k) /\ (k \in queue \/ Ended(k)) => binding[k].bound

\* A flow has ended when its phase is one of the end phases.
LEMMA EndedPhase == \A k \in Tasks : Ended(k) <=> \E e \in EndPhases : flow[k].phase = e
BY DEF Ended, EndPhases

\* A flow that was enqueued or has ended stays bound to its request.
LEMMA FlowsKeptBound == ASSUME TypeOK, FlowsAreBound, [Next]_vars PROVE FlowsAreBound'
<1> SUFFICES ASSUME NEW j \in Tasks, Live(j)', j \in queue' \/ Ended(j)' PROVE binding'[j].bound
    BY DEF FlowsAreBound
<1>0. Ended(j)' <=> \E e \in EndPhases : flow'[j].phase = e BY DEF Ended, EndPhases
<1>1. ASSUME NEW k \in Tasks, Starts(k) \/ OperatorBuild(k) PROVE binding'[j].bound
    <2>1. PICK again \in BOOLEAN, n \in 1..6 :
              Dispatch(k, again, n) /\ (again => k \in Builds)
        BY <1>1, DispatchOf
    <2>2. CASE j # k
        <3>1. binding'[j] = binding[j] BY <2>1, <2>2, DispatchBinds
        <3>2. (Ended(j)' => Ended(j)) /\ (j \in queue' => j \in queue)
            BY <1>0, <2>1, <2>2, DispatchFlows, EndedPhase
        <3> QED BY <3>1, <3>2 DEF FlowsAreBound, Live
    <2>3. CASE j = k
        <3>1. ~Ended(k)'
            <4>1. Rebinds(k, again) => flow'[k].phase \notin EndPhases BY <2>1, DispatchFlows
            <4>2. ~Rebinds(k, again) => ~Ended(k) BY <2>1, DispatchBinds
            <4>3. ~Rebinds(k, again) => (Ended(k)' => Ended(k))
                BY <1>0, <2>1, <2>3, DispatchFlows, EndedPhase
            <4> QED BY <1>0, <2>3, <4>1, <4>2, <4>3
        <3>2. n = 6 BY <2>1, <2>3, <3>1, DispatchFlows
        <3> QED BY <2>1, <2>3, <3>2, DispatchBinds
    <2> QED BY <2>2, <2>3
<1>2. ASSUME NEW k \in Tasks, NEW cut \in BOOLEAN, Reconcile(k, cut) PROVE binding'[j].bound
    <2>1. (Ended(j)' => Ended(j)) /\ (j \in queue' => j \in queue) BY <1>0, <1>2, ReconcileEffect, EndedPhase
    <2>2. CASE binding'[j] = binding[j] BY <2>1, <2>2 DEF FlowsAreBound, Live
    <2>3. CASE binding'[j] # binding[j]
        <3>1. j = k /\ binding'[k].bound = binding[k].bound /\ InFlight(k) BY <1>2, <2>3, ReconcileEffect
        <3> QED BY <3>1 DEF InFlight
    <2> QED BY <2>2, <2>3
<1>3. ASSUME NEW n \in Nodes, NEW cut \in BOOLEAN, Retry(n, cut) \/ Reopen(n, cut) PROVE binding'[j].bound
    <2>1. PICK S \in SUBSET Tasks :
             \/ binding' = Staled(S) /\ UNCHANGED <<flow, queue>>
             \/ Ends(flow) /\ binding' = binding
        BY <1>3, OperatorEffect
    <2>2. (Ended(j)' => Ended(j)) /\ (j \in queue' => j \in queue)
        BY <1>0, <2>1, EndsEffect, EndedPhase DEF Ended
    <2>3. (Live(j)' => Live(j)) /\ binding'[j].bound = binding[j].bound
        BY <2>1, StaledEffect DEF Live
    <2> QED BY <2>2, <2>3 DEF FlowsAreBound
<1>4. ASSUME NEW k \in Tasks, FlowStep(k) \/ Edits(k) PROVE binding'[j].bound
    <2>1. binding'[j].bound = binding[j].bound /\ Live(j) BY <1>4, StepBindings
    <2>2. j \in queue \/ Ended(j) BY <1>4, StepEffect DEF Ended
    <2> QED BY <2>1, <2>2 DEF FlowsAreBound
<1>5. CASE Crash
    <2>1. Ends(flow) /\ binding' = binding BY <1>5 DEF Crash
    <2>2. (Ended(j)' => Ended(j)) /\ j \notin queue' BY <1>0, <2>1, EndsEffect, EndedPhase
    <2> QED BY <2>1, <2>2 DEF FlowsAreBound, Live
<1>6. CASE UNCHANGED <<binding, flow, queue>>
    BY <1>6 DEF FlowsAreBound, Live, Ended
<1> QED BY <1>1, <1>2, <1>3, <1>4, <1>5, <1>6, StepKinds
-----------------------------------------------------------------------------
(* What is above a build is done. *)

\* Below is closed under consumers, and transitive.
LEMMA BelowClosed ==
    ASSUME NEW r \in Repos
    PROVE  /\ r \in Below(r) /\ Below(r) \subseteq Repos
           /\ \A c \in Below(r), d \in Repos : c \in Providers[d] => d \in Below(r)
           /\ \A c \in Below(r) : Below(c) \subseteq Below(r)
<1>1. r \in Below(r) /\ Below(r) \subseteq Repos BY DEF Below
<1>2. ASSUME NEW c \in Below(r), NEW d \in Repos, c \in Providers[d] PROVE d \in Below(r)
    <2> SUFFICES ASSUME NEW S \in SUBSET Repos, r \in S, HasConsumers(S) PROVE d \in S BY DEF Below
    <2>1. c \in S BY DEF Below
    <2> QED BY <1>2, <2>1 DEF HasConsumers
<1>3. ASSUME NEW c \in Below(r) PROVE Below(c) \subseteq Below(r) BY DEF Below
<1> QED BY <1>1, <1>2, <1>3

\* What is below r, but r, uses something below r.
LEMMA BelowUses ==
    ASSUME NEW r \in Repos, NEW c \in Below(r), c # r
    PROVE  \E p \in Providers[c] : p \in Below(r)
<1> DEFINE S == {r} \cup {d \in Below(r) : \E p \in Providers[d] : p \in Below(r)}
<1>1. S \subseteq Below(r) /\ S \subseteq Repos /\ r \in S BY BelowClosed
<1>2. HasConsumers(S)
    <2> SUFFICES ASSUME NEW d \in Repos, Providers[d] \cap S # {} PROVE d \in S BY DEF HasConsumers
    <2>1. PICK p \in Providers[d] : p \in S OBVIOUS
    <2>2. p \in Below(r) BY <1>1, <2>1
    <2>3. d \in Below(r) BY <2>2, BelowClosed
    <2> QED BY <2>2, <2>3
<1>3. c \in S
    <2> HIDE DEF S
    <2> QED BY <1>1, <1>2 DEF Below
<1> QED BY <1>3

\* Below goes one way: dependencies of repositories do not go round.
LEMMA BelowAntisymmetric ==
    ASSUME NEW r \in Repos, NEW c \in Below(r), r \in Below(c)
    PROVE  c = r
<1> SUFFICES ASSUME c # r PROVE FALSE OBVIOUS
<1> DEFINE S == {d \in Below(r) : r \in Below(d)}
<1>1. S \subseteq Repos /\ S # {} /\ c \in Repos /\ c \in S /\ r \in S BY BelowClosed
<1> HIDE DEF S
<1>2. PICK m \in S : Providers[m] \cap S = {} BY <1>1, AcyclicAssumption
<1>3. ASSUME NEW d \in S, d # m PROVE FALSE
    <2>1. d \in Repos /\ m \in Repos /\ r \in Repos /\ m \in Below(r) /\ r \in Below(d) /\ d \in Below(r) /\ r \in Below(m)
        BY <1>1 DEF S
    <2>2. m \in Below(d) BY <2>1, BelowClosed
    <2>3. PICK p \in Providers[m] : p \in Below(d) BY <1>3, <2>1, <2>2, BelowUses
    <2>4. p \in Below(r) /\ p \in Repos BY <2>1, <2>3, BelowClosed
    <2>5. m \in Below(p) BY <2>1, <2>3, <2>4, BelowClosed
    <2>6. r \in Below(p) BY <2>1, <2>4, <2>5, BelowClosed
    <2>7. p \in S BY <2>4, <2>6 DEF S
    <2> QED BY <1>2, <2>3, <2>7
<1> QED BY <1>1, <1>3

\* Every repository below that of a dependent has a dependent too.
LEMMA DependentsReach ==
    ASSUME NEW n \in Nodes, NEW m \in Dependents(n), NEW c \in Below(RepoOf[m])
    PROVE  \E i \in Dependents(n) : RepoOf[i] = c
<1> DEFINE S == {RepoOf[i] : i \in Dependents(n)}
<1>1. Dependents(n) \subseteq Nodes /\ S \subseteq Repos /\ RepoOf[m] \in S
    BY PlanAssumption DEF Dependents
<1>2. HasConsumers(S)
    <2> SUFFICES ASSUME NEW d \in Repos, Providers[d] \cap S # {} PROVE d \in S BY DEF HasConsumers
    <2>1. PICK i \in Dependents(n) : RepoOf[i] \in Providers[d] OBVIOUS
    <2>2. PICK e \in Nodes : RepoOf[e] = d BY PlanAssumption
    <2>3. RestsOn(e, i) BY <2>1, <2>2 DEF RestsOn
    <2>4. e \in Dependents(n) BY <2>3 DEF Dependents, HasDependents
    <2> QED BY <2>2, <2>4
<1> HIDE DEF S
<1>3. c \in S BY <1>1, <1>2 DEF Below
<1> QED BY <1>3 DEF S

\* What must be done before a build is ready: the builds of its providers and the
\* contents of its repository, and its declared build before the final one.
Needs(k) ==
    {<<p, k[2]>> : p \in Providers[k[1]]}
        \cup {<<n, IF k[2] = "declared" THEN "declared" ELSE "proved">> : n \in NodesOf(k[1])}
        \cup (IF k[2] = "final" THEN {<<k[1], "declared">>} ELSE {})

\* It is other tasks, which the build sees.
LEMMA NeedsSeen ==
    ASSUME NEW k \in Builds, NEW j \in Needs(k)
    PROVE  j \in Tasks /\ j # k /\ k \in Seeing(j)
<1>1. k \in Tasks /\ k[1] \in Repos /\ k = <<k[1], k[2]>> /\ k[2] \in {"declared", "final"} BY TaskShape
<1>2. CASE j \in {<<p, k[2]>> : p \in Providers[k[1]]}
    <2>1. PICK p \in Providers[k[1]] : j = <<p, k[2]>> BY <1>2
    <2>2. p \in Repos /\ j \in Builds /\ j \in Tasks /\ Home(j) = p BY <1>1, <2>1, PlanAssumption, TaskShape DEF Home, IsBuild
    <2>3. k[1] \in Below(p) BY <1>1, <2>1, <2>2, BelowClosed
    <2>4. p # k[1]
        <3>1. {p} \in (SUBSET Repos) \ {{}} BY <2>2
        <3>2. p \notin Providers[p] BY <3>1, AcyclicAssumption
        <3> QED BY <2>1, <3>2
    <2> QED BY <1>1, <2>1, <2>2, <2>3, <2>4 DEF Seeing
<1>3. CASE j \in {<<n, IF k[2] = "declared" THEN "declared" ELSE "proved">> : n \in NodesOf(k[1])}
    <2>1. PICK n \in NodesOf(k[1]) : j = <<n, IF k[2] = "declared" THEN "declared" ELSE "proved">> BY <1>3
    <2>2. n \in Nodes /\ RepoOf[n] = k[1] BY <2>1 DEF NodesOf
    <2>3. j \in Tasks /\ j \notin Builds /\ Home(j) = k[1] /\ (j[2] = "declared" \/ k[2] = "final")
        BY <1>1, <2>1, <2>2, TaskShape DEF Home, IsBuild
    <2> QED BY <1>1, <2>3, BelowClosed DEF Seeing
<1>4. CASE k[2] = "final" /\ j = <<k[1], "declared">>
    <2>1. j \in Builds /\ j \in Tasks /\ Home(j) = k[1] BY <1>1, <1>4, TaskShape DEF Home, IsBuild
    <2> QED BY <1>1, <1>4, <2>1, BelowClosed DEF Seeing
<1> QED BY <1>2, <1>3, <1>4 DEF Needs

\* It is done when the build is ready.
LEMMA ReadyNeeds == ASSUME NEW k \in Builds, Ready(k), NEW j \in Needs(k) PROVE Succeeded(j)
<1>1. k \in Tasks /\ k \notin Contents /\ k[1] \in Repos /\ k[2] \in {"declared", "final"} BY TaskShape
<1>2. CASE k[2] = "declared"
    <2>1. RepoAtLeast(k[1], "declared") /\ \A p \in Providers[k[1]] : Succeeded(<<p, "declared">>)
        BY <1>1, <1>2 DEF Ready
    <2> QED BY <1>2, <2>1 DEF Needs, RepoAtLeast, Passed
<1>3. CASE k[2] = "final"
    <2>1. /\ AllBuilt("declared") /\ RepoAtLeast(k[1], "proved")
          /\ \A p \in Providers[k[1]] : Succeeded(<<p, "final">>)
        BY <1>1, <1>3 DEF Ready
    <2> QED BY <1>1, <1>3, <2>1 DEF Needs, RepoAtLeast, Passed, AllBuilt
<1> QED BY <1>1, <1>2, <1>3

\* A build that the operator did not begin early keeps what it needs done as long
\* as it is current.
NeedsAreDone ==
    \A k \in Builds : ~binding[k].stale /\ k \notin early => \A j \in Needs(k) : Succeeded(j)

\* What becomes stale with a task takes the builds that see it along.
ClosedBelow(S) == \A j \in S : \A k \in Seeing(j) : binding[k].stale \/ k \in S

\* A retry takes the builds along that see what it makes stale.
LEMMA RetriedClosed == ASSUME NEW n \in Nodes PROVE ClosedBelow(RetriedBy(n))
<1> SUFFICES ASSUME NEW j \in RetriedBy(n), NEW k \in Seeing(j), ~binding[k].stale PROVE k \in RetriedBy(n)
    BY DEF ClosedBelow
<1>1. j \in Tasks /\ RepoOf[n] \in Repos BY PlanAssumption DEF RetriedBy
<1>2. k \in Builds /\ k \in Tasks /\ k[1] \in Below(Home(j)) /\ (j[2] = "declared" \/ k[2] = "final")
    BY TaskShape DEF Seeing
<1>3. Home(j) \in Below(RepoOf[n]) /\ (RetryStage(n) = "declared" \/ k[2] = "final")
    <2>1. CASE j = <<n, RetryStage(n)>>
        <3>1. RetryStage(n) \in {"declared", "proved"} BY DEF RetryStage
        <3>2. j \notin Builds /\ j[1] = n /\ j[2] = RetryStage(n) BY <2>1, <3>1, TaskShape
        <3>3. Home(j) = RepoOf[n] BY <3>2 DEF Home, IsBuild
        <3> QED BY <1>1, <1>2, <3>1, <3>2, <3>3, BelowClosed
    <2>2. CASE j # <<n, RetryStage(n)>>
        <3>1. IsBuild(j) /\ j[1] \in Below(RepoOf[n]) /\ (RetryStage(n) = "declared" \/ j[2] = "final")
            BY <2>2 DEF RetriedBy, RetriedRepos
        <3> QED BY <1>2, <3>1 DEF Home
    <2> QED BY <2>1, <2>2
<1>4. k[1] \in Below(RepoOf[n]) BY <1>1, <1>2, <1>3, BelowClosed
<1> QED BY <1>2, <1>3, <1>4 DEF RetriedBy, RetriedRepos, IsBuild

\* So does a reopening.
LEMMA ReopenedClosed == ASSUME NEW n \in Nodes PROVE ClosedBelow(ReopenedBy(n))
<1> SUFFICES ASSUME NEW j \in ReopenedBy(n), NEW k \in Seeing(j), ~binding[k].stale PROVE k \in ReopenedBy(n)
    BY DEF ClosedBelow
<1>1. k \in Builds /\ k \in Tasks /\ k[1] \in Below(Home(j)) BY TaskShape DEF Seeing
<1>2. PICK m \in Dependents(n) : RepoOf[m] = Home(j) BY DEF ReopenedBy, Home
<1>3. \E i \in Dependents(n) : RepoOf[i] = k[1] BY <1>1, <1>2, DependentsReach
<1> QED BY <1>1, <1>3 DEF ReopenedBy, IsBuild

\* A repair takes what is below its build along.
LEMMA PreparedClosed ==
    ASSUME TypeOK, NEW k0 \in Builds, Prepares(k0), k0[2] = "declared"
    PROVE  ClosedBelow(Others(k0) \cap Builds)
<1> SUFFICES ASSUME NEW j \in Others(k0) \cap Builds, NEW k \in Seeing(j), ~binding[k].stale
             PROVE  k \in Others(k0) \cap Builds
    BY DEF ClosedBelow
<1>1. /\ k0 \in Tasks /\ j \in Tasks /\ k \in Tasks /\ k \in Builds /\ k0 = <<k0[1], k0[2]>> /\ j = <<j[1], j[2]>>
      /\ k0[1] \in Repos /\ j[1] \in Repos
    BY TaskShape DEF Seeing
<1>2. /\ j # k0 /\ ~binding[j].stale /\ j[2] = "declared" /\ j[1] \in Below(k0[1])
      /\ Home(j) = j[1] /\ Home(k0) = k0[1] /\ Home(k) = k[1]
    BY <1>1, PreparesEffect DEF Home, IsBuild
<1>3. k[1] \in Below(j[1]) BY <1>2 DEF Seeing
<1>4. k[1] \in Below(k0[1]) BY <1>1, <1>2, <1>3, BelowClosed
<1>5. k # k0
    <2> SUFFICES ASSUME k = k0 PROVE FALSE OBVIOUS
    <2>1. j[1] = k0[1] BY <1>1, <1>2, <1>3, BelowAntisymmetric
    <2> QED BY <1>1, <1>2, <2>1
<1> QED BY <1>1, <1>2, <1>4, <1>5 DEF Others

\* A step that dispatches nothing stales such sets alone.
LEMMA StaleSteps ==
    ASSUME TypeOK, [Next]_vars, \A k \in Tasks : ~(Starts(k) \/ OperatorBuild(k))
    PROVE  /\ early' = early
           /\ \E S \in SUBSET Tasks :
                 /\ ClosedBelow(S)
                 /\ \A j \in Tasks : /\ binding'[j].stale <=> (binding[j].stale \/ j \in S)
                                     /\ binding'[j].pins = binding[j].pins
                                     /\ Succeeded(j) /\ j \notin S =>
                                           Succeeded(j)' /\ binding'[j].epoch = binding[j].epoch
<1> DEFINE Only(S) ==
        /\ ClosedBelow(S)
        /\ \A j \in Tasks : /\ binding'[j].stale <=> (binding[j].stale \/ j \in S)
                            /\ binding'[j].pins = binding[j].pins
                            /\ Succeeded(j) /\ j \notin S =>
                                  Succeeded(j)' /\ binding'[j].epoch = binding[j].epoch
<1>0. ClosedBelow({}) BY DEF ClosedBelow
<1>a. ASSUME binding' = binding PROVE Only({}) BY <1>0, <1>a DEF Succeeded
<1>b. ASSUME NEW S \in SUBSET Tasks, ClosedBelow(S), binding' = Staled(S) PROVE Only(S)
    BY <1>b, StaledEffect
<1> SUFFICES early' = early /\ \E S \in SUBSET Tasks : Only(S) OBVIOUS
<1> HIDE DEF Only
<1>2. ASSUME NEW k0 \in Tasks, NEW cut \in BOOLEAN, Reconcile(k0, cut)
      PROVE  early' = early /\ \E S \in SUBSET Tasks : Only(S)
    <2>1. early' = early BY <1>2 DEF Reconcile
    <2>2. /\ InFlight(k0) /\ \A i \in Tasks \ {k0} : binding'[i] = binding[i]
          /\ binding' = binding \/ (~binding'[k0].stale /\ binding'[k0].pins = binding[k0].pins)
        BY <1>2, ReconcileEffect
    <2>3. ~Succeeded(k0) /\ ~binding[k0].stale BY <2>2 DEF InFlight, Live, Succeeded
    <2>4. Only({}) BY <1>0, <1>a, <2>2, <2>3 DEF Only, Succeeded
    <2> QED BY <2>1, <2>4
<1>3. ASSUME NEW n \in Nodes, NEW cut \in BOOLEAN, Retry(n, cut) \/ Reopen(n, cut)
      PROVE  early' = early /\ \E S \in SUBSET Tasks : Only(S)
    <2>0. early' = early BY <1>3 DEF Retry, Reopen
    <2>1. PICK S \in SUBSET Tasks :
             /\ S \in {RetriedBy(n), ReopenedBy(n)}
             /\ binding' = Staled(S) \/ binding' = binding
        BY <1>3, OperatorEffect
    <2>2. ClosedBelow(S) BY <2>1, RetriedClosed, ReopenedClosed
    <2> QED BY <1>a, <1>b, <2>0, <2>1, <2>2
<1>4. ASSUME NEW k0 \in Tasks, FlowStep(k0) \/ Edits(k0)
      PROVE  early' = early /\ \E S \in SUBSET Tasks : Only(S)
    <2>0. early' = early BY <1>4, StepEffect
    <2>1. CASE binding' = binding BY <1>a, <2>0, <2>1
    <2>2. CASE Prepares(k0) /\ k0 \in Builds /\ k0[2] = "declared"
        <3> DEFINE S == Others(k0) \cap Builds
        <3>1. ClosedBelow(S) BY <2>2, PreparedClosed
        <3>2. binding' = Staled(S) /\ S \in SUBSET Tasks BY <2>2, PreparesEffect, TaskShape
        <3> HIDE DEF S
        <3> QED BY <1>b, <2>0, <3>1, <3>2
    <2> QED BY <1>4, <2>1, <2>2, StepEffect
<1>5. CASE UNCHANGED <<binding, early>> BY <1>a, <1>5
<1> QED BY <1>2, <1>3, <1>4, <1>5, StepKinds DEF Crash

\* A dispatch that binds anew makes a build early or asked for what it needs.
LEMMA DispatchEarly ==
    ASSUME TypeOK, NEW k0 \in Tasks, NEW again \in BOOLEAN, NEW n \in 1..6, Dispatch(k0, again, n),
           ~again => Ready(k0)
    PROVE  /\ \A k \in Builds \ {k0} : k \in early' <=> k \in early
           /\ ~Rebinds(k0, again) => early' = early
           /\ Rebinds(k0, again) /\ k0 \notin early' => Ready(k0)
BY DEF Dispatch

\* Every step leaves what a build needs done.
LEMMA NeedsKept == ASSUME TypeOK, NeedsAreDone, [Next]_vars PROVE NeedsAreDone'
<1> SUFFICES ASSUME NEW k \in Builds, ~binding'[k].stale, k \notin early', NEW j \in Needs(k)
             PROVE  Succeeded(j)'
    BY DEF NeedsAreDone, Needs, NodesOf
<1>a. k \in Tasks /\ j \in Tasks /\ j # k /\ k \in Seeing(j) BY NeedsSeen, TaskShape
<1>1. ASSUME NEW k0 \in Tasks, Starts(k0) \/ OperatorBuild(k0) PROVE Succeeded(j)'
    <2>1. PICK again \in BOOLEAN, n \in 1..6 :
              /\ Dispatch(k0, again, n)
              /\ ~again => Ready(k0)
        BY <1>1, DispatchOf
    <2>2. (\A i \in Tasks \ {k0} : binding'[i] = binding[i]) /\ ~Succeeded(k0) BY <2>1, DispatchBinds
    <2>3. Succeeded(j)
        <3>1. CASE k # k0
            <4>1. ~binding[k].stale /\ k \notin early BY <1>a, <2>1, <2>2, <3>1, DispatchEarly
            <4> QED BY <4>1 DEF NeedsAreDone
        <3>2. CASE k = k0 /\ Rebinds(k0, again)
            <4>1. Ready(k) BY <2>1, <3>2, DispatchEarly
            <4> QED BY <4>1, ReadyNeeds
        <3>3. CASE k = k0 /\ ~Rebinds(k0, again)
            <4>1. ~binding[k].stale /\ k \notin early BY <2>1, <3>3, DispatchEarly DEF Rebinds
            <4> QED BY <4>1 DEF NeedsAreDone
        <3> QED BY <3>1, <3>2, <3>3
    <2> QED BY <1>a, <2>2, <2>3 DEF Succeeded
<1>2. CASE \A k0 \in Tasks : ~(Starts(k0) \/ OperatorBuild(k0))
    <2>1. PICK S \in SUBSET Tasks :
             /\ ClosedBelow(S)
             /\ \A i \in Tasks : /\ binding'[i].stale <=> (binding[i].stale \/ i \in S)
                                 /\ Succeeded(i) /\ i \notin S => Succeeded(i)'
        BY <1>2, StaleSteps
    <2>2. ~binding[k].stale /\ k \notin S /\ k \notin early BY <1>a, <1>2, <2>1, StaleSteps
    <2>3. Succeeded(j) /\ j \notin S BY <1>a, <2>1, <2>2 DEF NeedsAreDone, ClosedBelow
    <2> QED BY <1>a, <2>1, <2>3
<1> QED BY <1>1, <1>2

\* What a build sees can be trusted if the build can.
LEMMA TrustedAbove ==
    ASSUME TypeOK, NEW k \in Builds, NEW b \in Builds, k \in Seeing(b), Trusted(k)
    PROVE  Trusted(b)
<1> SUFFICES ASSUME NEW j \in Early, b \in Seeing(j) PROVE FALSE BY DEF Trusted
<1>1. Home(j) \in Repos
    <2>1. j \in Builds BY DEF Early, TypeOK
    <2> QED BY <2>1, TaskShape DEF Home, IsBuild
<1>2. Home(b) = b[1] BY DEF Home, IsBuild
<1>3. k[1] \in Below(Home(j)) BY <1>1, <1>2, BelowClosed DEF Seeing
<1>4. k \in Seeing(j) BY <1>3, TaskShape DEF Seeing
<1> QED BY <1>4 DEF Trusted

\* A build that is current and rests on none begun early sees a task only once
\* that task is done: its own contents and, through the builds of its providers,
\* everything above.
AboveIsDone ==
    \A j \in Tasks : \A k \in Seeing(j) \ {j} : ~binding[k].stale /\ Trusted(k) => Succeeded(j)

\* The builds of the least repository of those that would contradict it need one.
LEMMA AboveFollows == ASSUME TypeOK, NeedsAreDone PROVE AboveIsDone
<1> SUFFICES ASSUME NEW j \in Tasks, NEW k \in Seeing(j) \ {j}, ~binding[k].stale, Trusted(k), ~Succeeded(j)
             PROVE  FALSE
    BY DEF AboveIsDone
<1> DEFINE h == Home(j)
           s == k[2]
           S == {c \in Below(h) : <<c, s>> # j /\ ~binding[<<c, s>>].stale /\ Trusted(<<c, s>>)}
<1>1. /\ k \in Builds /\ k = <<k[1], s>> /\ k[1] \in Below(h) /\ s \in {"declared", "final"}
      /\ j[2] = "declared" \/ s = "final"
    BY TaskShape DEF Seeing
<1>2. h \in Repos /\ Below(h) \subseteq Repos BY HomeType, BelowClosed
<1>3. S \subseteq Repos /\ k[1] \in S BY <1>1, <1>2
<1>4. PICK r \in S : Providers[r] \cap S = {}
    <2> HIDE DEF S
    <2> QED BY <1>3, AcyclicAssumption
<1> DEFINE b == <<r, s>>
<1>5. /\ r \in Repos /\ r \in Below(h) /\ b \in Builds /\ b[1] = r /\ b[2] = s /\ b # j
      /\ ~binding[b].stale /\ Trusted(b)
    BY <1>1, <1>2, TaskShape
<1>6. ASSUME NEW i \in Builds, Trusted(i), ~binding[i].stale PROVE i \notin early
    <2>1. i[1] \in Repos /\ Home(i) = i[1] /\ i[2] \in {"declared", "final"} BY TaskShape DEF Home, IsBuild
    <2>2. i \in Seeing(i) BY <2>1, BelowClosed DEF Seeing
    <2> QED BY <1>6, <2>2 DEF Trusted, Early
<1>7. \A i \in Needs(b) : Succeeded(i) BY <1>5, <1>6 DEF NeedsAreDone
<1>8. CASE r # h
    <2>1. PICK p \in Providers[r] : p \in Below(h) BY <1>2, <1>5, <1>8, BelowUses
    <2>2. <<p, s>> \in Needs(b) BY <1>5, <2>1 DEF Needs
    <2>3. /\ Succeeded(<<p, s>>) /\ <<p, s>> \in Builds /\ b \in Seeing(<<p, s>>)
        BY <1>1, <1>2, <1>5, <1>7, <2>1, <2>2, NeedsSeen, TaskShape
    <2>4. Trusted(<<p, s>>) /\ ~binding[<<p, s>>].stale /\ <<p, s>> # j
        BY <1>5, <2>3, TrustedAbove DEF Succeeded
    <2>5. p \in S BY <2>1, <2>4
    <2> QED BY <1>4, <2>1, <2>5
<1>9. CASE r = h
    <2>1. CASE j \in Builds
        <3>1. j = <<h, j[2]>> /\ j[2] \in {"declared", "final"} BY <2>1, TaskShape DEF Home, IsBuild
        <3>2. j = <<h, "declared">> /\ s = "final" BY <1>1, <1>5, <1>9, <3>1
        <3>3. j \in Needs(b) BY <1>5, <1>9, <3>2 DEF Needs
        <3> QED BY <1>7, <3>3
    <2>2. CASE j \in Contents
        <3>1. /\ j = <<j[1], j[2]>> /\ j[1] \in NodesOf(h) /\ j[2] \in {"declared", "proved"}
            BY <2>2, TaskShape DEF Home, IsBuild, NodesOf
        <3>2. CASE (j[2] = "declared") <=> (s = "declared")
            <4>1. j \in Needs(b) BY <1>1, <1>5, <1>9, <3>1, <3>2 DEF Needs
            <4> QED BY <1>7, <4>1
        <3>3. CASE j[2] = "declared" /\ s = "final"
            <4> DEFINE d == <<h, "declared">>
            <4>1. d \in Needs(b) BY <1>5, <1>9, <3>3 DEF Needs
            <4>2. Succeeded(d) /\ b \in Seeing(d) /\ d \in Builds BY <1>2, <1>5, <1>7, <4>1, NeedsSeen, TaskShape
            <4>3. Trusted(d) /\ ~binding[d].stale BY <1>5, <4>2, TrustedAbove DEF Succeeded
            <4>4. d \notin early BY <1>6, <4>2, <4>3
            <4>5. d[1] = h /\ d[2] = "declared" OBVIOUS
            <4>6. j \in Needs(d) BY <3>1, <3>3, <4>5 DEF Needs
            <4> QED BY <4>2, <4>3, <4>4, <4>6 DEF NeedsAreDone
        <3> QED BY <1>1, <3>1, <3>2, <3>3
    <2> QED BY <2>1, <2>2 DEF Tasks
<1> QED BY <1>8, <1>9

\* A build gains trust only when one that it rests on and that was begun early is
\* bound anew.
LEMMA TrustBefore ==
    ASSUME TypeOK, [Next]_vars, NEW k \in Builds, ~binding'[k].stale, Trusted(k)'
    PROVE  \/ Trusted(k)
           \/ \E k0 \in Tasks : /\ k \in Seeing(k0) /\ ~binding'[k0].stale /\ binding'[k0].outcome = "none"
                                /\ Failed(k0) /\ flow'[k0].phase \notin Working \cup EndPhases
<1> SUFFICES ASSUME ~Trusted(k)
             PROVE  \E k0 \in Tasks : /\ k \in Seeing(k0) /\ ~binding'[k0].stale /\ binding'[k0].outcome = "none"
                                      /\ Failed(k0) /\ flow'[k0].phase \notin Working \cup EndPhases
    OBVIOUS
<1>1. PICK j \in Early : k \in Seeing(j) BY DEF Trusted
<1>2. j \in early /\ ~binding[j].stale /\ j \in Builds /\ j \in Tasks /\ k \in Tasks
    BY TaskShape DEF Early, TypeOK
<1>3. j \notin early' \/ binding'[j].stale BY <1>1 DEF Trusted, Early, Seeing
<1>4. CASE \A k0 \in Tasks : ~(Starts(k0) \/ OperatorBuild(k0))
    <2>1. PICK S \in SUBSET Tasks :
             /\ ClosedBelow(S)
             /\ \A i \in Tasks : binding'[i].stale <=> (binding[i].stale \/ i \in S)
        BY <1>4, StaleSteps
    <2>2. j \in S BY <1>2, <1>3, <1>4, <2>1, StaleSteps
    <2>3. binding[k].stale \/ k \in S BY <1>1, <2>1, <2>2 DEF ClosedBelow
    <2> QED BY <1>2, <2>1, <2>3
<1>5. ASSUME NEW k0 \in Tasks, Starts(k0) \/ OperatorBuild(k0)
      PROVE  /\ k \in Seeing(k0) /\ ~binding'[k0].stale /\ binding'[k0].outcome = "none"
             /\ Failed(k0) /\ flow'[k0].phase \notin Working \cup EndPhases
    <2>1. PICK again \in BOOLEAN, n \in 1..6 :
              /\ Dispatch(k0, again, n)
              /\ ~again => Ready(k0)
        BY <1>5, DispatchOf
    <2>2. /\ \A i \in Tasks \ {k0} : binding'[i] = binding[i]
          /\ ~binding'[k0].stale /\ binding'[k0].outcome = "none"
        BY <2>1, DispatchBinds
    <2>3. j = k0 /\ Rebinds(k0, again) BY <1>2, <1>3, <2>1, <2>2, DispatchEarly
    <2>4. Failed(k0) BY <1>2, <2>3 DEF Rebinds
    <2>5. flow'[k0].phase \notin Working \cup EndPhases BY <2>1, <2>3, DispatchFlows
    <2> QED BY <1>1, <2>2, <2>3, <2>4, <2>5
<1> QED BY <1>4, <1>5

\* A final build is pinned to the current final builds of its providers.
PinsAreCurrent ==
    \A k \in Builds : ~binding[k].stale => \A pin \in binding[k].pins :
        /\ k[2] = "final" /\ pin[1] \in Providers[k[1]]
        /\ Succeeded(<<pin[1], "final">>) /\ binding[<<pin[1], "final">>].epoch = pin[2]

\* Every step leaves the pins of current builds current.
LEMMA PinsKept == ASSUME TypeOK, PinsAreCurrent, [Next]_vars PROVE PinsAreCurrent'
<1> SUFFICES ASSUME NEW k \in Builds, ~binding'[k].stale, NEW pin \in binding'[k].pins
             PROVE  /\ k[2] = "final" /\ pin[1] \in Providers[k[1]]
                    /\ Succeeded(<<pin[1], "final">>)' /\ binding'[<<pin[1], "final">>].epoch = pin[2]
    BY DEF PinsAreCurrent
<1> DEFINE b == <<pin[1], "final">>
           Was == k[2] = "final" /\ pin[1] \in Providers[k[1]] /\ Succeeded(b) /\ binding[b].epoch = pin[2]
<1>a. k \in Tasks /\ k[1] \in Repos /\ k \notin Contents BY TaskShape
<1>b. ASSUME Was PROVE b \in Tasks /\ b \in Builds /\ k \in Seeing(b)
    <2>1. pin[1] \in Repos BY <1>a, <1>b, PlanAssumption
    <2>2. b \in Tasks /\ b \in Builds /\ Home(b) = pin[1] BY <2>1, TaskShape DEF Home, IsBuild
    <2>3. k[1] \in Below(pin[1]) BY <1>a, <1>b, <2>1, BelowClosed
    <2> QED BY <1>b, <2>2, <2>3 DEF Seeing
<1>1. ASSUME NEW k0 \in Tasks, Starts(k0) \/ OperatorBuild(k0)
      PROVE  Was /\ Succeeded(b)' /\ binding'[b].epoch = binding[b].epoch
    <2>1. PICK again \in BOOLEAN, n \in 1..6 :
              /\ Dispatch(k0, again, n)
              /\ ~again => Ready(k0)
        BY <1>1, DispatchOf
    <2>2. (\A i \in Tasks \ {k0} : binding'[i] = binding[i]) /\ ~Succeeded(k0) BY <2>1, DispatchBinds
    <2>4. Was
        <3>1. CASE k # k0 \/ ~Rebinds(k0, again)
            <4>1. ~binding[k].stale /\ pin \in binding[k].pins
                BY <1>a, <2>1, <2>2, <3>1, DispatchBinds DEF Live
            <4> QED BY <4>1 DEF PinsAreCurrent
        <3>2. CASE k = k0 /\ Rebinds(k0, again)
            <4>1. ~again /\ pin \in Pins(k) BY <2>1, <3>2, DispatchBinds
            <4>2. k[2] = "final" /\ pin \in {<<p, binding[<<p, "final">>].epoch>> : p \in Providers[k[1]]}
                BY <4>1 DEF Pins
            <4>3. pin[1] \in Providers[k[1]] /\ binding[b].epoch = pin[2]
                <5>1. PICK p \in Providers[k[1]] : pin = <<p, binding[<<p, "final">>].epoch>> BY <4>2
                <5>2. pin[1] = p /\ pin[2] = binding[<<p, "final">>].epoch BY <5>1
                <5> QED BY <5>2
            <4>4. Succeeded(b) BY <1>a, <2>1, <3>2, <4>1, <4>2, <4>3 DEF Ready
            <4> QED BY <4>2, <4>3, <4>4
        <3> QED BY <3>1, <3>2
    <2>5. b \in Tasks BY <1>b, <2>4
    <2>6. binding'[b] = binding[b] BY <2>2, <2>4, <2>5
    <2> QED BY <2>4, <2>6 DEF Succeeded
<1>2. CASE \A k0 \in Tasks : ~(Starts(k0) \/ OperatorBuild(k0))
    <2>1. PICK S \in SUBSET Tasks :
             /\ ClosedBelow(S)
             /\ \A i \in Tasks : /\ binding'[i].stale <=> (binding[i].stale \/ i \in S)
                                 /\ binding'[i].pins = binding[i].pins
                                 /\ Succeeded(i) /\ i \notin S =>
                                       Succeeded(i)' /\ binding'[i].epoch = binding[i].epoch
        BY <1>2, StaleSteps
    <2>2. ~binding[k].stale /\ k \notin S /\ pin \in binding[k].pins BY <1>a, <2>1
    <2>3. Was BY <2>2 DEF PinsAreCurrent
    <2>4. b \in Tasks /\ b \notin S BY <1>b, <2>1, <2>2, <2>3 DEF ClosedBelow
    <2> QED BY <2>1, <2>3, <2>4
<1> QED BY <1>1, <1>2
-----------------------------------------------------------------------------
(* What the steps do to the contents. *)

\* A step of a flow changes the work of its own node at most.
LEMMA StepWork ==
    ASSUME TypeOK, NEW k \in Tasks, FlowStep(k) \/ Edits(k), NEW n \in Nodes
    PROVE  /\ work'[n].issue = work[n].issue /\ (work[n].there => work'[n].there)
           /\ work[n].base => work'[n].base
           /\ \/ work'[n].stage = work[n].stage /\ work'[n].base = work[n].base
              \/ /\ AgentSubmits(k) /\ k[1] = n /\ k \in Contents /\ InFlight(k)
                 /\ work'[n].stage = Level(k[2]) /\ work'[n].base
           /\ \/ \A i \in Nodes : work'[i].stage = work[i].stage
              \/ k \in Contents /\ InFlight(k) /\ flow[k].phase = "work"
<1>1. work[n] \in ContentWork BY DEF TypeOK
<1>2. CASE AgentEdits(k)
    <2>1. work' = [work EXCEPT ![k[1]].there = TRUE] BY <1>2 DEF AgentEdits
    <2>2. work'[n] = IF n = k[1] THEN [work[n] EXCEPT !.there = TRUE] ELSE work[n] BY <2>1 DEF TypeOK
    <2>3. \A i \in Nodes : work'[i].stage = work[i].stage BY <2>1 DEF TypeOK, ContentWork
    <2> QED BY <1>1, <2>2, <2>3 DEF ContentWork
<1>3. CASE AgentSubmits(k)
    <2>1. /\ work' = [work EXCEPT ![k[1]].stage = Level(k[2]), ![k[1]].base = TRUE]
          /\ k \in Contents /\ InFlight(k) /\ flow[k].phase = "work"
        BY <1>3 DEF AgentSubmits, Valid, At
    <2>2. work'[n] = IF n = k[1] THEN [work[n] EXCEPT !.stage = Level(k[2]), !.base = TRUE] ELSE work[n]
        BY <2>1 DEF TypeOK
    <2>3. n # k[1] => work'[n] = work[n] BY <2>2
    <2>4. n = k[1] => /\ work'[n].issue = work[n].issue /\ work'[n].there = work[n].there
                      /\ work'[n].stage = Level(k[2]) /\ work'[n].base
        BY <1>1, <2>2 DEF ContentWork
    <2> QED BY <1>3, <2>1, <2>3, <2>4
<1>4. CASE UNCHANGED work BY <1>4
<1> QED BY <1>2, <1>3, <1>4
        DEF FlowStep, Edits, AgentStarts, AgentGivesUp, BuildStarts, BuildEnds, RepairStarts, RepairEnds, RepairEdits

\* A retry puts its node back by a stage.
LEMMA RetryWork ==
    ASSUME TypeOK, NEW n \in Nodes, NEW cut \in BOOLEAN, Retry(n, cut)
    PROVE  /\ \A m \in Nodes \ {n} : work'[m] = work[m]
           /\ work'[n].there /\ ~work'[n].issue /\ work'[n].base = work[n].base
           /\ work'[n].stage = IF work[n].base THEN 1 ELSE 0
BY DEF Retry, RetryStage, TypeOK

\* A reopening puts nodes back to the plan stage, and leaves the others.
LEMMA ReopenWork ==
    ASSUME TypeOK, NEW n \in Nodes, NEW cut \in BOOLEAN, Reopen(n, cut)
    PROVE  \E M \in SUBSET Dependents(n) :
              /\ ~cut => M = Dependents(n)
              /\ \A m \in Nodes :
                    \/ (m \notin M \/ ~work[m].there) /\ work'[m] = work[m]
                    \/ /\ m \in M /\ work'[m].there = work[m].there /\ ~work'[m].issue
                       /\ ~work'[m].base /\ work'[m].stage = 0
<1>1. PICK M \in SUBSET Dependents(n) : work' = Opened(M) /\ (~cut => M = Dependents(n)) BY DEF Reopen
<1>2. ASSUME NEW m \in Nodes
      PROVE  \/ (m \notin M \/ ~work[m].there) /\ work'[m] = work[m]
             \/ /\ m \in M /\ work'[m].there = work[m].there /\ ~work'[m].issue
                /\ ~work'[m].base /\ work'[m].stage = 0
    <2>1. work[m] \in ContentWork BY DEF TypeOK
    <2> QED BY <1>1, <2>1 DEF Opened, ContentWork
<1> QED BY <1>1, <1>2

\* A reconciliation notes an issue, and leaves stages and baselines.
LEMMA ReconcileWork ==
    ASSUME TypeOK, NEW k \in Tasks, NEW cut \in BOOLEAN, Reconcile(k, cut), NEW n \in Nodes
    PROVE  /\ work'[n].stage = work[n].stage /\ work'[n].base = work[n].base
           /\ work[n].there => work'[n].there
           /\ \/ work'[n].issue = work[n].issue
              \/ work'[n].there /\ flow[k].phase = "bad" /\ k \in Contents /\ k[1] = n
<1>1. work[n] \in ContentWork BY DEF TypeOK
<1>2. CASE flow[k].phase = "bad" /\ k \in Contents
    <2>1. work' = [work EXCEPT ![k[1]].there = TRUE, ![k[1]].issue = TRUE] BY <1>2 DEF Reconcile
    <2>2. work'[n] = IF n = k[1] THEN [work[n] EXCEPT !.there = TRUE, !.issue = TRUE] ELSE work[n]
        BY <2>1 DEF TypeOK
    <2> QED BY <1>1, <1>2, <2>2 DEF ContentWork
<1>3. CASE work' = work BY <1>3
<1> QED BY <1>2, <1>3 DEF Reconcile
-----------------------------------------------------------------------------
(* Stages of a node, and repairs of its repository. *)

\* The stages of a node as tasks.
LEMMA StageTasks ==
    ASSUME NEW n \in Nodes
    PROVE  /\ \A s \in {"declared", "proved"} :
                 /\ <<n, s>> \in Tasks /\ <<n, s>> \in Contents /\ <<n, s>> \notin Builds
                 /\ Home(<<n, s>>) = RepoOf[n]
           /\ <<n, "declared">> # <<n, "proved">>
           /\ RepoOf[n] \in Repos /\ <<RepoOf[n], "declared">> \in Tasks
           /\ <<RepoOf[n], "declared">> \in Builds
BY TaskShape, PlanAssumption DEF Home, IsBuild

\* A proof is worked on only for a declaration that is done and whose interface
\* is saved.
ProvedHasBase ==
    \A n \in Nodes :
        /\ work[n].stage >= 1 => work[n].base
        /\ InFlight(<<n, "proved">>) => Succeeded(<<n, "declared">>) /\ work[n].base

\* A node that is being proved stays declared, with its baseline stored.
LEMMA ProvedKept == ASSUME TypeOK, ProvedHasBase, [Next]_vars PROVE ProvedHasBase'
<1> SUFFICES ASSUME NEW n \in Nodes
             PROVE  /\ work'[n].stage >= 1 => work'[n].base
                    /\ InFlight(<<n, "proved">>)' => Succeeded(<<n, "declared">>)' /\ work'[n].base
    BY DEF ProvedHasBase
<1> DEFINE p == <<n, "proved">>
           d == <<n, "declared">>
           Goal == /\ work'[n].stage >= 1 => work'[n].base
                   /\ InFlight(p)' => Succeeded(d)' /\ work'[n].base
<1>a. /\ p \in Tasks /\ p \in Contents /\ p \notin Builds /\ p # d /\ p[1] = n /\ p[2] = "proved"
      /\ d \in Tasks /\ d \in Contents /\ d \notin Builds /\ d[1] = n /\ d[2] = "declared"
    BY StageTasks
<1>b. /\ work[n].stage >= 1 => work[n].base
      /\ InFlight(p) => Succeeded(d) /\ work[n].base
    BY DEF ProvedHasBase
<1>1. ASSUME NEW k \in Tasks, Starts(k) \/ OperatorBuild(k) PROVE Goal
    <2>1. PICK again \in BOOLEAN, m \in 1..6 :
              /\ Dispatch(k, again, m)
              /\ again => k \in Builds
              /\ ~again => Ready(k)
        BY <1>1, DispatchOf
    <2>2. (\A i \in Tasks \ {k} : binding'[i] = binding[i]) /\ ~Succeeded(k) /\ work' = work
        BY <2>1, DispatchBinds DEF Dispatch
    <2>3. InFlight(p)' => Succeeded(d) /\ work[n].base
        <3>1. CASE k # p BY <1>a, <1>b, <2>2, <3>1 DEF InFlight, Live
        <3>2. CASE k = p
            <4>1. Passed(n, "declared") BY <1>a, <2>1, <3>2 DEF Ready
            <4> QED BY <1>b, <4>1 DEF Passed, Level
        <3> QED BY <3>1, <3>2
    <2> QED BY <1>a, <1>b, <2>2, <2>3 DEF Succeeded
<1>2. ASSUME NEW k \in Tasks, NEW cut \in BOOLEAN, Reconcile(k, cut) PROVE Goal
    <2>1. work'[n].stage = work[n].stage /\ work'[n].base = work[n].base BY <1>2, ReconcileWork
    <2>2. InFlight(k) /\ Ended(k) /\ \A i \in Tasks \ {k} : binding'[i] = binding[i] BY <1>2, ReconcileEffect
    <2>3. InFlight(p)' => InFlight(p)
        BY <1>2, <1>a, <2>2, ReconcileEffect DEF InFlight, Live, Ended
    <2>4. Succeeded(d) => Succeeded(d)' BY <1>a, <2>2 DEF Succeeded, InFlight, Live
    <2> QED BY <1>b, <2>1, <2>3, <2>4
<1>3. ASSUME NEW m \in Nodes, NEW cut \in BOOLEAN, Retry(m, cut) \/ Reopen(m, cut) PROVE Goal
    <2>1. PICK S \in SUBSET Tasks :
             /\ (Retry(m, cut) /\ S = RetriedBy(m)) \/ (Reopen(m, cut) /\ S = ReopenedBy(m))
             /\ NoWriter(S) /\ (binding' = Staled(S) \/ binding' = binding)
        BY <1>3, OperatorEffect
    <2>2. CASE Retry(m, cut) /\ S = RetriedBy(m)
        <3>1. work'[n].base = work[n].base /\ (work'[n].stage >= 1 => work[n].stage >= 1 \/ work[n].base)
            BY <2>2, RetryWork
        <3>2. d \in S => ~work[n].base BY <1>a, <2>2 DEF RetriedBy, RetryStage, IsBuild
        <3>3. InFlight(p)' => InFlight(p) BY <1>a, <2>1, StaledEffect DEF InFlight, Live
        <3>4. Succeeded(d) /\ d \notin S => Succeeded(d)' BY <1>a, <2>1, StaledEffect DEF Succeeded
        <3> QED BY <1>b, <3>1, <3>2, <3>3, <3>4
    <2>3. CASE Reopen(m, cut) /\ S = ReopenedBy(m)
        <3>1. PICK M \in SUBSET Dependents(m) :
                    \/ n \notin M /\ work'[n] = work[n]
                    \/ ~work[n].there /\ work'[n] = work[n]
                    \/ n \in M /\ work'[n].stage = 0
            BY <2>3, ReopenWork
        <3>2. InFlight(p)' => InFlight(p) /\ p \notin S
            BY <1>a, <2>1, StaledEffect DEF InFlight, Live, NoWriter
        <3>3. InFlight(p)' => n \notin Dependents(m)
            BY <1>a, <2>3, <3>2 DEF ReopenedBy, IsBuild, InFlight, Live
        <3>4. d \in S => n \in Dependents(m) BY <1>a, <2>3 DEF ReopenedBy, IsBuild
        <3>5. Succeeded(d) /\ d \notin S => Succeeded(d)' BY <1>a, <2>1, StaledEffect DEF Succeeded
        <3> QED BY <1>b, <3>1, <3>2, <3>3, <3>4, <3>5
    <2> QED BY <2>1, <2>2, <2>3
<1>4. ASSUME NEW k \in Tasks, FlowStep(k) \/ Edits(k) PROVE Goal
    <2>1. /\ work[n].base => work'[n].base
          /\ (work'[n].stage = work[n].stage /\ work'[n].base = work[n].base) \/ work'[n].base
        BY <1>4, StepWork
    <2>2. InFlight(p)' <=> InFlight(p) BY <1>4, <1>a, StepBindings
    <2>3. Succeeded(d) => Succeeded(d)' BY <1>4, <1>a, StepContents DEF Succeeded
    <2> QED BY <1>b, <2>1, <2>2, <2>3
<1>5. CASE UNCHANGED <<binding, work>> BY <1>5, <1>b DEF InFlight, Live, Succeeded
<1> QED BY <1>1, <1>2, <1>3, <1>4, <1>5, StepKinds DEF Crash

\* While a repair agent fixes a declared build, no proof of its repository is
\* worked on: what it asked at its start still holds.
RepairIsAlone ==
    \A n \in Nodes : flow[<<RepoOf[n], "declared">>].phase = "fix" => ~InFlight(<<n, "proved">>)

\* A declared repair and a proof of a node of its repository never meet.
LEMMA RepairKept == ASSUME TypeOK, WorkersAreValid, RepairIsAlone, [Next]_vars PROVE RepairIsAlone'
<1> SUFFICES ASSUME NEW n \in Nodes, flow'[<<RepoOf[n], "declared">>].phase = "fix", InFlight(<<n, "proved">>)'
             PROVE  FALSE
    BY DEF RepairIsAlone
<1> DEFINE p == <<n, "proved">>
           b == <<RepoOf[n], "declared">>
<1>a. /\ p \in Tasks /\ p \in Contents /\ p \notin Builds /\ p[1] = n /\ p[2] = "proved"
      /\ b \in Tasks /\ b \in Builds /\ b # p /\ RepoOf[n] \in Repos /\ Home(b) = RepoOf[n]
      /\ Home(p) = RepoOf[n] /\ b[2] = "declared"
    BY StageTasks DEF Home, IsBuild
<1>b. /\ flow[b].phase = "fix" => ~InFlight(p) /\ Valid(b)
    BY <1>a DEF RepairIsAlone, WorkersAreValid, Working
<1>1. ASSUME NEW k \in Tasks, Starts(k) \/ OperatorBuild(k) PROVE FALSE
    <2>1. PICK again \in BOOLEAN, m \in 1..6 :
              /\ Dispatch(k, again, m)
              /\ again => k \in Builds
              /\ ~again => Ready(k)
        BY <1>1, DispatchOf
    <2>2. flow[b].phase = "fix" BY <1>a, <2>1, DispatchFlows DEF Working
    <2>3. k = p BY <1>a, <1>b, <2>1, <2>2, DispatchBinds DEF InFlight, Live
    <2>4. Succeeded(b) BY <1>a, <2>1, <2>3 DEF Ready, AllBuilt
    <2> QED BY <1>b, <2>2, <2>4 DEF Valid, InFlight, Live, Succeeded
<1>2. ASSUME NEW k \in Tasks, NEW cut \in BOOLEAN, Reconcile(k, cut) PROVE FALSE
    <2>1. UNCHANGED flow BY <1>2, <1>a, ReconcileEffect DEF Working
    <2>2. InFlight(p) BY <1>2, <1>a, ReconcileEffect DEF InFlight, Live, Ended
    <2> QED BY <1>b, <2>1, <2>2
<1>3. ASSUME NEW m \in Nodes, NEW cut \in BOOLEAN, Retry(m, cut) \/ Reopen(m, cut) PROVE FALSE
    <2>1. PICK S \in SUBSET Tasks :
             \/ binding' = Staled(S) /\ UNCHANGED flow
             \/ Ends(flow)
        BY <1>3, OperatorEffect
    <2>2. ~Ends(flow) BY <1>a, EndsEffect
    <2>3. InFlight(p) BY <1>a, <2>1, <2>2, StaledEffect
    <2> QED BY <1>b, <2>1, <2>2, <2>3
<1>4. ASSUME NEW k \in Tasks, FlowStep(k) \/ Edits(k) PROVE FALSE
    <2>1. InFlight(p) BY <1>4, <1>a, StepBindings
    <2>2. flow[b].phase = "fix" \/ MayRepair(b) BY <1>4, <1>a, StepEffect
    <2>3. p \in Others(b) BY <1>a, <2>1, BelowClosed DEF Others, InFlight, Live
    <2> QED BY <1>a, <1>b, <2>1, <2>2, <2>3 DEF MayRepair
<1>5. CASE Crash BY <1>5, <1>a, EndsEffect DEF Crash
<1>6. CASE UNCHANGED <<binding, flow>> BY <1>6, <1>b DEF InFlight, Live
<1> QED BY <1>1, <1>2, <1>3, <1>4, <1>5, <1>6, StepKinds
-----------------------------------------------------------------------------
(* What a build that succeeded compiled. *)

\* Its result is accepted, and saved or about to be.
Accepted(k) == Succeeded(k) \/ (Live(k) /\ flow[k].phase = "ok")

\* The builds whose view stands compile it.
ViewsCompile == \A k \in frozen : flow[k].phase = "compile"

\* A view that is compiling matches its sources, and so does one that was accepted,
\* if no build that the operator began early is above it.
ViewsAreFresh ==
    /\ \A k \in frozen : Trusted(k) => k \in fresh
    /\ \A k \in Builds : Accepted(k) /\ Trusted(k) => k \in fresh

\* What a step of a flow does to the views.
LEMMA StepViews ==
    ASSUME TypeOK, ViewsCompile, NEW k \in Tasks, FlowStep(k) \/ Edits(k)
    PROVE  /\ k \in frozen' => flow'[k].phase = "compile"
           /\ \/ /\ frozen' \subseteq frozen /\ fresh' = fresh
                 /\ flow'[k].phase = "ok" => k \in Contents \/ k \in frozen
              \/ /\ frozen' \subseteq frozen \cup {k} /\ fresh' = fresh \cup {k}
                 /\ flow'[k].phase = "compile"
              \/ Touches(k) /\ flow' = flow /\ binding' = binding /\ InFlight(k)
<1>0. k \in frozen => flow[k].phase = "compile" BY DEF ViewsCompile
<1>1. CASE AgentStarts(k) BY <1>0, <1>1 DEF AgentStarts, At
<1>2. CASE AgentSubmits(k) BY <1>0, <1>2 DEF AgentSubmits, At
<1>3. CASE AgentGivesUp(k) BY <1>0, <1>3 DEF AgentGivesUp, At
<1>4. CASE BuildStarts(k) BY <1>0, <1>4 DEF BuildStarts, Fails, Goes, At, TypeOK
<1>5. CASE BuildEnds(k) BY <1>5 DEF BuildEnds, Fails, Goes, TypeOK
<1>6. CASE RepairStarts(k) BY <1>0, <1>6 DEF RepairStarts, Goes, At, TypeOK
<1>7. CASE RepairEnds(k) BY <1>0, <1>7 DEF RepairEnds, Goes, At, TypeOK
<1>8. CASE AgentEdits(k) BY <1>0, <1>8 DEF AgentEdits, Current, Touches
<1>9. CASE RepairEdits(k) BY <1>0, <1>9 DEF RepairEdits, Current, Touches
<1> QED BY <1>1, <1>2, <1>3, <1>4, <1>5, <1>6, <1>7, <1>8, <1>9 DEF FlowStep, Edits

\* The other steps add no view.
LEMMA OtherViews ==
    ASSUME TypeOK, [Next]_vars, \A k \in Tasks : ~(FlowStep(k) \/ Edits(k))
    PROVE  frozen' \subseteq frozen /\ fresh' = fresh
<1>1. ASSUME NEW k \in Tasks, Starts(k) \/ OperatorBuild(k) PROVE frozen' \subseteq frozen /\ fresh' = fresh
    <2>1. PICK again \in BOOLEAN, n \in 1..6 : Dispatch(k, again, n) BY <1>1, DispatchOf
    <2> QED BY <2>1, DispatchFlows DEF Dispatch
<1>2. ASSUME NEW k \in Tasks, NEW cut \in BOOLEAN, Reconcile(k, cut)
      PROVE  frozen' \subseteq frozen /\ fresh' = fresh
    <2>1. fresh' = fresh BY <1>2 DEF Reconcile
    <2> QED BY <1>2, <2>1, ReconcileEffect
<1>3. ASSUME NEW n \in Nodes, NEW cut \in BOOLEAN, Retry(n, cut) \/ Reopen(n, cut)
      PROVE  frozen' \subseteq frozen /\ fresh' = fresh
    BY <1>3, OperatorEffect, EndsEffect
<1>4. CASE Crash BY <1>4, EndsEffect DEF Crash
<1> QED BY <1>1, <1>2, <1>3, <1>4, StepKinds

\* A view goes with the step that compiles it.
LEMMA CompilesKept == ASSUME TypeOK, WorkersAreValid, ViewsCompile, [Next]_vars PROVE ViewsCompile'
<1> SUFFICES ASSUME NEW j \in frozen' PROVE flow'[j].phase = "compile" BY DEF ViewsCompile
<1>1. ASSUME NEW k \in Tasks, FlowStep(k) \/ Edits(k) PROVE flow'[j].phase = "compile"
    <2>1. CASE j = k BY <1>1, <2>1, StepViews
    <2>2. CASE j # k
        <3>1. j \in frozen BY <1>1, <2>2, StepViews DEF Touches
        <3>2. j \in Tasks BY <3>1, TaskShape DEF TypeOK
        <3> QED BY <1>1, <2>2, <3>1, <3>2, StepEffect DEF ViewsCompile
    <2> QED BY <2>1, <2>2
<1>2. CASE \A k \in Tasks : ~(FlowStep(k) \/ Edits(k))
    <2>1. j \in frozen /\ j \in Tasks /\ flow[j].phase = "compile"
        BY <1>2, OtherViews, TaskShape DEF TypeOK, ViewsCompile
    <2>2. Live(j) BY <2>1 DEF WorkersAreValid, Working, Valid, InFlight
    <2>3. ASSUME NEW k \in Tasks, Starts(k) \/ OperatorBuild(k) PROVE flow'[j].phase = "compile"
        <3>1. PICK again \in BOOLEAN, n \in 1..6 : Dispatch(k, again, n) BY <2>3, DispatchOf
        <3> DEFINE flows == [flow EXCEPT ![k] = FlowAfter(k, again, n)]
        <3>2. n \in {1, 6}
            <4>1. flows \in [Tasks -> [phase : Phases, repairs : 0..MaxRepairs]] BY FlowAfterType
            <4>2. n \notin {1, 6} => Ends(flows) BY <3>1 DEF Dispatch
            <4> HIDE DEF flows
            <4>3. Ends(flows) => frozen' = {} BY <4>1, EndsType
            <4> QED BY <4>2, <4>3
        <3>3. flow' = flows BY <3>1, <3>2 DEF Dispatch
        <3>4. j = k => FlowAfter(k, again, n) = flow[k]
            BY <2>1, <2>2 DEF FlowAfter, Rebinds, Failed, Live, NoFlow
        <3> QED BY <2>1, <3>3, <3>4 DEF TypeOK
    <2>4. ASSUME NEW k \in Tasks, NEW cut \in BOOLEAN, Reconcile(k, cut) PROVE flow'[j].phase = "compile"
        BY <2>1, <2>4, ReconcileEffect
    <2>5. ASSUME NEW n \in Nodes, NEW cut \in BOOLEAN, Retry(n, cut) \/ Reopen(n, cut)
          PROVE  flow'[j].phase = "compile"
        <3>1. flow' = flow \/ Ends(flow) BY <2>5, OperatorEffect
        <3> QED BY <2>1, <3>1, EndsEffect
    <2>6. CASE Crash BY <2>6, EndsEffect DEF Crash
    <2>7. CASE UNCHANGED flow BY <2>1, <2>7
    <2> QED BY <1>2, <2>3, <2>4, <2>5, <2>6, <2>7, StepKinds
<1> QED BY <1>1, <1>2

\* Nothing but a flow's own step makes a result accepted.
LEMMA AcceptedBefore ==
    ASSUME TypeOK, [Next]_vars, NEW j \in Tasks, Accepted(j)'
    PROVE  Accepted(j) \/ (Live(j) /\ flow[j].phase # "ok" /\ FlowStep(j))
<1>a. \A k \in Tasks : Edits(k) => flow' = flow BY DEF Edits, AgentEdits, RepairEdits
<1>1. ASSUME NEW k \in Tasks, Starts(k) \/ OperatorBuild(k) PROVE Accepted(j)
    <2>1. PICK again \in BOOLEAN, n \in 1..6 :
              Dispatch(k, again, n) /\ (again => k \in Builds)
        BY <1>1, DispatchOf
    <2>2. j # k \/ ~Rebinds(k, again) => (flow'[j].phase = "ok" <=> flow[j].phase = "ok")
        BY <2>1, DispatchFlows DEF EndPhases
    <2>3. CASE j # k
        <3>1. binding'[j] = binding[j] BY <2>1, <2>3, DispatchBinds
        <3> QED BY <2>2, <2>3, <3>1 DEF Accepted, Succeeded, Live
    <2>4. CASE j = k
        <3>1. ~Succeeded(k)' BY <2>1, DispatchBinds DEF Succeeded
        <3>2. Rebinds(k, again) => flow'[k].phase # "ok" BY <2>1, DispatchFlows DEF EndPhases
        <3>3. ~Rebinds(k, again) => Live(k) BY <2>1, DispatchBinds
        <3> QED BY <2>2, <2>4, <3>1, <3>2, <3>3 DEF Accepted
    <2> QED BY <2>3, <2>4
<1>2. ASSUME NEW k \in Tasks, NEW cut \in BOOLEAN, Reconcile(k, cut) PROVE Accepted(j)
    <2>1. flow'[j].phase = "ok" <=> flow[j].phase = "ok" BY <1>2, ReconcileEffect DEF EndPhases
    <2>2. CASE binding'[j] = binding[j] BY <2>1, <2>2 DEF Accepted, Succeeded, Live
    <2>3. CASE binding'[j] # binding[j]
        <3>1. j = k /\ InFlight(k) /\ Ended(k) /\ binding'[k].outcome = flow[k].phase
            BY <1>2, <2>3, ReconcileEffect
        <3> QED BY <2>1, <3>1 DEF Accepted, Succeeded, InFlight, Live
    <2> QED BY <2>2, <2>3
<1>3. ASSUME NEW n \in Nodes, NEW cut \in BOOLEAN, Retry(n, cut) \/ Reopen(n, cut) PROVE Accepted(j)
    <2>1. PICK S \in SUBSET Tasks :
             \/ binding' = Staled(S) /\ UNCHANGED flow
             \/ binding' = binding /\ Ends(flow)
        BY <1>3, OperatorEffect
    <2>2. flow'[j].phase = "ok" <=> flow[j].phase = "ok" BY <2>1, EndsEffect DEF EndPhases
    <2>3. (Live(j)' => Live(j)) /\ (Succeeded(j)' => Succeeded(j))
        BY <2>1, StaledEffect DEF Live, Succeeded
    <2> QED BY <2>2, <2>3 DEF Accepted
<1>4. ASSUME NEW k \in Tasks, FlowStep(k) \/ Edits(k)
      PROVE  Accepted(j) \/ (Live(j) /\ flow[j].phase # "ok" /\ FlowStep(j))
    <2>1. (Live(j)' <=> Live(j)) /\ (Succeeded(j)' => Succeeded(j)) BY <1>4, StepBindings
    <2>2. flow'[j].phase = flow[j].phase \/ (j = k /\ FlowStep(j)) BY <1>4, <1>a, StepEffect
    <2> QED BY <2>1, <2>2 DEF Accepted
<1>5. CASE Crash
    <2>1. Ends(flow) /\ binding' = binding BY <1>5 DEF Crash
    <2>2. flow'[j].phase = "ok" <=> flow[j].phase = "ok" BY <2>1, EndsEffect DEF EndPhases
    <2> QED BY <2>1, <2>2 DEF Accepted, Live, Succeeded
<1>6. CASE UNCHANGED <<binding, flow>> BY <1>6 DEF Accepted, Succeeded, Live
<1> QED BY <1>1, <1>2, <1>3, <1>4, <1>5, <1>6, StepKinds

\* What is trusted after a step was before, if a view of it stands or was accepted.
LEMMA ViewsTrusted ==
    ASSUME TypeOK, [Next]_vars, WorkersAreValid', ViewsCompile', AboveIsDone',
           NEW k \in Builds, k \in frozen' \/ Accepted(k)', Trusted(k)'
    PROVE  Trusted(k)
<1>1. k \in Tasks /\ ~binding'[k].stale
    BY TaskShape DEF ViewsCompile, WorkersAreValid, Working, Valid, InFlight, Live, Accepted, Succeeded
<1> SUFFICES ASSUME NEW k0 \in Tasks, k \in Seeing(k0), ~binding'[k0].stale, binding'[k0].outcome = "none",
                    flow'[k0].phase \notin Working \cup EndPhases
             PROVE  FALSE
    BY <1>1, TrustBefore
<1>2. CASE k = k0 BY <1>2 DEF ViewsCompile, Accepted, Succeeded, Working, EndPhases
<1>3. CASE k # k0
    <2>1. Succeeded(k0)' BY <1>1, <1>3 DEF AboveIsDone, Seeing
    <2> QED BY <2>1 DEF Succeeded
<1> QED BY <1>2, <1>3

\* An accepted view stays one that no edit changed, unless a build that the
\* operator began early is above it.
LEMMA ViewsKept ==
    ASSUME TypeOK, WorkersAreValid, AboveIsDone, ViewsCompile, ViewsAreFresh, [Next]_vars,
           WorkersAreValid', AboveIsDone', ViewsCompile'
    PROVE  ViewsAreFresh'
<1>a. \A k \in Builds : k \in Tasks /\ k \notin Contents BY TaskShape
<1>b. frozen' \subseteq Builds BY NextType DEF TypeOK
<1> SUFFICES ASSUME NEW j \in Builds, j \in frozen' \/ Accepted(j)', Trusted(j)' PROVE j \in fresh'
    BY <1>b DEF ViewsAreFresh
<1>c. Trusted(j) BY ViewsTrusted
<1>d. (j \in frozen \/ Accepted(j)) => j \in fresh BY <1>c DEF ViewsAreFresh
<1>1. CASE \A k \in Tasks : ~(FlowStep(k) \/ Edits(k))
    BY <1>a, <1>d, <1>1, OtherViews, AcceptedBefore
<1>2. ASSUME NEW k \in Tasks, FlowStep(k) \/ Edits(k) PROVE j \in fresh'
    <2>1. Accepted(j)' => Accepted(j) \/ (j = k /\ flow'[j].phase = "ok")
        <3>1. (Live(j)' <=> Live(j)) /\ (Succeeded(j)' => Succeeded(j)) BY <1>a, <1>2, StepBindings
        <3>2. j # k => flow'[j] = flow[j] BY <1>a, <1>2, StepEffect
        <3> QED BY <3>1, <3>2 DEF Accepted
    <2>2. CASE /\ frozen' \subseteq frozen /\ fresh' = fresh
               /\ flow'[k].phase = "ok" => k \in Contents \/ k \in frozen
        BY <1>a, <1>d, <2>1, <2>2
    <2>3. CASE /\ frozen' \subseteq frozen \cup {k} /\ fresh' = fresh \cup {k} /\ flow'[k].phase = "compile"
        BY <1>d, <2>1, <2>3
    <2>4. CASE Touches(k) /\ flow' = flow /\ binding' = binding /\ InFlight(k)
        <3>1. j \in frozen \/ Accepted(j) BY <2>4 DEF Touches, Accepted, Succeeded, Live
        <3>2. ~binding[j].stale
            BY <1>a, <3>1 DEF ViewsCompile, WorkersAreValid, Working, Valid, InFlight, Live, Accepted, Succeeded
        <3>3. ~Succeeded(k) BY <2>4 DEF InFlight, Live, Succeeded
        <3>4. j = k => j \notin frozen' /\ ~Accepted(j)'
            <4>1. j \notin frozen' \/ j # k BY <2>4 DEF Touches
            <4>2. flow[k].phase # "ok" BY <1>2, StepEffect DEF EndPhases
            <4> QED BY <2>4, <3>3, <4>1, <4>2 DEF Accepted, Succeeded
        <3>5. j # k BY <3>4
        <3>6. j \notin Seeing(k) BY <1>c, <3>2, <3>3, <3>5 DEF AboveIsDone
        <3> QED BY <1>d, <2>4, <3>1, <3>6 DEF Touches
    <2> QED BY <1>2, <2>2, <2>3, <2>4, StepViews
<1> QED BY <1>1, <1>2
-----------------------------------------------------------------------------
(* What the run shows of failures. *)

\* A task that failed is among the blocked issues, which end "running".
RunShowsFailures ==
    /\ run.status = "running" => run.blocked = {}
    /\ \A k \in Tasks : ~binding[k].stale /\ binding[k].outcome = "bad" => k \in run.blocked

\* A run that says running has no failure that is current.
LEMMA FailuresKept == ASSUME TypeOK, RunShowsFailures, [Next]_vars PROVE RunShowsFailures'
<1>a. \A issues : [status |-> StatusOf(issues), blocked |-> issues].status = "running" => issues = {}
    BY DEF StatusOf
<1>1. ASSUME NEW k \in Tasks, Starts(k) \/ OperatorBuild(k) PROVE RunShowsFailures'
    <2>1. PICK again \in BOOLEAN, n \in 1..6 :
              Dispatch(k, again, n) /\ (again => k \in Builds)
        BY <1>1, DispatchOf
    <2>2. (\A j \in Tasks \ {k} : binding'[j] = binding[j]) /\ binding'[k].outcome = "none"
        BY <2>1, DispatchBinds
    <2>3. run' = run \/ \E issues : /\ run' = [status |-> StatusOf(issues), blocked |-> issues]
                                    /\ run.blocked \ {k} \subseteq issues
        BY <2>1 DEF Dispatch
    <2> QED BY <1>a, <2>2, <2>3 DEF RunShowsFailures
<1>2. ASSUME NEW k \in Tasks, NEW cut \in BOOLEAN, Reconcile(k, cut) PROVE RunShowsFailures'
    <2>1. CASE cut BY <1>2, <2>1 DEF Reconcile, RunShowsFailures
    <2>2. CASE ~cut
        <3>1. (\A j \in Tasks \ {k} : binding'[j] = binding[j]) /\ binding'[k].outcome = flow[k].phase
            BY <1>2, <2>2 DEF Reconcile, TypeOK, Binding
        <3>2. \E issues : /\ run' = [status |-> StatusOf(issues), blocked |-> issues]
                          /\ run.blocked \subseteq issues /\ (flow[k].phase = "bad" => k \in issues)
            <4> DEFINE issues == run.blocked \cup (IF flow[k].phase = "bad" THEN {k} ELSE {})
            <4>1. run' = [status |-> StatusOf(issues), blocked |-> issues] BY <1>2, <2>2 DEF Reconcile
            <4>2. run.blocked \subseteq issues /\ (flow[k].phase = "bad" => k \in issues) OBVIOUS
            <4> QED BY <4>1, <4>2
        <3> QED BY <1>a, <3>1, <3>2 DEF RunShowsFailures
    <2> QED BY <2>1, <2>2
<1>3. ASSUME NEW n \in Nodes, NEW cut \in BOOLEAN, Retry(n, cut) \/ Reopen(n, cut) PROVE RunShowsFailures'
    <2>1. PICK S \in SUBSET Tasks :
             \/ /\ binding' = Staled(S)
                /\ run' = [status |-> StatusOf(run.blocked \ S), blocked |-> run.blocked \ S]
             \/ binding' = binding /\ run' = run
        BY <1>3, OperatorEffect
    <2> QED BY <1>a, <2>1, StaledEffect DEF RunShowsFailures
<1>4. ASSUME NEW k \in Tasks, FlowStep(k) \/ Edits(k) PROVE RunShowsFailures'
    <2>1. CASE binding' = binding /\ run' = run BY <2>1 DEF RunShowsFailures
    <2>2. CASE Prepares(k)
        <3> DEFINE S == Others(k) \cap Builds
        <3>1. binding' = Staled(S) /\ run'.status = run.status /\ run'.blocked = run.blocked \ S
            BY <2>2, PreparesEffect
        <3> HIDE DEF S
        <3> QED BY <3>1, StaledEffect DEF RunShowsFailures
    <2> QED BY <1>4, <2>1, <2>2, StepEffect
<1>5. CASE Crash BY <1>5 DEF Crash, RunShowsFailures
<1>6. CASE binding' = binding /\ (CompleteRun \/ run' = run) BY <1>6 DEF CompleteRun, RunShowsFailures, TypeOK
<1> QED BY <1>1, <1>2, <1>3, <1>4, <1>5, <1>6, StepKinds

\* An issue is that of a content that was created.
WorkIsThere == \A n \in Nodes : work[n].issue => work[n].there

\* A failure of a task that is saved, or that the next reconcile finds.
Shows(j) == ~binding[j].stale /\ (binding[j].outcome = "bad" \/ (InFlight(j) /\ flow[j].phase = "bad"))

\* What a content's work says of its tasks, until the process ends inside a retry:
\* an accepted stage is saved with its interface, a proof rests on a declaration
\* that is done, and an issue is that of a task that failed.
StagesStand == ~torn =>
    \A n \in Nodes :
        /\ \A s \in {"declared", "proved"} :
              Accepted(<<n, s>>) => work[n].stage >= Level(s) /\ work[n].base
        /\ ~binding[<<n, "proved">>].stale => Succeeded(<<n, "declared">>) /\ work[n].base
IssuesShow == ~torn =>
    \A n \in Nodes : work[n].issue => \E s \in {"declared", "proved"} : Shows(<<n, s>>)

\* A run is torn for good.
LEMMA TornStays == ASSUME TypeOK, [Next]_vars, ~torn' PROVE ~torn
<1>1. ASSUME NEW k \in Tasks, Starts(k) \/ OperatorBuild(k) PROVE ~torn
    <2>1. PICK again \in BOOLEAN, n \in 1..6 : Dispatch(k, again, n) BY <1>1, DispatchOf
    <2> QED BY <2>1 DEF Dispatch
<1>2. ASSUME NEW k \in Tasks, NEW cut \in BOOLEAN, Reconcile(k, cut) PROVE ~torn BY <1>2 DEF Reconcile
<1>3. ASSUME NEW n \in Nodes, NEW cut \in BOOLEAN, Retry(n, cut) \/ Reopen(n, cut) PROVE ~torn
    BY <1>3, OperatorEffect
<1>4. ASSUME NEW k \in Tasks, FlowStep(k) \/ Edits(k) PROVE ~torn BY <1>4, StepEffect
<1> QED BY <1>1, <1>2, <1>3, <1>4, StepKinds DEF Crash

\* A node with an issue has a ContentWork.
LEMMA ThereKept == ASSUME TypeOK, WorkIsThere, [Next]_vars PROVE WorkIsThere'
<1>1. ASSUME NEW k \in Tasks, Starts(k) \/ OperatorBuild(k) PROVE WorkIsThere'
    <2>1. PICK again \in BOOLEAN, n \in 1..6 : Dispatch(k, again, n) BY <1>1, DispatchOf
    <2> QED BY <2>1 DEF Dispatch, WorkIsThere
<1>2. ASSUME NEW k \in Tasks, NEW cut \in BOOLEAN, Reconcile(k, cut) PROVE WorkIsThere'
    BY <1>2, ReconcileWork DEF WorkIsThere
<1>3. ASSUME NEW n \in Nodes, NEW cut \in BOOLEAN, Retry(n, cut) PROVE WorkIsThere'
    BY <1>3, RetryWork DEF WorkIsThere
<1>4. ASSUME NEW n \in Nodes, NEW cut \in BOOLEAN, Reopen(n, cut) PROVE WorkIsThere'
    BY <1>4, ReopenWork DEF WorkIsThere
<1>5. ASSUME NEW k \in Tasks, FlowStep(k) \/ Edits(k) PROVE WorkIsThere'
    BY <1>5, StepWork DEF WorkIsThere
<1>6. CASE UNCHANGED work BY <1>6 DEF WorkIsThere
<1> QED BY <1>1, <1>2, <1>3, <1>4, <1>5, <1>6, StepKinds DEF Crash

\* Both follow from what a retry does to the tasks of other nodes: nothing.
LEMMA OtherNodes ==
    ASSUME TypeOK, NEW m \in Nodes, NEW n \in Nodes, NEW s \in {"declared", "proved"}
    PROVE  /\ <<n, s>> \in RetriedBy(m) => n = m
           /\ <<n, s>> \in ReopenedBy(m) <=> ~binding[<<n, s>>].stale /\ n \in Dependents(m)
           /\ ~binding[<<m, RetryStage(m)>>].stale => <<m, RetryStage(m)>> \in RetriedBy(m)
<1>1. <<n, s>> \in Tasks /\ <<n, s>> \notin Builds BY StageTasks
<1>2. RetryStage(m) \in {"declared", "proved"} BY DEF RetryStage
<1>3. <<m, RetryStage(m)>> \in Tasks BY <1>2, StageTasks
<1> QED BY <1>1, <1>3 DEF RetriedBy, ReopenedBy, IsBuild

\* An accepted stage stays in the work of its node.
LEMMA StagesKept ==
    ASSUME TypeOK, ProvedHasBase, StagesStand, [Next]_vars
    PROVE  StagesStand'
<1> SUFFICES ASSUME ~torn', NEW n \in Nodes
             PROVE  /\ \A s \in {"declared", "proved"} :
                          Accepted(<<n, s>>)' => work'[n].stage >= Level(s) /\ work'[n].base
                    /\ ~binding'[<<n, "proved">>].stale => Succeeded(<<n, "declared">>)' /\ work'[n].base
    BY DEF StagesStand
<1> DEFINE p == <<n, "proved">>
           d == <<n, "declared">>
           Accs == \A s \in {"declared", "proved"} :
                      Accepted(<<n, s>>)' => work'[n].stage >= Level(s) /\ work'[n].base
           Rests == ~binding'[p].stale => Succeeded(d)' /\ work'[n].base
<1>a. /\ p \in Tasks /\ p \in Contents /\ p \notin Builds /\ p # d /\ p[1] = n /\ p[2] = "proved"
      /\ d \in Tasks /\ d \in Contents /\ d \notin Builds /\ d[1] = n /\ d[2] = "declared"
    BY StageTasks
<1>b. /\ Accepted(d) => work[n].stage >= 1 /\ work[n].base
      /\ Accepted(p) => work[n].stage >= 2 /\ work[n].base
      /\ ~binding[p].stale => Succeeded(d) /\ work[n].base
    BY TornStays DEF StagesStand, Level
<1>c. (Accepted(d)' => work'[n].stage >= 1 /\ work'[n].base)
         /\ (Accepted(p)' => work'[n].stage >= 2 /\ work'[n].base) => Accs
    BY DEF Level
<1>d. \A j \in Tasks : Accepted(j)' => ~binding'[j].stale BY DEF Accepted, Succeeded, Live
<1> HIDE DEF Accs
<1>1. ASSUME NEW k \in Tasks, FlowStep(k) \/ Edits(k) PROVE Accs /\ Rests
    <2>1. binding'[p] = binding[p] /\ binding'[d] = binding[d] BY <1>1, <1>a, StepContents
    <2>2. /\ work[n].base => work'[n].base
          /\ \/ work'[n].stage = work[n].stage /\ work'[n].base = work[n].base
             \/ /\ AgentSubmits(k) /\ k[1] = n /\ k \in Contents /\ InFlight(k)
                /\ work'[n].stage = Level(k[2]) /\ work'[n].base
        BY <1>1, StepWork
    <2>3. Rests BY <1>b, <2>1, <2>2 DEF Succeeded
    <2>4. CASE AgentSubmits(k) /\ k[1] = n
        <3>1. k \in {p, d} /\ ~Succeeded(k) /\ work'[n].stage = Level(k[2]) /\ work'[n].base
            <4>1. k = <<k[1], k[2]>> /\ k[2] \in {"declared", "proved"} /\ InFlight(k)
                BY <2>4, TaskShape DEF AgentSubmits, Valid
            <4>2. work'[n].stage = Level(k[2]) /\ work'[n].base
                BY <2>4 DEF AgentSubmits, TypeOK, ContentWork
            <4> QED BY <2>4, <4>1, <4>2 DEF InFlight, Live, Succeeded
        <3>2. k = d => binding'[p].stale BY <1>b, <2>1, <3>1
        <3>3. Level(k[2]) >= 1 /\ (k = p => Level(k[2]) = 2) BY <1>a DEF Level
        <3> QED BY <1>a, <1>c, <1>d, <2>3, <3>1, <3>2, <3>3
    <2>5. CASE ~(AgentSubmits(k) /\ k[1] = n)
        <3>1. work'[n].stage = work[n].stage /\ work'[n].base = work[n].base BY <2>2, <2>5
        <3>2. ASSUME NEW j \in {p, d}, Accepted(j)' PROVE Accepted(j)
            <4>1. CASE j # k BY <1>1, <1>a, <2>1, <3>2, <4>1, StepEffect DEF Accepted, Succeeded, Live
            <4>2. CASE j = k
                <5>1. ~AgentSubmits(k) /\ k \in Contents /\ k \notin Builds BY <1>a, <2>5, <3>2, <4>2
                <5>2. flow'[k].phase = "ok" => flow[k].phase = "ok"
                    BY <1>1, <5>1 DEF FlowStep, Edits, AgentStarts, AgentGivesUp, BuildStarts, BuildEnds, IsBuild,
                          RepairStarts, RepairEnds, AgentEdits, RepairEdits, Goes, TypeOK
                <5> QED BY <1>a, <2>1, <3>2, <4>2, <5>2 DEF Accepted, Succeeded, Live
            <4> QED BY <4>1, <4>2
        <3> QED BY <1>b, <1>c, <2>3, <3>1, <3>2
    <2> QED BY <2>4, <2>5
<1>2. ASSUME \A k \in Tasks : ~(FlowStep(k) \/ Edits(k)) PROVE Accs /\ Rests
    <2>1. (Accepted(p)' => Accepted(p)) /\ (Accepted(d)' => Accepted(d)) BY <1>2, <1>a, AcceptedBefore
    <2>2. ASSUME work'[n].stage = work[n].stage, work'[n].base = work[n].base PROVE Accs
        BY <1>b, <1>c, <2>1, <2>2
    <2>3. ASSUME NEW k \in Tasks, Starts(k) \/ OperatorBuild(k) PROVE Accs /\ Rests
        <3>1. PICK again \in BOOLEAN, m \in 1..6 :
                  /\ Dispatch(k, again, m)
                  /\ again => k \in Builds
                  /\ ~again => Ready(k)
            BY <2>3, DispatchOf
        <3>2. (\A i \in Tasks \ {k} : binding'[i] = binding[i]) /\ ~Succeeded(k) /\ work' = work
            BY <3>1, DispatchBinds DEF Dispatch
        <3>3. ~binding'[p].stale => Succeeded(d) /\ work[n].base
            <4>1. CASE k # p BY <1>a, <1>b, <3>2, <4>1
            <4>2. CASE k = p
                <5>1. Passed(n, "declared") BY <1>a, <3>1, <4>2 DEF Ready
                <5> QED BY <5>1 DEF Passed, Level, ProvedHasBase
            <4> QED BY <4>1, <4>2
        <3>4. Rests BY <1>a, <3>2, <3>3 DEF Succeeded
        <3> QED BY <2>2, <3>2, <3>4
    <2>4. ASSUME NEW k \in Tasks, NEW cut \in BOOLEAN, Reconcile(k, cut) PROVE Accs /\ Rests
        <3>1. work'[n].stage = work[n].stage /\ work'[n].base = work[n].base BY <2>4, ReconcileWork
        <3>2. InFlight(k) /\ \A i \in Tasks \ {k} : binding'[i] = binding[i] BY <2>4, ReconcileEffect
        <3>3. ~binding'[p].stale => ~binding[p].stale BY <1>a, <3>2 DEF InFlight, Live
        <3>4. Succeeded(d) => Succeeded(d)' BY <1>a, <3>2 DEF InFlight, Live, Succeeded
        <3> QED BY <1>b, <2>2, <3>1, <3>3, <3>4
    <2>5. ASSUME NEW m \in Nodes, NEW cut \in BOOLEAN, Retry(m, cut) \/ Reopen(m, cut) PROVE Accs /\ Rests
        <3>1. PICK S \in SUBSET Tasks :
                 /\ (Retry(m, cut) /\ S = RetriedBy(m)) \/ (Reopen(m, cut) /\ S = ReopenedBy(m))
                 /\ ~cut /\ binding' = Staled(S)
            BY <2>5, OperatorEffect
        <3>2. /\ binding'[p].stale <=> (binding[p].stale \/ p \in S)
              /\ Succeeded(d)' <=> Succeeded(d) /\ d \notin S
            BY <1>a, <3>1, StaledEffect
        <3>3. CASE work'[n] = work[n] /\ p \notin S /\ d \notin S BY <1>b, <2>2, <3>2, <3>3
        <3>4. CASE Retry(m, cut) /\ S = RetriedBy(m)
            <4>1. CASE n # m BY <3>3, <3>4, <4>1, RetryWork, OtherNodes
            <4>2. CASE n = m /\ work[n].base
                <5>1. RetryStage(n) = "proved" BY <4>2 DEF RetryStage
                <5>2. binding'[p].stale BY <3>2, <3>4, <4>2, <5>1, OtherNodes
                <5>3. work'[n].base = work[n].base /\ work'[n].stage = 1 BY <3>4, <4>2, RetryWork
                <5> QED BY <1>a, <1>c, <1>d, <4>2, <5>2, <5>3
            <4>3. CASE n = m /\ ~work[n].base
                BY <1>a, <1>b, <1>c, <2>1, <3>2, <4>3
            <4> QED BY <4>1, <4>2, <4>3
        <3>5. CASE Reopen(m, cut) /\ S = ReopenedBy(m)
            <4>1. /\ p \in S <=> ~binding[p].stale /\ n \in Dependents(m)
                  /\ d \in S <=> ~binding[d].stale /\ n \in Dependents(m)
                BY <3>5, OtherNodes
            <4>2. n \notin Dependents(m) => work'[n] = work[n] BY <3>5, ReopenWork
            <4>3. binding'[d].stale <=> (binding[d].stale \/ d \in S) BY <1>a, <3>1, StaledEffect
            <4>4. CASE n \notin Dependents(m) BY <3>3, <4>1, <4>2, <4>4
            <4>5. CASE n \in Dependents(m)
                <5>1. binding'[p].stale /\ binding'[d].stale BY <3>2, <4>1, <4>3, <4>5
                <5> QED BY <1>a, <1>c, <1>d, <5>1
            <4> QED BY <4>4, <4>5
        <3> QED BY <3>1, <3>4, <3>5
    <2>6. CASE UNCHANGED <<binding, work>> BY <1>b, <2>2, <2>6 DEF Succeeded
    <2> QED BY <1>2, <2>3, <2>4, <2>5, <2>6, StepKinds DEF Crash
<1>3. Accs /\ Rests BY <1>1, <1>2
<1> QED BY <1>3 DEF Accs

\* A failure keeps showing until a retry takes its task.
LEMMA ShowsStays ==
    ASSUME TypeOK, [Next]_vars, NEW j \in Contents, Shows(j),
           \A n \in Nodes, cut \in BOOLEAN :
              /\ Retry(n, cut) => cut \/ j \notin RetriedBy(n)
              /\ Reopen(n, cut) => cut \/ j \notin ReopenedBy(n)
    PROVE  Shows(j)'
<1>a. j \in Tasks /\ j \notin Builds BY TaskShape
<1>b. /\ ~binding[j].stale
      /\ binding[j].outcome = "bad" \/ (InFlight(j) /\ flow[j].phase = "bad")
    BY DEF Shows
<1>c. ASSUME binding'[j] = binding[j], flow'[j].phase = "bad" <=> flow[j].phase = "bad" PROVE Shows(j)'
    BY <1>b, <1>c DEF Shows, InFlight, Live
<1>1. ASSUME NEW k \in Tasks, Starts(k) \/ OperatorBuild(k) PROVE Shows(j)'
    <2>1. PICK again \in BOOLEAN, n \in 1..6 :
              /\ Dispatch(k, again, n)
              /\ again => k \in Builds
        BY <1>1, DispatchOf
    <2>2. j # k
        <3>1. j = k => ~again BY <1>a, <2>1
        <3>2. Dispatch(k, FALSE, n) => binding[k].stale \/ (Live(k) /\ ~Ended(k))
            BY DEF Dispatch, Rebinds
        <3> QED BY <1>b, <2>1, <3>1, <3>2 DEF Live, Ended
    <2>3. binding'[j] = binding[j] BY <1>a, <2>1, <2>2, DispatchBinds
    <2>4. flow'[j].phase = "bad" <=> flow[j].phase = "bad" BY <1>a, <2>1, <2>2, DispatchFlows DEF EndPhases
    <2> QED BY <1>c, <2>3, <2>4
<1>2. ASSUME NEW k \in Tasks, NEW cut \in BOOLEAN, Reconcile(k, cut) PROVE Shows(j)'
    <2>1. flow'[j].phase = "bad" <=> flow[j].phase = "bad" BY <1>2, <1>a, ReconcileEffect DEF EndPhases
    <2>2. CASE binding'[j] # binding[j]
        <3>1. j = k /\ InFlight(k) /\ ~binding'[k].stale /\ binding'[k].outcome = flow[k].phase
            BY <1>2, <1>a, <2>2, ReconcileEffect
        <3> QED BY <1>b, <3>1 DEF Shows, InFlight, Live
    <2> QED BY <1>c, <2>1, <2>2
<1>3. ASSUME NEW n \in Nodes, NEW cut \in BOOLEAN, Retry(n, cut) \/ Reopen(n, cut) PROVE Shows(j)'
    <2>1. PICK S \in SUBSET Tasks :
             \/ j \notin S /\ binding' = Staled(S) /\ UNCHANGED flow
             \/ binding' = binding /\ Ends(flow)
        BY <1>3, OperatorEffect
    <2>2. flow'[j].phase = "bad" <=> flow[j].phase = "bad" BY <1>a, <2>1, EndsEffect DEF EndPhases
    <2>3. binding'[j] = binding[j] BY <1>a, <2>1 DEF Staled
    <2> QED BY <1>c, <2>2, <2>3
<1>4. ASSUME NEW k \in Tasks, FlowStep(k) \/ Edits(k) PROVE Shows(j)'
    <2>1. binding'[j] = binding[j] BY <1>4, StepContents
    <2>2. CASE j = k
        <3>1. binding[j].outcome = "bad" BY <1>4, <1>b, <2>2, StepEffect DEF EndPhases
        <3> QED BY <1>b, <2>1, <3>1 DEF Shows
    <2>3. CASE j # k BY <1>4, <1>a, <1>c, <2>1, <2>3, StepEffect
    <2> QED BY <2>2, <2>3
<1>5. CASE Crash
    <2>1. Ends(flow) /\ binding' = binding BY <1>5 DEF Crash
    <2>2. flow'[j].phase = "bad" <=> flow[j].phase = "bad" BY <1>a, <2>1, EndsEffect DEF EndPhases
    <2> QED BY <1>c, <2>1, <2>2
<1>6. CASE UNCHANGED <<binding, flow>> BY <1>6, <1>c
<1> QED BY <1>1, <1>2, <1>3, <1>4, <1>5, <1>6, StepKinds

\* An issue of a node keeps its failure in the run.
LEMMA IssuesKept == ASSUME TypeOK, WorkIsThere, IssuesShow, [Next]_vars PROVE IssuesShow'
<1> SUFFICES ASSUME ~torn', NEW n \in Nodes, work'[n].issue
             PROVE  \E s \in {"declared", "proved"} : Shows(<<n, s>>)'
    BY DEF IssuesShow
<1>a. \A s \in {"declared", "proved"} : <<n, s>> \in Contents BY StageTasks
<1>1. ASSUME NEW k \in Tasks, NEW cut \in BOOLEAN, Reconcile(k, cut), ~work[n].issue
      PROVE  \E s \in {"declared", "proved"} : Shows(<<n, s>>)'
    <2>1. flow[k].phase = "bad" /\ k \in Contents /\ k[1] = n BY <1>1, ReconcileWork
    <2>2. k[2] \in {"declared", "proved"} /\ k = <<n, k[2]>> BY <2>1, TaskShape
    <2>3. /\ InFlight(k) /\ flow'[k].phase = "bad"
          /\ \/ binding' = binding
             \/ ~binding'[k].stale /\ binding'[k].outcome = "bad"
        BY <1>1, <2>1, ReconcileEffect DEF EndPhases
    <2>4. Shows(k)' BY <2>3 DEF Shows, InFlight, Live
    <2> QED BY <2>2, <2>4
<1>2. ASSUME work[n].issue,
             \A s \in {"declared", "proved"}, m \in Nodes, cut \in BOOLEAN :
                /\ Retry(m, cut) => cut \/ <<n, s>> \notin RetriedBy(m)
                /\ Reopen(m, cut) => cut \/ <<n, s>> \notin ReopenedBy(m)
      PROVE  \E s \in {"declared", "proved"} : Shows(<<n, s>>)'
    <2>1. PICK s \in {"declared", "proved"} : Shows(<<n, s>>) BY <1>2, TornStays DEF IssuesShow
    <2> DEFINE j == <<n, s>>
    <2>2. j \in Contents BY <1>a
    <2>3. Shows(j)' BY <1>2, <2>1, <2>2, ShowsStays
    <2> QED BY <2>3
<1>3. ASSUME NEW m \in Nodes, NEW cut \in BOOLEAN, Retry(m, cut), ~cut,
             NEW s \in {"declared", "proved"}
      PROVE  work[n].issue /\ <<n, s>> \notin RetriedBy(m)
    BY <1>3, RetryWork, OtherNodes
<1>4. ASSUME NEW m \in Nodes, NEW cut \in BOOLEAN, Reopen(m, cut), ~cut,
             NEW s \in {"declared", "proved"}
      PROVE  work[n].issue /\ <<n, s>> \notin ReopenedBy(m)
    BY <1>4, ReopenWork, OtherNodes DEF WorkIsThere
<1>5. CASE work[n].issue BY <1>2, <1>3, <1>4, <1>5
<1>6. CASE ~work[n].issue
    <2>1. ASSUME NEW k \in Tasks, Starts(k) \/ OperatorBuild(k) PROVE FALSE
        <3>1. PICK again \in BOOLEAN, m \in 1..6 : Dispatch(k, again, m) BY <2>1, DispatchOf
        <3> QED BY <1>6, <3>1 DEF Dispatch
    <2>2. ASSUME NEW m \in Nodes, NEW cut \in BOOLEAN, Retry(m, cut) \/ Reopen(m, cut) PROVE FALSE
        BY <1>6, <2>2, RetryWork, ReopenWork
    <2>3. ASSUME NEW k \in Tasks, FlowStep(k) \/ Edits(k) PROVE FALSE BY <1>6, <2>3, StepWork
    <2>4. CASE UNCHANGED work BY <1>6, <2>4
    <2> QED BY <1>1, <1>6, <2>1, <2>2, <2>3, <2>4, StepKinds DEF Crash
<1> QED BY <1>5, <1>6
-----------------------------------------------------------------------------
(* The theorems. *)

\* The inductive invariant.
Consistent ==
    /\ TypeOK /\ ReservationsFit /\ WorkersAreValid /\ FlowsAreBound
    /\ NeedsAreDone /\ PinsAreCurrent /\ ProvedHasBase /\ RepairIsAlone
    /\ ViewsCompile /\ ViewsAreFresh
    /\ RunShowsFailures /\ WorkIsThere /\ StagesStand /\ IssuesShow

\* Nothing is bound, reserved or worked on at first.
LEMMA InitConsistent == Init => Consistent
<1> SUFFICES ASSUME Init PROVE Consistent OBVIOUS
<1>a. /\ \A k \in Tasks : /\ binding[k].stale /\ binding[k].outcome = "none" /\ ~binding[k].bound
                          /\ flow[k].phase = "none"
      /\ \A n \in Nodes : work[n].stage = 0 /\ ~work[n].issue
      /\ reserved = {} /\ frozen = {} /\ run = [status |-> "prepared", blocked |-> {}]
    BY DEF Init, Unbound, NoFlow, NoWork
<1>b. \A k \in Tasks : ~Live(k) /\ ~InFlight(k) /\ ~Succeeded(k) /\ ~Accepted(k) /\ ~Ended(k)
    BY <1>a DEF Live, InFlight, Succeeded, Accepted, Ended
<1>1. ReservationsFit
    <2>1. \A k \in Tasks : {x \in reserved : SameKind(x, k)} = {} BY <1>a
    <2>2. \A k \in Tasks : Limit(k) \in Nat BY BoundAssumption DEF Limit
    <2>3. ASSUME NEW k \in Tasks PROVE Cardinality({x \in reserved : SameKind(x, k)}) <= Limit(k)
        BY <2>1, <2>2, FS_EmptySet
    <2> QED BY <1>a, <2>3, FS_EmptySet DEF ReservationsFit
<1>2. NeedsAreDone /\ PinsAreCurrent BY <1>a, TaskShape DEF NeedsAreDone, PinsAreCurrent
<1>3. ProvedHasBase /\ RepairIsAlone
    <2>1. \A n \in Nodes : ~InFlight(<<n, "proved">>) BY <1>b, StageTasks
    <2>2. \A n \in Nodes : ~(work[n].stage >= 1) BY <1>a
    <2> QED BY <2>1, <2>2 DEF ProvedHasBase, RepairIsAlone
<1>4. WorkersAreValid /\ FlowsAreBound BY <1>a, <1>b DEF WorkersAreValid, FlowsAreBound, Working
<1>5. ViewsCompile /\ ViewsAreFresh BY <1>a, <1>b, TaskShape DEF ViewsCompile, ViewsAreFresh
<1>6. RunShowsFailures /\ WorkIsThere /\ IssuesShow BY <1>a DEF RunShowsFailures, WorkIsThere, IssuesShow
<1>7. StagesStand BY <1>a, <1>b, StageTasks DEF StagesStand
<1> QED BY <1>1, <1>2, <1>3, <1>4, <1>5, <1>6, <1>7, InitType DEF Consistent

\* It holds of every state: each part is kept by every step, given the others.
LEMMA ConsistentInductive == Spec => []Consistent
<1>1. TypeOK /\ NeedsAreDone => AboveIsDone BY AboveFollows
<1>2. TypeOK' /\ NeedsAreDone' => AboveIsDone' BY <1>1, PTL
<1>3. Consistent /\ [Next]_vars => Consistent'
    <2> SUFFICES ASSUME Consistent, [Next]_vars PROVE Consistent' OBVIOUS
    <2>1. TypeOK' /\ WorkersAreValid' /\ NeedsAreDone' /\ ViewsCompile'
        BY NextType, WorkersKept, NeedsKept, CompilesKept DEF Consistent
    <2>2. ViewsAreFresh' BY <1>1, <1>2, <2>1, ViewsKept DEF Consistent
    <2> QED BY <2>1, <2>2, ReservationsKept, FlowsKeptBound, PinsKept, ProvedKept, RepairKept,
               FailuresKept, ThereKept, StagesKept, IssuesKept DEF Consistent
<1> QED BY <1>3, InitConsistent, PTL DEF Spec

\* A build counts as succeeded only while what it compiled, and what it was
\* pinned to, is current: retries, reopening and repairs reach everything below,
\* where no build rests on one that the operator began before it was ready.
THEOREM SucceededBuildsAreCurrent == Spec => []BuildsAreCurrent
<1>1. Consistent => BuildsAreCurrent
    BY DEF Consistent, BuildsAreCurrent, ViewsAreFresh, PinsAreCurrent, Accepted, Succeeded
<1> QED BY <1>1, ConsistentInductive, PTL

\* Agents and builds at work have reservations of their own, which fit the budget.
THEOREM BudgetIsKept == Spec => []WorkWithinBudget
<1>1. Consistent => WorkWithinBudget
    <2> SUFFICES ASSUME Consistent, NEW kind \in {Builds, Contents}
                 PROVE  Cardinality({k \in kind : AtWork(k)}) <= IF kind = Builds THEN MaxBuilds ELSE MaxAgents
        BY DEF WorkWithinBudget
    <2> DEFINE W == {k \in kind : AtWork(k)}
               bound == IF kind = Builds THEN MaxBuilds ELSE MaxAgents
    <2>1. bound \in Nat BY BoundAssumption
    <2>2. CASE W = {} BY <2>1, <2>2, FS_EmptySet
    <2>3. CASE W # {}
        <3>1. PICK k0 \in W : TRUE BY <2>3
        <3> DEFINE T == {x \in reserved : SameKind(x, k0)}
                   f == [k \in W |-> Request(k)]
        <3>2. kind \subseteq Tasks /\ k0 \in Tasks /\ bound = Limit(k0) /\ \A k \in kind : IsBuild(k) <=> IsBuild(k0)
            BY TaskShape DEF Limit, IsBuild
        <3>3. ASSUME NEW k \in W PROVE Request(k) \in T /\ Request(k)[1] = k
            <4>1. Valid(k) BY <3>2 DEF Consistent, WorkersAreValid, Working, AtWork
            <4> QED BY <3>2, <4>1 DEF Valid, Request, SameKind
        <3>4. IsFiniteSet(T) /\ Cardinality(T) <= Limit(k0) /\ Cardinality(T) \in Nat
            BY <3>2, FS_Subset, FS_CardinalityType DEF Consistent, ReservationsFit
        <3>5. f \in Injection(W, T)
            <4>1. f \in [W -> T] BY <3>3
            <4>2. \A x, y \in W : f[x] = f[y] => x = y BY <3>3
            <4> QED BY <4>1, <4>2 DEF Injection, IsInjective
        <3> HIDE DEF W, T, f, bound
        <3>6. IsFiniteSet(W) /\ Cardinality(W) <= Cardinality(T) BY <3>4, <3>5, FS_Injection
        <3>7. Cardinality(W) \in Nat BY <3>6, FS_CardinalityType
        <3>8. Cardinality(W) <= bound BY <2>1, <3>2, <3>4, <3>6, <3>7
        <3> QED BY <3>8 DEF W, bound
    <2> QED BY <2>2, <2>3
<1> QED BY <1>1, ConsistentInductive, PTL

\* A node has one writer: the stages of a node exclude each other, a build that
\* is repaired comes after what it sees, and asks for no proof at work.
THEOREM NodesHaveOneWriter == Spec => []OneWriterPerNode
<1>1. Consistent => OneWriterPerNode
    <2> SUFFICES ASSUME Consistent, NEW n \in Nodes, \A j \in Early : RepoOf[n] # j[1]
                 PROVE  Cardinality({k \in Tasks : Writes(k, n)}) <= 1
        BY DEF OneWriterPerNode
    <2> DEFINE W == {k \in Tasks : Writes(k, n)}
               d == <<n, "declared">>
               p == <<n, "proved">>
               bd == <<RepoOf[n], "declared">>
               bf == <<RepoOf[n], "final">>
    <2>1. /\ RepoOf[n] \in Repos /\ {d, p, bd, bf} \subseteq Tasks /\ {bd, bf} \subseteq Builds
          /\ Home(d) = RepoOf[n] /\ Home(p) = RepoOf[n] /\ Home(bd) = RepoOf[n]
          /\ d # p /\ d \notin {bd, bf} /\ p \notin {bd, bf} /\ bd # bf
        BY TaskShape, StageTasks DEF Home, IsBuild
    <2>2. ASSUME NEW k \in W
          PROVE  k \in {d, p, bd, bf} /\ InFlight(k) /\ (k = bd => flow[bd].phase = "fix")
        <3>1. k \in {d, p, bd, bf} BY <2>1, TaskShape, PlanAssumption DEF Writes
        <3>2. InFlight(k) BY DEF Writes, At, Consistent, WorkersAreValid, Working, Valid
        <3>3. k = bd => flow[bd].phase = "fix" BY <2>1, PlanAssumption DEF Writes, At
        <3> QED BY <3>1, <3>2, <3>3
    <2>3. \A j \in Tasks : InFlight(j) => ~Succeeded(j) /\ ~binding[j].stale BY DEF InFlight, Live, Succeeded
    <2>4. bd \notin early \/ binding[bd].stale
        BY <2>1 DEF Early
    <2>5. bf \notin early \/ binding[bf].stale
        BY <2>1 DEF Early
    <2>6. /\ ~(InFlight(d) /\ InFlight(p))
          /\ ~(InFlight(d) /\ InFlight(bd)) /\ ~(InFlight(d) /\ InFlight(bf))
          /\ ~(InFlight(p) /\ InFlight(bf)) /\ ~(InFlight(bd) /\ InFlight(bf))
        <3>1. d \in Needs(bd) /\ p \in Needs(bf) /\ bd \in Needs(bf) BY DEF Needs, NodesOf
        <3>2. InFlight(bd) => Succeeded(d) BY <2>1, <2>3, <2>4, <3>1 DEF Consistent, NeedsAreDone
        <3>3. InFlight(bf) => Succeeded(p) /\ Succeeded(bd)
            BY <2>1, <2>3, <2>5, <3>1 DEF Consistent, NeedsAreDone
        <3>4. Succeeded(bd) => Succeeded(d)
            BY <2>1, <2>4, <3>1 DEF Consistent, NeedsAreDone, Succeeded
        <3>5. InFlight(p) => Succeeded(d) BY DEF Consistent, ProvedHasBase
        <3> QED BY <2>1, <2>3, <3>2, <3>3, <3>4, <3>5
    <2>7. ~(InFlight(p) /\ flow[bd].phase = "fix") BY DEF Consistent, RepairIsAlone
    <2>8. \A x, y \in W : x = y BY <2>2, <2>6, <2>7
    <2> HIDE DEF W
    <2>9. CASE W = {} BY <2>9, FS_EmptySet DEF W
    <2>10. CASE W # {}
        <3>1. PICK x \in W : TRUE BY <2>10
        <3>2. W = {x} BY <2>8, <3>1
        <3>3. Cardinality(W) = 1 BY <3>2, FS_Singleton
        <3> QED BY <3>3 DEF W
    <2> QED BY <2>9, <2>10
<1> QED BY <1>1, ConsistentInductive, PTL

\* A running run in which nothing can move.
Stuck == /\ Consistent /\ run.status = "running" /\ ~torn /\ ~Lost
         /\ \A k \in Tasks : ~Moves(k)

\* Its tasks succeeded or wait for their first or next dispatch.
LEMMA StuckTasks ==
    ASSUME Stuck
    PROVE  /\ \A n \in Nodes : ~work[n].issue
           /\ \A k \in Tasks : Succeeded(k) \/ Pending(k)
<1>1. run.blocked = {} BY DEF Stuck, Consistent, RunShowsFailures
<1>2. ASSUME NEW k \in Tasks
      PROVE  ~(~binding[k].stale /\ binding[k].outcome = "bad") /\ ~(InFlight(k) /\ Ended(k)) /\ ~Works(k)
    BY <1>1 DEF Stuck, Consistent, RunShowsFailures, Moves
<1>3. ASSUME NEW n \in Nodes PROVE ~work[n].issue
    <2>1. \A s \in {"declared", "proved"} : ~Shows(<<n, s>>) BY <1>2, StageTasks DEF Shows, Ended
    <2> QED BY <2>1 DEF Stuck, Consistent, IssuesShow
<1>4. ASSUME NEW k \in Tasks, ~Succeeded(k) PROVE Pending(k)
    <2>1. CASE binding[k].stale BY <2>1 DEF Pending, Rebinds
    <2>2. CASE ~binding[k].stale
        <3>1. Live(k)
            <4>1. binding[k].outcome \in {"none", "ok", "bad"} BY DEF Stuck, Consistent, TypeOK, Binding
            <4> QED BY <1>2, <1>4, <2>2, <4>1 DEF Live, Succeeded
        <3>2. ~Ended(k) BY <1>2, <3>1 DEF Stuck, Consistent, FlowsAreBound, InFlight
        <3>3. k \notin queue BY <1>2, <3>2 DEF Works
        <3> QED BY <3>1, <3>2, <3>3 DEF Pending
    <2> QED BY <2>1, <2>2
<1> QED BY <1>3, <1>4

\* A slot of the budget that is taken belongs to a task that moves, so none that
\* may be dispatched waits.
LEMMA StuckReady == ASSUME Stuck, NEW k \in Tasks, Ready(k) PROVE Succeeded(k)
<1> SUFFICES ASSUME ~Succeeded(k) PROVE FALSE OBVIOUS
<1>1. Pending(k) BY StuckTasks
<1>2. ~Admitted(<<k, Intent(k, FALSE).epoch>>, k) BY <1>1 DEF Stuck, Moves
<1> DEFINE Kind == {x \in reserved : SameKind(x, k)}
<1>3. Limit(k) \in Nat \ {0} BY BoundAssumption DEF Limit
<1>4. ~(Cardinality(Kind) < Limit(k)) BY <1>2 DEF Admitted
<1>5. Kind # {}
    <2>1. Cardinality({}) = 0 BY FS_EmptySet
    <2> HIDE DEF Kind
    <2> QED BY <1>3, <1>4, <2>1
<1>6. PICK q \in reserved : TRUE BY <1>5
<1> DEFINE j == q[1]
<1>7. j \in Tasks BY DEF Stuck, Consistent, TypeOK
<1>8. Request(j) = q /\ Live(j) /\ (j \in queue \/ Ended(j) \/ Ready(j)) BY DEF Stuck, Lost
<1>9. j \notin queue /\ ~Ended(j)
    <2>1. ~(InFlight(j) /\ Ended(j)) /\ ~Works(j) BY <1>7 DEF Stuck, Moves
    <2>2. j \in queue \/ Ended(j) => InFlight(j)
        BY <1>7, <1>8 DEF Stuck, Consistent, FlowsAreBound, InFlight
    <2> QED BY <2>1, <2>2 DEF Works
<1>10. Pending(j) /\ Ready(j) BY <1>8, <1>9 DEF Pending
<1>11. Intent(j, FALSE) = binding[j] BY <1>8 DEF Intent, Rebinds, Live
<1>12. Admitted(<<j, Intent(j, FALSE).epoch>>, j) BY <1>8, <1>11 DEF Admitted, Request
<1> QED BY <1>7, <1>10, <1>12 DEF Stuck, Moves

\* Then its contents and builds are done, those first that everything rests on.
LEMMA StuckDeclared == ASSUME Stuck PROVE \A n \in Nodes : Passed(n, "declared")
<1> SUFFICES ASSUME \E n \in Nodes : ~Passed(n, "declared") PROVE FALSE OBVIOUS
<1> DEFINE S == {n \in Nodes : ~Passed(n, "declared")}
           R == {RepoOf[n] : n \in S}
<1>1. R \subseteq Repos /\ R # {} BY PlanAssumption
<1>2. PICK r \in R : Providers[r] \cap R = {} BY <1>1, AcyclicAssumption
<1> DEFINE T == {n \in S : RepoOf[n] = r}
<1>3. T \subseteq Nodes /\ T # {} OBVIOUS
<1>4. PICK n \in T : DependsOn[n] \cap T = {} BY <1>3, AcyclicAssumption
<1>5. n \in Nodes /\ RepoOf[n] = r /\ ~Passed(n, "declared") BY <1>4
<1>6. \A m \in DependsOn[n] : Passed(m, "declared")
    <2>1. \A m \in DependsOn[n] : m \in Nodes /\ RepoOf[m] = r BY <1>5, PlanAssumption
    <2> QED BY <1>4, <2>1
<1>7. \A q \in Providers[r] : \A m \in NodesOf(q) : Passed(m, "declared") BY <1>2 DEF NodesOf
<1> HIDE DEF S, R, T
<1> DEFINE d == <<n, "declared">>
<1>8. d \in Tasks /\ d \in Contents /\ d[1] = n /\ d[2] = "declared" BY <1>5, StageTasks
<1>9. Ready(d) BY <1>5, <1>6, <1>7, <1>8, StuckTasks DEF Ready
<1>10. Succeeded(d) BY <1>8, <1>9, StuckReady
<1>11. work[n].stage >= Level("declared")
    BY <1>5, <1>10 DEF Stuck, Consistent, StagesStand, Accepted
<1> QED BY <1>5, <1>10, <1>11 DEF Passed

\* Builds succeed along the providers, the first that did not being ready.
LEMMA StuckBuilt ==
    ASSUME Stuck, NEW s \in {"declared", "final"}, \A r \in Repos : RepoAtLeast(r, "declared"),
           s = "final" => AllBuilt("declared") /\ \A r \in Repos : RepoAtLeast(r, "proved")
    PROVE  AllBuilt(s)
<1> SUFFICES ASSUME \E r \in Repos : ~Succeeded(<<r, s>>) PROVE FALSE BY DEF AllBuilt
<1> DEFINE S == {r \in Repos : ~Succeeded(<<r, s>>)}
<1>1. S \subseteq Repos /\ S # {} OBVIOUS
<1>2. PICK r \in S : Providers[r] \cap S = {} BY <1>1, AcyclicAssumption
<1>3. r \in Repos /\ \A p \in Providers[r] : Succeeded(<<p, s>>) BY <1>2, PlanAssumption
<1> DEFINE b == <<r, s>>
<1>4. b \in Tasks /\ b \in Builds /\ b[1] = r /\ b[2] = s BY <1>3, TaskShape
<1>5. Ready(b) BY <1>3, <1>4 DEF Ready, Advances, Stuck
<1> QED BY <1>2, <1>4, <1>5, StuckReady

\* Once every declared build did, the proofs are ready or done.
LEMMA StuckProved ==
    ASSUME Stuck, AllBuilt("declared"), NEW n \in Nodes
    PROVE  Passed(n, "proved")
<1> DEFINE p == <<n, "proved">>
<1>1. p \in Tasks /\ p \in Contents /\ p[1] = n /\ p[2] = "proved" BY StageTasks
<1>2. Passed(n, "proved") \/ Ready(p) BY <1>1, StuckTasks, StuckDeclared DEF Ready
<1>3. Succeeded(p) BY <1>1, <1>2, StuckReady DEF Passed
<1>4. work[n].stage >= Level("proved") BY <1>3 DEF Stuck, Consistent, StagesStand, Accepted
<1> QED BY <1>3, <1>4 DEF Passed

\* A run that says "running" has something left to do: whatever the order of
\* dispatches, retries and ends of the process, it never waits for a flow that no
\* one starts or a slot that no one frees.  The exceptions are a process that
\* ended inside a retry and a reservation that was lost.
THEOREM RunningRunMoves == Spec => []RunningMoves
<1>1. Consistent => RunningMoves
    <2> SUFFICES ASSUME Stuck PROVE Finished BY DEF RunningMoves, Stuck
    <2>1. \A r \in Repos : RepoAtLeast(r, "declared")
        BY StuckDeclared, StuckTasks DEF RepoAtLeast, NodesOf
    <2>2. AllBuilt("declared") BY <2>1, StuckBuilt
    <2>3. \A r \in Repos : RepoAtLeast(r, "proved")
        BY <2>2, StuckProved, StuckTasks DEF RepoAtLeast, NodesOf
    <2>4. AllBuilt("final") BY <2>1, <2>2, <2>3, StuckBuilt
    <2>5. run.blocked = {} BY DEF Stuck, Consistent, RunShowsFailures
    <2> QED BY <2>2, <2>4, <2>5 DEF Finished
<1> QED BY <1>1, ConsistentInductive, PTL
=============================================================================

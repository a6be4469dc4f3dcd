--------------------------- MODULE DeclRoundProofs ---------------------------
(***************************************************************************)
(* Proofs about DeclRound, for any declarations, stages, goals and bounds. *)
(*                                                                         *)
(* What the invariant says of the records is stated for any revisions ds   *)
(* and rounds rs: it holds of the trees on disk and of the copy of them    *)
(* that a closeout in progress would write back. The lemma XKept says that *)
(* the action X preserves it, XTouches what X may change.                  *)
(***************************************************************************)
EXTENDS DeclRound, FiniteSetTheorems, SequenceTheorems, TLAPS

Revisions == [Decls -> Seq(Revision)]
Last(s)   == s[Len(s)]
Live(rs)  == {r \in DOMAIN rs : rs[r].status \in Unfinished}

\* The declarations a round refers to.
Refs(round) == {d \in Decls : round.refs[d] # 0}

\* References are revisions that exist, and no two rounds share one.
RefsFit(ds, rs) ==
    /\ \A r \in DOMAIN rs : \A d \in Refs(rs[r]) : rs[r].refs[d] \in DOMAIN ds[d]
    /\ \A r, q \in DOMAIN rs : \A d \in Refs(rs[r]) \cap Refs(rs[q]) :
          rs[r].refs[d] = rs[q].refs[d] => r = q

\* Only heads are open, and those not excused are the live round's.
HeadsFit(ds, rs, excused) ==
    /\ \A r, q \in Live(rs) : r = q
    /\ \A d \in Decls : \A i \in DOMAIN ds[d] : ds[d][i].open => i = Len(ds[d])
    /\ \A d \in Decls \ excused : \A r \in Live(rs) :
          d \in Refs(rs[r]) => rs[r].refs[d] = Len(ds[d]) /\ Last(ds[d]).open
    /\ \A d \in Decls \ excused :
          ds[d] # <<>> /\ Last(ds[d]).open => \E r \in Live(rs) : d \in Refs(rs[r])

\* A round's result fits its status, and was earned.
ResultFits(ds, round) ==
    /\ round.status = "draft" => round.exec = "none" /\ round.marker = 0
    /\ round.status = "awaiting" => round.exec # "none"
    /\ round.result # "none" => round.status = "committed"
    /\ "success" \in {round.exec, round.result} =>
          \A d \in Refs(round) : ds[d][round.refs[d]].state >= ds[d][round.refs[d]].goal
    /\ round.status = "committed" =>
          IF round.exec = "none" THEN round.result # "success"
          ELSE Rank(round.result) <= Rank(round.exec)

RecordsFit(ds, rs, excused) ==
    /\ ds \in Revisions /\ rs \in Seq(Round)
    /\ RefsFit(ds, rs) /\ HeadsFit(ds, rs, excused)
    /\ \A r \in DOMAIN rs : ResultFits(ds, rs[r])

\* The declarations of rounds qs of rs.
InRounds(rs, qs) == {d \in Decls : \E q \in qs \cap DOMAIN rs : d \in Refs(rs[q])}
Excused == orphans \cup InRounds(rounds, cut \cup {closing.round})

\* A round and its flow: a draft has done nothing, a round runs while its flow
\* does, and a flow before a gate has the review it says.
FlowFits(r) ==
    /\ rounds[r].status = "draft" =>
          /\ flows[r].targets = {}
          /\ flows[r].status = "running" =>
                /\ flows[r].phase \in {"round_start", "build_result"}
                /\ task.phase = "waiting" /\ task.child = r
    /\ rounds[r].status = "running" => flows[r].status = "running" \/ r \in lost
    /\ flows[r].phase \in {"stage_prepare", "stage_gate_audit"} => flows[r].stage # 0
    /\ flows[r].phase = "build_result" => flows[r].outcome # "none"
    /\ flows[r].status = "running" /\ flows[r].phase = "stage_gate_audit"
          /\ flows[r].stage \in AgentReviewed /\ flows[r].review = "passed"
          /\ rounds[r].status = "running" => flows[r].targets \cap unreviewed = {}

FlowsFit ==
    /\ \A r \in DOMAIN rounds : FlowFits(r)
    /\ \A r \in (1..MaxRounds) \ DOMAIN rounds : flows[r] = NoFlow

TaskFits ==
    /\ task.phase \in {"ensure", "dispatch"} => task.child # 0 /\ rounds[task.child].status = "draft"
    /\ task.phase = "audit" \/ task.outcome = "ready" => Current = {}
    /\ task.phase # "done" => task.outcome = "none"

\* A closeout in progress: it would write back what it found, and what it
\* found is what there is, but for the revisions it has committed and for what
\* a restarted flow of its round did since. Its result fits the recorded one.
Found == closing.rounds[closing.round]

RoundsFound ==
    /\ DOMAIN closing.rounds = DOMAIN rounds
    /\ \A q \in DOMAIN rounds \ {closing.round} : closing.rounds[q] = rounds[q]
    /\ Found.refs = rounds[closing.round].refs /\ Found.marker <= flows[closing.round].attempt
    /\ \/ rounds[closing.round] = Found /\ AllowedResult(closing.round, closing.kind)
       \/ Found.status = "awaiting" /\ rounds[closing.round].status # "draft" /\ closing.kind = "failed"

RevisionsFound ==
    /\ \A d \in Decls :
          /\ Len(closing.decls[d]) = Len(decls[d])
          /\ \A i \in DOMAIN decls[d] :
                /\ closing.decls[d][i].state <= decls[d][i].state
                /\ closing.decls[d][i] # decls[d][i] =>
                      d \in RefsOf(closing.round) /\ i = rounds[closing.round].refs[d]
                /\ closing.decls[d][i].open # decls[d][i].open => d \in RefsOf(closing.round) \ closing.todo
    /\ \A d \in RefsOf(closing.round) \ closing.todo :
          rounds[closing.round].refs[d] = Len(decls[d]) /\ ~HeadOf(d).open

CloseoutFits ==
    Closing =>
        /\ task.phase \in {"plan", "done"} /\ closing.round \in Current
        /\ RecordsFit(closing.decls, closing.rounds, orphans \cup InRounds(closing.rounds, cut))
        /\ RoundsFound /\ RevisionsFound

Kept ==
    /\ RecordTypes
    /\ RecordsFit(decls, rounds, Excused)
    /\ FlowsFit /\ TaskFits /\ CloseoutFits

\* A copy of round r was checked before it was made, and its flow or restart
\* waits for it to be saved.
CopyFits(r) ==
    /\ copy[r].of \in {"result", "failure"} => flows[r].status = "running"
    /\ copy[r].of = "result" =>
          /\ flows[r].phase = "build_result"
          /\ rounds[r].status = "running" /\ flows[r].outcome = "success" => Reached(r)
    /\ copy[r].of = "reopening" =>
          /\ flows[r].status = "failed" /\ AtAgentStep(r) /\ rounds[r].status # "draft"
          /\ copy[r].record.status = "awaiting" /\ copy[r].record.exec = "failed"

PlanCopyFits ==
    planCopy.of = "closeout" =>
        Closing /\ closing.todo = {} /\ planCopy.record.status \in {"draft", "awaiting"}

CopiesFit ==
    /\ CopyTypes /\ PlanCopyFits
    /\ \A r \in 1..MaxRounds : copy[r] # NoCopy => r \in DOMAIN rounds /\ CopyFits(r)

\* The invariant: it holds as long as no save has dropped another.
Sound == ~dropped => Kept /\ CopiesFit

\* The length of a sequence, its indices and its elements.
LEMMA LastIn ==
    ASSUME NEW S, NEW s \in Seq(S)
    PROVE  /\ Len(s) \in Nat /\ DOMAIN s = 1..Len(s) /\ (s # <<>> <=> Len(s) # 0)
           /\ s # <<>> => Len(s) \in DOMAIN s /\ Last(s) \in S
           /\ \A i \in DOMAIN s : s[i] \in S
BY EmptySeq DEF Last

\* A sequence with its last element removed.
LEMMA ButLast ==
    ASSUME NEW S, NEW s \in Seq(S), s # <<>>
    PROVE  LET t == SubSeq(s, 1, Len(s) - 1)
           IN  /\ t \in Seq(S) /\ Len(t) + 1 = Len(s)
               /\ \A i \in DOMAIN t : t[i] = s[i]
<1> DEFINE m == Len(s) - 1
<1>1. m \in Nat /\ m + 1 = Len(s) BY LastIn
<1> HIDE DEF m
<1>2. SubSeq(s, 1, m) \in Seq(S) /\ Len(SubSeq(s, 1, m)) = m
    <2>1. CASE m = 0 BY <2>1, SubSeqEmpty, EmptySeq
    <2>2. CASE m # 0 BY <1>1, <2>2
    <2> QED BY <2>1, <2>2
<1>3. \A i \in 1..m : SubSeq(s, 1, m)[i] = s[i] BY <1>1
<1> QED BY <1>1, <1>2, <1>3 DEF m

\* A sequence with one element replaced.
LEMMA Replaced ==
    ASSUME NEW S, NEW s \in Seq(S), NEW i \in DOMAIN s, NEW e \in S
    PROVE  LET t == [s EXCEPT ![i] = e]
           IN  /\ t \in Seq(S) /\ Len(t) = Len(s) /\ DOMAIN t = DOMAIN s /\ t[i] = e
               /\ \A j \in DOMAIN s : j # i => t[j] = s[j]
OBVIOUS

\* A sequence with an element added.
LEMMA Extended ==
    ASSUME NEW S, NEW s \in Seq(S), NEW e \in S
    PROVE  LET t == Append(s, e)
           IN  /\ t \in Seq(S) /\ Len(t) = Len(s) + 1 /\ DOMAIN t = DOMAIN s \cup {Len(s) + 1}
               /\ Last(t) = e /\ t # <<>>
               /\ \A i \in DOMAIN s : t[i] = s[i] /\ i # Len(s) + 1
BY EmptySeq DEF Last

\* States and goals are numbers: a goal of 0 is none.
LEMMA RevisionNumbers ==
    ASSUME NEW v \in Revision
    PROVE  v.state \in Nat /\ v.goal \in Nat
BY StageAssumption DEF Revision

----------------------------------------------------------------------------
(* What an operation on records preserves.                                 *)

\* The more is excused, the less is asked.
LEMMA MoreExcused ==
    ASSUME NEW ds, NEW rs, NEW excused, NEW more, RecordsFit(ds, rs, excused), excused \subseteq more
    PROVE  RecordsFit(ds, rs, more)
BY DEF RecordsFit, HeadsFit

\* Revisions of the same numbers are committed, where it is excused, or raised.
LEMMA RevisionsChange ==
    ASSUME NEW ds, NEW rs, NEW excused, RecordsFit(ds, rs, excused),
           NEW new \in Revisions,
           \A d \in Decls : Len(new[d]) = Len(ds[d]),
           \A d \in Decls : \A i \in DOMAIN ds[d] :
              /\ new[d][i].goal = ds[d][i].goal /\ new[d][i].state >= ds[d][i].state
              /\ new[d][i].open => ds[d][i].open
              /\ d \notin excused => new[d][i].open = ds[d][i].open
    PROVE  RecordsFit(new, rs, excused)
<1>1. /\ ds \in Revisions /\ rs \in Seq(Round) /\ RefsFit(ds, rs) /\ HeadsFit(ds, rs, excused)
      /\ \A r \in DOMAIN rs : ResultFits(ds, rs[r])
    BY DEF RecordsFit
<1>2. \A d \in Decls : /\ ds[d] \in Seq(Revision) /\ new[d] \in Seq(Revision)
                       /\ DOMAIN new[d] = DOMAIN ds[d]
                       /\ ds[d] # <<>> <=> new[d] # <<>>
                       /\ ds[d] # <<>> => Len(ds[d]) \in DOMAIN ds[d]
    BY <1>1, LastIn DEF Revisions
<1>3. RefsFit(new, rs) BY <1>1, <1>2 DEF RefsFit, Refs
<1>4. HeadsFit(new, rs, excused)
    <2>1. \A d \in Decls : \A i \in DOMAIN new[d] : new[d][i].open => i = Len(new[d])
        BY <1>1, <1>2 DEF HeadsFit
    <2>2. \A d \in Decls \ excused : ds[d] # <<>> => Last(new[d]).open = Last(ds[d]).open
        BY <1>2 DEF Last
    <2>3. \A d \in Decls \ excused : \A r \in Live(rs) :
             d \in Refs(rs[r]) => rs[r].refs[d] = Len(new[d]) /\ Last(new[d]).open
        <3> SUFFICES ASSUME NEW d \in Decls \ excused, NEW r \in Live(rs), d \in Refs(rs[r])
                     PROVE  rs[r].refs[d] = Len(new[d]) /\ Last(new[d]).open
            OBVIOUS
        <3>1. rs[r].refs[d] = Len(ds[d]) /\ Last(ds[d]).open BY <1>1 DEF HeadsFit
        <3>2. rs[r].refs[d] \in DOMAIN ds[d] BY <1>1 DEF RefsFit, Live
        <3>3. ds[d] # <<>> BY <1>2, <3>2, EmptySeq
        <3> QED BY <2>2, <3>1, <3>3
    <2>4. \A d \in Decls \ excused :
             new[d] # <<>> /\ Last(new[d]).open => \E r \in Live(rs) : d \in Refs(rs[r])
        BY <1>1, <1>2, <2>2 DEF HeadsFit
    <2> QED BY <1>1, <2>1, <2>3, <2>4 DEF HeadsFit
<1>5. ASSUME NEW r \in DOMAIN rs PROVE ResultFits(new, rs[r])
    <2>1. \A d \in Refs(rs[r]) : rs[r].refs[d] \in DOMAIN ds[d] /\ d \in Decls BY <1>1 DEF RefsFit, Refs
    <2>2. \A d \in Decls : \A i \in DOMAIN ds[d] :
             /\ ds[d][i].state \in Nat /\ ds[d][i].goal \in Nat /\ new[d][i].state \in Nat
             /\ ds[d][i].state >= ds[d][i].goal => new[d][i].state >= new[d][i].goal
        <3> SUFFICES ASSUME NEW d \in Decls, NEW i \in DOMAIN ds[d]
                     PROVE  /\ ds[d][i].state \in Nat /\ ds[d][i].goal \in Nat /\ new[d][i].state \in Nat
                            /\ ds[d][i].state >= ds[d][i].goal => new[d][i].state >= new[d][i].goal
            OBVIOUS
        <3>1. ds[d][i] \in Revision /\ new[d][i] \in Revision BY <1>2
        <3>2. ds[d][i].state \in Nat /\ ds[d][i].goal \in Nat /\ new[d][i].state \in Nat
            BY <3>1, RevisionNumbers
        <3> QED BY <3>2
    <2> QED BY <1>1, <2>1, <2>2 DEF ResultFits
<1> QED BY <1>1, <1>3, <1>4, <1>5 DEF RecordsFit

\* A round goes on, or ends with no revision left open.
LEMMA RoundChanges ==
    ASSUME NEW ds, NEW rs, NEW excused, RecordsFit(ds, rs, excused),
           NEW r \in DOMAIN rs, NEW new \in Round, new.refs = rs[r].refs, ResultFits(ds, new),
           new.status \in Unfinished => rs[r].status \in Unfinished,
           new.status \notin Unfinished => \A d \in Refs(new) \ excused : ~Last(ds[d]).open
    PROVE  RecordsFit(ds, [rs EXCEPT ![r] = new], excused)
<1> DEFINE rounds2 == [rs EXCEPT ![r] = new]
<1>1. /\ ds \in Revisions /\ rs \in Seq(Round) /\ RefsFit(ds, rs) /\ HeadsFit(ds, rs, excused)
      /\ \A q \in DOMAIN rs : ResultFits(ds, rs[q])
    BY DEF RecordsFit
<1>2. /\ rounds2 \in Seq(Round) /\ DOMAIN rounds2 = DOMAIN rs /\ rounds2[r] = new
      /\ \A q \in DOMAIN rs : q # r => rounds2[q] = rs[q]
    BY <1>1, Replaced
<1> HIDE DEF rounds2
<1>3. \A q \in DOMAIN rs : Refs(rounds2[q]) = Refs(rs[q]) /\ rounds2[q].refs = rs[q].refs
    BY <1>2 DEF Refs
<1>4. Live(rounds2) \subseteq Live(rs) /\ Live(rs) \ {r} \subseteq Live(rounds2)
    BY <1>2 DEF Live
<1>5. RefsFit(ds, rounds2) BY <1>1, <1>2, <1>3 DEF RefsFit
<1>6. HeadsFit(ds, rounds2, excused)
    <2>1. \A d \in Decls \ excused : \A q \in Live(rounds2) :
             d \in Refs(rounds2[q]) => rounds2[q].refs[d] = Len(ds[d]) /\ Last(ds[d]).open
        BY <1>1, <1>3, <1>4 DEF HeadsFit, Live
    <2>2. ASSUME NEW d \in Decls \ excused, ds[d] # <<>>, Last(ds[d]).open
          PROVE  \E q \in Live(rounds2) : d \in Refs(rounds2[q])
        <3>1. PICK q \in Live(rs) : d \in Refs(rs[q]) BY <1>1, <2>2 DEF HeadsFit
        <3>2. q \in Live(rounds2)
            <4>1. CASE q # r BY <1>4, <4>1
            <4>2. CASE q = r
                <5>1. new.status \in Unfinished BY <2>2, <3>1, <4>2 DEF Refs
                <5> QED BY <1>2, <4>2, <5>1 DEF Live
            <4> QED BY <4>1, <4>2
        <3>3. d \in Refs(rounds2[q]) BY <1>3, <3>1 DEF Live
        <3> QED BY <3>2, <3>3
    <2> QED BY <1>1, <1>4, <2>1, <2>2 DEF HeadsFit
<1>7. \A q \in DOMAIN rounds2 : ResultFits(ds, rounds2[q]) BY <1>1, <1>2
<1>8. RecordsFit(ds, rounds2, excused) BY <1>1, <1>2, <1>5, <1>6, <1>7 DEF RecordsFit
<1> QED BY <1>8 DEF rounds2

\* A round is added when there is no live one.
LEMMA RoundAdded ==
    ASSUME NEW ds, NEW rs, NEW excused, RecordsFit(ds, rs, excused), Live(rs) = {}
    PROVE  RecordsFit(ds, Append(rs, NewRound), excused)
<1> DEFINE rounds2 == Append(rs, NewRound)
<1>1. /\ ds \in Revisions /\ rs \in Seq(Round) /\ RefsFit(ds, rs) /\ HeadsFit(ds, rs, excused)
      /\ \A q \in DOMAIN rs : ResultFits(ds, rs[q])
    BY DEF RecordsFit
<1>2. NewRound \in Round /\ Refs(NewRound) = {} /\ ResultFits(ds, NewRound)
    BY DEF NewRound, Round, Unfinished, Refs, ResultFits
<1> DEFINE n == Len(rs) + 1
<1>3. /\ rounds2 \in Seq(Round) /\ DOMAIN rounds2 = DOMAIN rs \cup {n} /\ n \notin DOMAIN rs
      /\ rounds2[n] = NewRound /\ \A q \in DOMAIN rs : rounds2[q] = rs[q]
    BY <1>1, <1>2
<1> HIDE DEF rounds2, n
<1>4. Live(rounds2) \subseteq {n} BY <1>3 DEF Live
<1>5. RefsFit(ds, rounds2) BY <1>1, <1>2, <1>3 DEF RefsFit
<1>6. HeadsFit(ds, rounds2, excused)
    BY <1>1, <1>2, <1>3, <1>4 DEF HeadsFit
<1>7. \A q \in DOMAIN rounds2 : ResultFits(ds, rounds2[q]) BY <1>1, <1>2, <1>3
<1> QED BY <1>1, <1>3, <1>5, <1>6, <1>7 DEF RecordsFit, rounds2

\* A declaration whose head is closed has one more revision, which no round
\* refers to.
LEMMA Unattached ==
    ASSUME NEW ds, NEW rs, NEW excused, RecordsFit(ds, rs, excused),
           NEW d \in Decls, ds[d] # <<>> => ~Last(ds[d]).open,
           NEW v \in Revision, v.open => d \in excused,
           \A r \in Live(rs) : d \notin Refs(rs[r])
    PROVE  RecordsFit([ds EXCEPT ![d] = Append(@, v)], rs, excused)
<1> DEFINE new == [ds EXCEPT ![d] = Append(@, v)]
<1>1. /\ ds \in Revisions /\ rs \in Seq(Round) /\ RefsFit(ds, rs) /\ HeadsFit(ds, rs, excused)
      /\ \A r \in DOMAIN rs : ResultFits(ds, rs[r])
    BY DEF RecordsFit
<1>2. ds[d] \in Seq(Revision) BY <1>1 DEF Revisions
<1>3. /\ new[d] \in Seq(Revision) /\ Len(new[d]) = Len(ds[d]) + 1
      /\ DOMAIN new[d] = DOMAIN ds[d] \cup {Len(ds[d]) + 1} /\ Last(new[d]) = v
      /\ \A i \in DOMAIN ds[d] : new[d][i] = ds[d][i] /\ i # Len(ds[d]) + 1
    BY <1>1, <1>2, Extended DEF Revisions
<1>4. new \in Revisions /\ \A e \in Decls \ {d} : new[e] = ds[e] BY <1>1, <1>3 DEF Revisions
<1>5. \A e \in Decls : \A i \in DOMAIN ds[e] : i \in DOMAIN new[e] /\ new[e][i] = ds[e][i]
    BY <1>3, <1>4
<1>6. \A i \in DOMAIN ds[d] : ~ds[d][i].open
    BY <1>1, <1>2, LastIn DEF HeadsFit, Last
<1> HIDE DEF new
<1>7. RefsFit(new, rs) BY <1>1, <1>5 DEF RefsFit, Refs
<1>8. HeadsFit(new, rs, excused)
    <2>1. \A e \in Decls : \A i \in DOMAIN new[e] : new[e][i].open => i = Len(new[e])
        <3>1. \A i \in DOMAIN new[d] : new[d][i].open => i = Len(new[d]) BY <1>3, <1>6
        <3>2. \A e \in Decls \ {d} : \A i \in DOMAIN new[e] : new[e][i].open => i = Len(new[e])
            BY <1>1, <1>4 DEF HeadsFit
        <3> QED BY <3>1, <3>2
    <2>2. \A e \in Decls \ excused : \A r \in Live(rs) :
             e \in Refs(rs[r]) => rs[r].refs[e] = Len(new[e]) /\ Last(new[e]).open
        BY <1>1, <1>4 DEF HeadsFit
    <2>3. \A e \in Decls \ excused :
             new[e] # <<>> /\ Last(new[e]).open => \E r \in Live(rs) : e \in Refs(rs[r])
        BY <1>1, <1>3, <1>4 DEF HeadsFit
    <2> QED BY <1>1, <2>1, <2>2, <2>3 DEF HeadsFit
<1>9. \A r \in DOMAIN rs : ResultFits(new, rs[r])
    <2>1. \A r \in DOMAIN rs : \A e \in Refs(rs[r]) : new[e][rs[r].refs[e]] = ds[e][rs[r].refs[e]]
        BY <1>1, <1>5 DEF RefsFit, Refs
    <2> QED BY <1>1, <2>1 DEF ResultFits
<1>10. RecordsFit(new, rs, excused) BY <1>1, <1>4, <1>7, <1>8, <1>9 DEF RecordsFit
<1> QED BY <1>10 DEF new

\* The same for an open revision that a draft refers to.
LEMMA Attached ==
    ASSUME NEW ds, NEW rs, NEW excused, RecordsFit(ds, rs, excused),
           NEW d \in Decls, ds[d] # <<>> => ~Last(ds[d]).open,
           NEW v \in Revision, v.open,
           NEW r \in DOMAIN rs, rs[r].status = "draft"
    PROVE  RecordsFit([ds EXCEPT ![d] = Append(@, v)],
                      [rs EXCEPT ![r].refs[d] = Len(ds[d]) + 1], excused)
<1> DEFINE new     == [ds EXCEPT ![d] = Append(@, v)]
           n       == Len(ds[d]) + 1
           refs2   == [rs[r].refs EXCEPT ![d] = n]
           round2  == [rs[r] EXCEPT !.refs = refs2]
           rounds2 == [rs EXCEPT ![r] = round2]
<1>1. /\ ds \in Revisions /\ rs \in Seq(Round) /\ RefsFit(ds, rs) /\ HeadsFit(ds, rs, excused)
      /\ \A q \in DOMAIN rs : ResultFits(ds, rs[q])
    BY DEF RecordsFit
<1>2. ds[d] \in Seq(Revision) /\ n \in Nat \ {0} BY <1>1, LastIn DEF Revisions
<1>3. /\ new[d] \in Seq(Revision) /\ Len(new[d]) = n
      /\ DOMAIN new[d] = DOMAIN ds[d] \cup {n} /\ Last(new[d]) = v /\ new[d][n] = v
      /\ \A i \in DOMAIN ds[d] : new[d][i] = ds[d][i] /\ i # n
    BY <1>1, <1>2, Extended DEF Revisions, Last
<1>4. new \in Revisions /\ \A e \in Decls \ {d} : new[e] = ds[e] BY <1>1, <1>3 DEF Revisions
<1>5. \A e \in Decls : \A i \in DOMAIN ds[e] : i \in DOMAIN new[e] /\ new[e][i] = ds[e][i]
    BY <1>3, <1>4
<1>6. \A i \in DOMAIN ds[d] : ~ds[d][i].open
    BY <1>1, <1>2, LastIn DEF HeadsFit, Last
<1>7. rs[r] \in Round BY <1>1
<1>8. /\ refs2 \in [Decls -> Nat] /\ refs2[d] = n
      /\ \A e \in Decls \ {d} : refs2[e] = rs[r].refs[e]
    BY <1>2, <1>7 DEF Round
<1> HIDE DEF new, n, refs2
<1>9. /\ round2 \in Round /\ round2.refs = refs2 /\ round2.status = "draft"
      /\ round2.exec = rs[r].exec /\ round2.result = rs[r].result /\ round2.marker = rs[r].marker
    BY <1>7, <1>8 DEF Round
<1> HIDE DEF round2
<1>10. /\ rounds2 \in Seq(Round) /\ DOMAIN rounds2 = DOMAIN rs /\ rounds2[r] = round2
       /\ \A q \in DOMAIN rs : q # r => rounds2[q] = rs[q]
    BY <1>1, <1>9, Replaced
<1> HIDE DEF rounds2
<1>11. Refs(round2) = Refs(rs[r]) \cup {d} BY <1>2, <1>8, <1>9 DEF Refs
<1>12. r \in Live(rs) /\ Live(rs) = {r} /\ Live(rounds2) = {r}
    <2>1. r \in Live(rs) BY DEF Live, Unfinished
    <2>2. Live(rs) = {r} BY <1>1, <2>1 DEF HeadsFit
    <2> QED BY <1>9, <1>10, <2>1, <2>2 DEF Live
<1>13. RefsFit(new, rounds2)
    <2>1. \A q \in DOMAIN rounds2 : \A e \in Refs(rounds2[q]) : rounds2[q].refs[e] \in DOMAIN new[e]
        BY <1>1, <1>3, <1>5, <1>8, <1>9, <1>10, <1>11 DEF RefsFit, Refs
    <2>2. ASSUME NEW p \in DOMAIN rs, NEW q \in DOMAIN rs, NEW e \in Refs(rounds2[p]) \cap Refs(rounds2[q]),
                 rounds2[p].refs[e] = rounds2[q].refs[e], p # q
          PROVE  FALSE
        <3>1. CASE p # r /\ q # r BY <1>1, <1>10, <2>2, <3>1 DEF RefsFit
        <3>2. CASE e # d
            BY <1>1, <1>8, <1>9, <1>10, <1>11, <2>2, <3>2 DEF RefsFit, Refs
        <3>3. CASE e = d /\ (p = r \/ q = r)
            <4>1. \A k \in DOMAIN rs : k # r /\ d \in Refs(rs[k]) => rs[k].refs[d] # n
                BY <1>1, <1>3 DEF RefsFit
            <4> QED BY <1>8, <1>9, <1>10, <2>2, <3>3, <4>1
        <3> QED BY <3>1, <3>2, <3>3
    <2> QED BY <1>10, <2>1, <2>2 DEF RefsFit
<1>14. HeadsFit(new, rounds2, excused)
    <2>1. \A e \in Decls : \A i \in DOMAIN new[e] : new[e][i].open => i = Len(new[e])
        <3>1. \A i \in DOMAIN new[d] : new[d][i].open => i = Len(new[d]) BY <1>3, <1>6
        <3>2. \A e \in Decls \ {d} : \A i \in DOMAIN new[e] : new[e][i].open => i = Len(new[e])
            BY <1>1, <1>4 DEF HeadsFit
        <3> QED BY <3>1, <3>2
    <2>2. \A e \in Decls \ excused : \A q \in Live(rounds2) :
             e \in Refs(rounds2[q]) => rounds2[q].refs[e] = Len(new[e]) /\ Last(new[e]).open
        BY <1>1, <1>3, <1>4, <1>8, <1>9, <1>10, <1>11, <1>12 DEF HeadsFit
    <2>3. \A e \in Decls \ excused :
             new[e] # <<>> /\ Last(new[e]).open => \E q \in Live(rounds2) : e \in Refs(rounds2[q])
        BY <1>1, <1>4, <1>10, <1>11, <1>12 DEF HeadsFit
    <2> QED BY <1>12, <2>1, <2>2, <2>3 DEF HeadsFit
<1>15. \A q \in DOMAIN rounds2 : ResultFits(new, rounds2[q])
    <2>1. \A q \in DOMAIN rs : \A e \in Refs(rs[q]) : new[e][rs[q].refs[e]] = ds[e][rs[q].refs[e]]
        BY <1>1, <1>5 DEF RefsFit, Refs
    <2>2. \A q \in DOMAIN rs \ {r} : ResultFits(new, rounds2[q]) BY <1>1, <1>10, <2>1 DEF ResultFits
    <2>3. rs[r].exec = "none" /\ rs[r].marker = 0 /\ rs[r].result = "none"
        BY <1>1, <1>7 DEF ResultFits, Round
    <2>4. ResultFits(new, round2) BY <1>9, <2>3 DEF ResultFits
    <2> QED BY <1>10, <2>2, <2>4
<1>16. RecordsFit(new, rounds2, excused) BY <1>4, <1>10, <1>13, <1>14, <1>15 DEF RecordsFit
<1>17. rounds2 = [rs EXCEPT ![r].refs[d] = Len(ds[d]) + 1]
    BY <1>1, <1>7 DEF rounds2, round2, refs2, n, Round
<1> QED BY <1>16, <1>17 DEF new

\* A draft whose references are the open heads goes, and they with it.
LEMMA Discarded ==
    ASSUME NEW ds, NEW rs, NEW excused, RecordsFit(ds, rs, excused),
           NEW r \in DOMAIN rs, rs[r].status = "draft",
           \A d \in Refs(rs[r]) : rs[r].refs[d] = Len(ds[d]) /\ Last(ds[d]).open,
           NEW less, excused \subseteq less \cup Refs(rs[r])
    PROVE  RecordsFit([d \in Decls |-> IF d \in Refs(rs[r]) THEN SubSeq(ds[d], 1, Len(ds[d]) - 1)
                                                            ELSE ds[d]],
                      [rs EXCEPT ![r].status = "discarded", ![r].refs = NewRound.refs], less)
<1> DEFINE gone    == Refs(rs[r])
           new     == [d \in Decls |-> IF d \in gone THEN SubSeq(ds[d], 1, Len(ds[d]) - 1) ELSE ds[d]]
           round2  == [rs[r] EXCEPT !.status = "discarded", !.refs = NewRound.refs]
           rounds2 == [rs EXCEPT ![r] = round2]
<1>1. /\ ds \in Revisions /\ rs \in Seq(Round) /\ RefsFit(ds, rs) /\ HeadsFit(ds, rs, excused)
      /\ \A q \in DOMAIN rs : ResultFits(ds, rs[q])
    BY DEF RecordsFit
<1>2. /\ NewRound.refs \in [Decls -> Nat] /\ \A d \in Decls : NewRound.refs[d] = 0
      /\ rs[r] \in Round
    BY <1>1 DEF NewRound
<1>3. /\ round2 \in Round /\ Refs(round2) = {} /\ round2.status = "discarded"
      /\ round2.exec = rs[r].exec /\ round2.result = rs[r].result
    BY <1>2 DEF Round, Refs
<1>4. [rs EXCEPT ![r].status = "discarded", ![r].refs = NewRound.refs] = rounds2
    BY <1>1, <1>2 DEF Round
<1> HIDE DEF round2
<1>5. /\ rounds2 \in Seq(Round) /\ DOMAIN rounds2 = DOMAIN rs /\ rounds2[r] = round2
      /\ \A q \in DOMAIN rs : q # r => rounds2[q] = rs[q]
    BY <1>1, <1>3, Replaced
<1>6. \A d \in Decls \ gone : ds[d] \in Seq(Revision) /\ new[d] = ds[d] BY <1>1 DEF Revisions
<1>7. ASSUME NEW d \in gone
      PROVE  /\ d \in Decls /\ ds[d] \in Seq(Revision) /\ Len(ds[d]) \in DOMAIN ds[d]
             /\ new[d] \in Seq(Revision) /\ DOMAIN new[d] = DOMAIN ds[d] \ {Len(ds[d])}
             /\ \A i \in DOMAIN new[d] : new[d][i] = ds[d][i] /\ ~new[d][i].open
    <2>1. d \in Decls /\ ds[d] \in Seq(Revision) BY <1>1 DEF Refs, Revisions
    <2>2. rs[r].refs[d] \in DOMAIN ds[d] /\ ds[d] # <<>> BY <1>1, <2>1, EmptySeq DEF RefsFit
    <2>3. Len(ds[d]) \in DOMAIN ds[d] BY <2>1, <2>2, LastIn
    <2>4. /\ new[d] \in Seq(Revision) /\ Len(new[d]) + 1 = Len(ds[d])
          /\ \A i \in DOMAIN new[d] : new[d][i] = ds[d][i]
        BY <2>1, <2>2, ButLast
    <2>5. DOMAIN new[d] = DOMAIN ds[d] \ {Len(ds[d])} BY <2>1, <2>4, LastIn
    <2>6. \A i \in DOMAIN new[d] : ~new[d][i].open BY <1>1, <2>1, <2>4, <2>5 DEF HeadsFit
    <2> QED BY <2>1, <2>3, <2>4, <2>5, <2>6
<1>8. new \in Revisions BY <1>6, <1>7 DEF Revisions
<1> HIDE DEF new, rounds2
<1>9. Live(rounds2) = {}
    <2>1. Live(rs) \subseteq {r} BY <1>1 DEF HeadsFit, Live, Unfinished
    <2> QED BY <1>3, <1>5, <2>1 DEF Live, Unfinished
<1>10. ASSUME NEW q \in DOMAIN rounds2, NEW d \in Refs(rounds2[q])
       PROVE  /\ q # r /\ rounds2[q] = rs[q] /\ d \in Decls /\ rounds2[q].refs[d] \in DOMAIN new[d]
              /\ new[d][rs[q].refs[d]] = ds[d][rs[q].refs[d]]
    <2>1. q # r /\ rounds2[q] = rs[q] /\ q \in DOMAIN rs /\ d \in Decls
        BY <1>3, <1>5 DEF Refs
    <2>2. rs[q].refs[d] \in DOMAIN ds[d] /\ d \in Refs(rs[q]) BY <1>1, <2>1 DEF RefsFit
    <2>3. CASE d \in gone
        <3>1. rs[r].refs[d] = Len(ds[d]) /\ rs[q].refs[d] # rs[r].refs[d]
            BY <1>1, <2>1, <2>2, <2>3 DEF RefsFit
        <3> QED BY <1>7, <2>1, <2>2, <2>3, <3>1
    <2>4. CASE d \notin gone BY <1>6, <2>1, <2>2, <2>4
    <2> QED BY <2>3, <2>4
<1>11. RefsFit(new, rounds2)
    <2>1. \A p, q \in DOMAIN rounds2 : \A d \in Refs(rounds2[p]) \cap Refs(rounds2[q]) :
             rounds2[p].refs[d] = rounds2[q].refs[d] => p = q
        BY <1>1, <1>5, <1>10 DEF RefsFit
    <2> QED BY <1>10, <2>1 DEF RefsFit
<1>12. HeadsFit(new, rounds2, less)
    <2>1. ASSUME NEW d \in Decls
          PROVE  \A i \in DOMAIN new[d] : new[d][i].open => i = Len(new[d]) /\ d \notin gone
        BY <1>1, <1>6, <1>7 DEF HeadsFit
    <2>2. ASSUME NEW d \in Decls \ less, new[d] # <<>>, Last(new[d]).open
          PROVE  FALSE
        <3>1. d \notin gone BY <1>8, <2>1, <2>2, LastIn DEF Last, Revisions
        <3>2. \E q \in Live(rs) : d \in Refs(rs[q]) BY <1>1, <1>6, <2>2, <3>1 DEF HeadsFit
        <3>3. Live(rs) \subseteq {r} BY <1>1 DEF HeadsFit, Live, Unfinished
        <3> QED BY <3>1, <3>2, <3>3
    <2> QED BY <1>9, <2>1, <2>2 DEF HeadsFit
<1>13. \A q \in DOMAIN rounds2 : ResultFits(new, rounds2[q])
    <2>1. \A q \in DOMAIN rs \ {r} : ResultFits(new, rounds2[q])
        BY <1>1, <1>5, <1>10 DEF ResultFits
    <2>2. rs[r].exec = "none" /\ rs[r].result = "none" BY <1>1, <1>2 DEF ResultFits, Round
    <2>3. ResultFits(new, round2) BY <1>3, <2>2 DEF ResultFits
    <2> QED BY <1>5, <2>1, <2>3
<1>14. RecordsFit(new, rounds2, less) BY <1>5, <1>8, <1>11, <1>12, <1>13 DEF RecordsFit
<1> QED BY <1>4, <1>14 DEF new

\* What was excused needs no excuse: all heads there are closed, or there is
\* no live round.
LEMMA LessExcused ==
    ASSUME NEW ds, NEW rs, NEW excused, NEW less, RecordsFit(ds, rs, excused), Live(rs) = {},
           \A d \in excused \ less : d \in Decls /\ ds[d] # <<>> => ~Last(ds[d]).open
    PROVE  RecordsFit(ds, rs, less)
BY DEF RecordsFit, HeadsFit

----------------------------------------------------------------------------
(* What the invariant gives every action.                                  *)

\* The conjuncts of the invariant that most proofs need.
LEMMA Known ==
    ASSUME Kept
    PROVE  /\ decls \in Revisions /\ rounds \in Seq(Round)
           /\ DOMAIN rounds \subseteq 1..MaxRounds /\ MaxRounds \in Nat /\ 0 \notin DOMAIN rounds
           /\ \A r \in DOMAIN rounds :
                 /\ r \in 1..MaxRounds /\ rounds[r] \in Round /\ flows[r] \in RoundFlow
                 /\ FlowFits(r) /\ ResultFits(decls, rounds[r])
           /\ \A d \in Decls : decls[d] \in Seq(Revision)
           /\ Current = Live(rounds) /\ \A r, q \in Current : r = q
<1>1. decls \in Revisions /\ rounds \in Seq(Round) /\ Len(rounds) <= MaxRounds /\ MaxRounds \in Nat
    BY BoundAssumption DEF Kept, RecordTypes, Revisions
<1>2. DOMAIN rounds \subseteq 1..MaxRounds /\ 0 \notin DOMAIN rounds BY <1>1, LastIn
<1>3. \A r \in DOMAIN rounds : rounds[r] \in Round BY <1>1
<1>4. \A r \in DOMAIN rounds : flows[r] \in RoundFlow BY <1>2 DEF Kept, RecordTypes
<1>5. \A r \in DOMAIN rounds : FlowFits(r) /\ ResultFits(decls, rounds[r])
    BY DEF Kept, FlowsFit, RecordsFit
<1>6. Current = Live(rounds) BY DEF Current, Live
<1>7. \A r, q \in Current : r = q BY <1>6 DEF Kept, RecordsFit, HeadsFit
<1>8. \A d \in Decls : decls[d] \in Seq(Revision) BY <1>1 DEF Revisions
<1> QED BY <1>1, <1>2, <1>3, <1>4, <1>5, <1>6, <1>7, <1>8

\* Who is excused while nothing is closed.
LEMMA ExcusedThen ==
    ASSUME Kept
    PROVE  /\ closing = NotClosing => Excused = orphans \cup InRounds(rounds, cut)
           /\ orphans \cup InRounds(rounds, cut) \subseteq Excused
BY Known DEF Excused, InRounds, NotClosing

\* Nothing changes but the copies of records.
LEMMA OnlyCopies ==
    ASSUME Kept, UNCHANGED <<decls, deleted, strategy, rounds, flows, task, tasks, closing,
                             unreviewed, lost, orphans, cut>>
    PROVE  Kept'
BY DEF Kept, RecordTypes, RefsOf, AtAgentStep, Task, Closing, Closeouts, Excused, InRounds,
       FlowsFit, FlowFits, TaskFits, Current, CloseoutFits, RoundsFound, Found, AllowedResult,
       RevisionsFound, HeadOf

\* A save that drops nothing finds what was read.
LEMMA SaveFinds ==
    ASSUME NEW r, NEW read, NEW new, Save(r, read, new), ~dropped'
    PROVE  rounds' = [rounds EXCEPT ![r] = new] /\ rounds[r] = read /\ ~dropped
<1>1. dropped' = (dropped \/ rounds[r] # read) BY DEF Save
<1>2. ~(dropped \/ rounds[r] # read) BY <1>1
<1>3. rounds' = [rounds EXCEPT ![r] = new] BY DEF Save
<1> QED BY <1>2, <1>3

\* The record of a summary is put in its own place.
LEMMA SummaryIsThere ==
    ASSUME Kept, SummaryWrites, ~dropped'
    PROVE  rounds' = rounds
<1> DEFINE p == planCopy.round
           w == planCopy.record
<1>1. Save(p, w, w) BY DEF SummaryWrites
<1> HIDE DEF p, w
<1>2. rounds' = [rounds EXCEPT ![p] = w] /\ rounds[p] = w BY <1>1, SaveFinds
<1>3. rounds \in Seq(Round) BY Known
<1>4. rounds = [i \in DOMAIN rounds |-> rounds[i]] BY <1>3
<1>5. rounds' = [i \in DOMAIN rounds |-> rounds[i]] BY <1>2
<1> QED BY <1>4, <1>5

----------------------------------------------------------------------------
(* Planning.                                                               *)

\* An edit of the records while no flow of a draft runs and nothing is closed.
LEMMA PlanEdit ==
    ASSUME Kept, Planning, UNCHANGED <<flows, task, tasks, closing, unreviewed, lost, cut>>,
           RecordsFit(decls', rounds', Excused'),
           deleted' \subseteq Decls, strategy' \in {"open", "closed"}, orphans' \subseteq Decls,
           Len(rounds') <= MaxRounds, DOMAIN rounds \subseteq DOMAIN rounds',
           \A r \in DOMAIN rounds' \ DOMAIN rounds : rounds'[r] = NewRound,
           \A r \in DOMAIN rounds :
              /\ rounds'[r].marker = rounds[r].marker
              /\ rounds'[r].status \in {"draft", "running"} => rounds'[r].status = rounds[r].status
              /\ rounds[r].status # "draft" => rounds'[r].refs = rounds[r].refs
    PROVE  Kept'
<1>1. closing' = NotClosing /\ task' = task /\ task.phase = "plan" /\ flows' = flows /\ ~Closing'
    BY DEF Planning, Closing
<1>2. decls' \in Revisions /\ rounds' \in Seq(Round) /\ RefsFit(decls', rounds') BY DEF RecordsFit
<1>3. DOMAIN rounds' \subseteq 1..MaxRounds BY <1>2, Known, LastIn
<1>4. \A r \in DOMAIN rounds' \ DOMAIN rounds : flows[r] = NoFlow
    BY <1>3 DEF Kept, FlowsFit
<1>5. RecordTypes'
    <2>1. ASSUME NEW r \in DOMAIN rounds'
          PROVE  /\ rounds'[r].marker <= flows'[r].attempt
                 /\ \A d \in RefsOf(r)' : rounds'[r].refs[d] \in DOMAIN decls'[d]
                 /\ flows'[r].targets \subseteq RefsOf(r)'
                 /\ AtAgentStep(r)' => flows'[r].stage # 0
        <3>1. \A d \in RefsOf(r)' : rounds'[r].refs[d] \in DOMAIN decls'[d]
            BY <1>2 DEF RefsFit, Refs, RefsOf
        <3>2. CASE r \notin DOMAIN rounds
            BY <1>1, <1>4, <3>1, <3>2 DEF NewRound, NoFlow, NewFlow, AtAgentStep
        <3>3. CASE r \in DOMAIN rounds
            <4>1. flows[r].targets \subseteq RefsOf(r)'
                <5>1. CASE rounds[r].status = "draft" BY <3>3, <5>1, Known DEF FlowFits
                <5>2. CASE rounds[r].status # "draft"
                    BY <3>3, <5>2 DEF Kept, RecordTypes, RefsOf
                <5> QED BY <5>1, <5>2
            <4> QED BY <1>1, <3>1, <3>3, <4>1 DEF Kept, RecordTypes, AtAgentStep
        <3> QED BY <3>2, <3>3
    <2>2. task' \in Task' BY <1>1 DEF Kept, RecordTypes, Task
    <2>3. (unreviewed \cup orphans)' \subseteq Decls /\ (lost \cup cut)' \subseteq DOMAIN rounds'
        BY DEF Kept, RecordTypes
    <2>4. flows' \in [1..MaxRounds -> RoundFlow] /\ tasks' \in 1..MaxTasks BY DEF Kept, RecordTypes
    <2> QED BY <1>1, <1>2, <2>1, <2>2, <2>3, <2>4 DEF RecordTypes, Revisions
<1>6. FlowsFit'
    <2>1. ASSUME NEW r \in DOMAIN rounds' PROVE FlowFits(r)'
        <3>1. CASE r \notin DOMAIN rounds
            BY <1>1, <1>4, <3>1 DEF NewRound, NoFlow, NewFlow, FlowFits, RunsIn
        <3>2. CASE r \in DOMAIN rounds
            BY <1>1, <3>2, Known DEF FlowFits, RunsIn
        <3> QED BY <3>1, <3>2
    <2>2. \A r \in ((1..MaxRounds) \ DOMAIN rounds)' : flows'[r] = NoFlow BY DEF Kept, FlowsFit
    <2> QED BY <2>1, <2>2 DEF FlowsFit
<1>7. TaskFits' BY <1>1 DEF Kept, TaskFits
<1>8. CloseoutFits' BY <1>1 DEF CloseoutFits
<1> QED BY <1>5, <1>6, <1>7, <1>8 DEF Kept

LEMMA StrategyKept ==
    ASSUME Kept, EnsureStrategy \/ CloseStrategy
    PROVE  Kept'
<1>1. /\ Planning /\ strategy' \in {"open", "closed"}
      /\ UNCHANGED <<decls, deleted, rounds, flows, task, tasks, closing, unreviewed, lost, orphans, cut>>
    BY DEF EnsureStrategy, CloseStrategy, calls, ghost
<1>2. RecordsFit(decls', rounds', Excused')
    <2>1. Excused' = Excused BY <1>1 DEF Excused
    <2> QED BY <1>1, <2>1 DEF Kept
<1>3. deleted' \subseteq Decls /\ orphans' \subseteq Decls /\ Len(rounds') <= MaxRounds
    BY <1>1 DEF Kept, RecordTypes
<1> QED BY <1>1, <1>2, <1>3, PlanEdit

LEMMA CreateRoundKept ==
    ASSUME Kept, CreateRound
    PROVE  Kept'
<1>1. /\ Planning /\ Current = {} /\ Len(rounds) < MaxRounds /\ rounds' = Append(rounds, NewRound)
      /\ UNCHANGED <<decls, deleted, strategy, flows, task, tasks, closing, unreviewed, lost, orphans, cut>>
    BY DEF CreateRound, calls, ghost
<1>2. /\ Len(rounds') <= MaxRounds /\ DOMAIN rounds \subseteq DOMAIN rounds'
      /\ \A r \in DOMAIN rounds : rounds'[r] = rounds[r]
      /\ \A r \in DOMAIN rounds' \ DOMAIN rounds : rounds'[r] = NewRound
    BY <1>1, Known
<1>3. RecordsFit(decls', rounds', Excused')
    <2>1. RecordsFit(decls', rounds', Excused) BY <1>1, Known, RoundAdded DEF Kept
    <2>2. Excused \subseteq Excused'
        BY <1>1, <1>2 DEF Excused, InRounds
    <2> QED BY <2>1, <2>2, MoreExcused
<1>4. deleted' \subseteq Decls /\ orphans' \subseteq Decls /\ strategy' \in {"open", "closed"}
    BY <1>1 DEF Kept, RecordTypes
<1> QED BY <1>1, <1>2, <1>3, <1>4, PlanEdit

\* A draft that refers to one more revision.
LEMMA AttachedTo ==
    ASSUME Kept, NEW r \in DOMAIN rounds, rounds[r].status = "draft", NEW d \in Decls, NEW n \in Nat \ {0},
           Attach(r, d, n), orphans' = orphans, cut' = cut, closing' = closing
    PROVE  /\ Len(rounds') = Len(rounds) /\ DOMAIN rounds' = DOMAIN rounds
           /\ \A q \in DOMAIN rounds :
                 /\ rounds'[q].marker = rounds[q].marker /\ rounds'[q].status = rounds[q].status
                 /\ rounds[q].status # "draft" => rounds'[q].refs = rounds[q].refs
           /\ Excused \subseteq Excused'
<1> DEFINE refs2  == [rounds[r].refs EXCEPT ![d] = n]
           round2 == [rounds[r] EXCEPT !.refs = refs2]
<1>1. rounds[r] \in Round /\ rounds \in Seq(Round) BY Known
<1>2. refs2 \in [Decls -> Nat] /\ \A e \in Decls : rounds[r].refs[e] # 0 => refs2[e] # 0
    BY <1>1 DEF Round
<1> HIDE DEF refs2
<1>3. /\ round2 \in Round /\ round2.refs = refs2 /\ round2.status = rounds[r].status
      /\ round2.marker = rounds[r].marker
    BY <1>1, <1>2 DEF Round
<1>4. rounds' = [rounds EXCEPT ![r] = round2] BY <1>1 DEF Attach, refs2, Round
<1> HIDE DEF round2
<1>5. /\ Len(rounds') = Len(rounds) /\ DOMAIN rounds' = DOMAIN rounds /\ rounds'[r] = round2
      /\ \A q \in DOMAIN rounds : q # r => rounds'[q] = rounds[q]
    BY <1>1, <1>3, <1>4, Replaced
<1>6. \A q \in DOMAIN rounds : Refs(rounds[q]) \subseteq Refs(rounds'[q])
    BY <1>2, <1>3, <1>5 DEF Refs
<1>7. Excused \subseteq Excused'
    <2>1. InRounds(rounds, cut \cup {closing.round}) \subseteq InRounds(rounds', cut \cup {closing.round})
        BY <1>5, <1>6 DEF InRounds
    <2> QED BY <2>1 DEF Excused
<1> QED BY <1>3, <1>5, <1>7

LEMMA CreateDeclKept ==
    ASSUME Kept, NEW r \in DOMAIN rounds, NEW d \in Decls, NEW goal \in Goals, CreateDecl(r, d, goal)
    PROVE  Kept'
<1> DEFINE v == [state |-> 0, goal |-> goal, open |-> TRUE]
<1>1. /\ Planning /\ rounds[r].status = "draft" /\ decls[d] = <<>>
      /\ decls' = [decls EXCEPT ![d] = <<v>>]
      /\ UNCHANGED <<deleted, strategy, flows, task, tasks, closing, unreviewed, lost, cut>>
    BY DEF CreateDecl, InStatus, calls
<1>2. v \in Revision /\ v.open BY StageAssumption DEF Revision
<1> HIDE DEF v
<1>3. /\ decls' = [decls EXCEPT ![d] = Append(@, v)] /\ Len(decls[d]) + 1 = 1 BY <1>1
<1>4. deleted' \subseteq Decls /\ strategy' \in {"open", "closed"} /\ Len(rounds) <= MaxRounds
      /\ orphans \subseteq Decls /\ RecordsFit(decls, rounds, Excused)
    BY <1>1 DEF Kept, RecordTypes
<1>5. CASE Attach(r, d, 1) /\ UNCHANGED orphans
    <2>1. rounds' = [rounds EXCEPT ![r].refs[d] = Len(decls[d]) + 1] BY <1>3, <1>5 DEF Attach
    <2>2. RecordsFit([decls EXCEPT ![d] = Append(@, v)],
                     [rounds EXCEPT ![r].refs[d] = Len(decls[d]) + 1], Excused)
        BY <1>1, <1>2, <1>4, Attached
    <2>3. RecordsFit(decls', rounds', Excused) BY <1>3, <2>1, <2>2
    <2>4. RecordsFit(decls', rounds', Excused') BY <1>1, <1>5, <2>3, AttachedTo, MoreExcused
    <2> QED BY <1>1, <1>4, <1>5, <2>4, AttachedTo, PlanEdit
<1>6. CASE orphans' = orphans \cup {d} /\ UNCHANGED rounds
    <2>1. d \in Excused' /\ Excused \subseteq Excused' BY <1>1, <1>6 DEF Excused
    <2>2. RecordsFit(decls, rounds, Excused') BY <1>4, <2>1, MoreExcused
    <2>3. \A q \in Live(rounds) : d \notin Refs(rounds[q])
        BY <1>1, <1>4, EmptySeq DEF RecordsFit, RefsFit, Live
    <2>4. RecordsFit([decls EXCEPT ![d] = Append(@, v)], rounds, Excused')
        BY <1>1, <1>2, <2>1, <2>2, <2>3, Unattached
    <2>5. RecordsFit(decls', rounds', Excused') BY <1>3, <1>6, <2>4
    <2> QED BY <1>1, <1>4, <1>6, <2>5, PlanEdit
<1> QED BY <1>5, <1>6 DEF CreateDecl

LEMMA OpenUpdateKept ==
    ASSUME Kept, NEW r \in DOMAIN rounds, NEW d \in Decls, NEW goal \in Goals, NEW start \in 0..LastStage,
           OpenUpdate(r, d, start, goal)
    PROVE  Kept'
<1> DEFINE v == [state |-> start, goal |-> goal, open |-> TRUE]
<1>1. /\ Planning /\ rounds[r].status = "draft" /\ ~Last(decls[d]).open
      /\ decls' = [decls EXCEPT ![d] = Append(@, v)] /\ Attach(r, d, Len(decls[d]) + 1)
      /\ UNCHANGED <<deleted, strategy, flows, task, tasks, closing, unreviewed, lost, orphans, cut>>
    BY DEF OpenUpdate, InStatus, Settled, HeadOf, Last, calls, ghost
<1>2. v \in Revision /\ v.open BY DEF Revision
<1> HIDE DEF v
<1>3. deleted' \subseteq Decls /\ strategy' \in {"open", "closed"} /\ Len(rounds) <= MaxRounds
      /\ orphans \subseteq Decls /\ RecordsFit(decls, rounds, Excused)
    BY <1>1 DEF Kept, RecordTypes
<1>4. RecordsFit([decls EXCEPT ![d] = Append(@, v)],
                 [rounds EXCEPT ![r].refs[d] = Len(decls[d]) + 1], Excused)
    BY <1>1, <1>2, <1>3, Attached
<1>5. RecordsFit(decls', rounds', Excused) BY <1>1, <1>4 DEF Attach
<1> DEFINE n == Len(decls[d]) + 1
<1>6. n \in Nat \ {0} /\ Attach(r, d, n) BY <1>1, Known, LastIn
<1> HIDE DEF n
<1>7. RecordsFit(decls', rounds', Excused') BY <1>1, <1>5, <1>6, AttachedTo, MoreExcused
<1>8. /\ Len(rounds') = Len(rounds) /\ DOMAIN rounds' = DOMAIN rounds
      /\ \A q \in DOMAIN rounds :
            /\ rounds'[q].marker = rounds[q].marker /\ rounds'[q].status = rounds[q].status
            /\ rounds[q].status # "draft" => rounds'[q].refs = rounds[q].refs
    BY <1>1, <1>6, AttachedTo
<1> QED BY <1>1, <1>3, <1>7, <1>8, PlanEdit

LEMMA RestoreDeclKept ==
    ASSUME Kept, NEW d \in Decls, NEW source, RestoreDecl(d, source)
    PROVE  Kept'
<1> DEFINE v == [decls[d][source] EXCEPT !.goal = 0]
<1>1. /\ Planning /\ ~Last(decls[d]).open /\ ~Touched(d)
      /\ source \in DOMAIN decls[d] /\ ~decls[d][source].open
      /\ decls' = [decls EXCEPT ![d] = Append(@, v)]
      /\ UNCHANGED <<deleted, strategy, rounds, flows, task, tasks, closing, unreviewed, lost, orphans, cut>>
    BY DEF RestoreDecl, Settled, HeadOf, Last, calls, ghost
<1>2. decls[d][source] \in Revision BY <1>1, Known, LastIn
<1>3. v \in Revision /\ ~v.open BY <1>1, <1>2 DEF Revision
<1> HIDE DEF v
<1>4. deleted' \subseteq Decls /\ strategy' \in {"open", "closed"} /\ Len(rounds) <= MaxRounds
      /\ orphans \subseteq Decls /\ RecordsFit(decls, rounds, Excused)
    BY <1>1 DEF Kept, RecordTypes
<1>5. \A q \in Live(rounds) : d \notin Refs(rounds[q])
    BY <1>1, Known DEF Touched, RefsOf, Refs
<1>6. RecordsFit(decls', rounds, Excused) BY <1>1, <1>3, <1>4, <1>5, Unattached
<1>7. Excused' = Excused BY <1>1 DEF Excused
<1>8. RecordsFit(decls', rounds', Excused') BY <1>1, <1>6, <1>7
<1> QED BY <1>1, <1>4, <1>8, PlanEdit

LEMMA DiscardDraftKept ==
    ASSUME Kept, NEW r \in DOMAIN rounds, DiscardDraft(r)
    PROVE  Kept'
<1> DEFINE round2 == [rounds[r] EXCEPT !.status = "discarded", !.refs = NewRound.refs]
<1>1. /\ Planning /\ rounds[r].status = "draft"
      /\ \A d \in RefsOf(r) : OpenHead(r, d)
      /\ DropRevisions(r)
      /\ rounds' = [rounds EXCEPT ![r].status = "discarded", ![r].refs = NewRound.refs]
      /\ UNCHANGED <<deleted, strategy, flows, task, tasks, closing, unreviewed, lost, orphans, cut>>
    BY DEF DiscardDraft, InStatus, calls, ghost
<1>2. deleted' \subseteq Decls /\ strategy' \in {"open", "closed"} /\ Len(rounds) <= MaxRounds
      /\ orphans \subseteq Decls /\ RecordsFit(decls, rounds, Excused)
    BY <1>1 DEF Kept, RecordTypes
<1>3. rounds[r] \in Round /\ rounds \in Seq(Round) BY Known
<1>4. /\ round2 \in Round /\ round2.status = "discarded" /\ round2.marker = rounds[r].marker
      /\ rounds' = [rounds EXCEPT ![r] = round2]
    BY <1>1, <1>3 DEF Round, NewRound
<1> HIDE DEF round2
<1>5. /\ Len(rounds') = Len(rounds) /\ DOMAIN rounds' = DOMAIN rounds /\ rounds'[r] = round2
      /\ \A q \in DOMAIN rounds : q # r => rounds'[q] = rounds[q]
    BY <1>3, <1>4, Replaced
<1>6. RefsOf(r) = Refs(rounds[r]) BY DEF RefsOf, Refs
<1>7. Excused \subseteq Excused' \cup Refs(rounds[r])
    <2>1. InRounds(rounds, cut \cup {closing.round})
             \subseteq InRounds(rounds', cut \cup {closing.round}) \cup Refs(rounds[r])
        BY <1>5 DEF InRounds
    <2> QED BY <1>1, <2>1 DEF Excused
<1>8. \A d \in Refs(rounds[r]) : rounds[r].refs[d] = Len(decls[d]) /\ Last(decls[d]).open
    BY <1>1, <1>6 DEF OpenHead, HeadOf, Last
<1>9. RecordsFit(decls', rounds', Excused')
    <2>1. decls' = [d \in Decls |-> IF d \in Refs(rounds[r]) THEN SubSeq(decls[d], 1, Len(decls[d]) - 1)
                                                            ELSE decls[d]]
        BY <1>1, <1>6 DEF DropRevisions
    <2>2. RecordsFit([d \in Decls |-> IF d \in Refs(rounds[r]) THEN SubSeq(decls[d], 1, Len(decls[d]) - 1)
                                                              ELSE decls[d]],
                     [rounds EXCEPT ![r].status = "discarded", ![r].refs = NewRound.refs], Excused')
        BY <1>1, <1>2, <1>7, <1>8, Discarded
    <2> QED BY <1>1, <2>1, <2>2
<1>10. \A q \in DOMAIN rounds :
          /\ rounds'[q].marker = rounds[q].marker
          /\ rounds'[q].status \in {"draft", "running"} => rounds'[q].status = rounds[q].status
          /\ rounds[q].status # "draft" => rounds'[q].refs = rounds[q].refs
    BY <1>1, <1>4, <1>5
<1> QED BY <1>1, <1>2, <1>5, <1>9, <1>10, PlanEdit

LEMMA DeleteDeclsKept ==
    ASSUME Kept, NEW ds \in SUBSET Decls, DeleteDecls(ds)
    PROVE  Kept'
<1>1. /\ Planning /\ deleted' = deleted \cup ds
      /\ UNCHANGED <<decls, strategy, rounds, flows, task, tasks, closing, unreviewed, lost, orphans, cut>>
    BY DEF DeleteDecls, calls, ghost
<1>2. RecordsFit(decls', rounds', Excused')
    <2>1. Excused' = Excused BY <1>1 DEF Excused
    <2> QED BY <1>1, <2>1 DEF Kept
<1>3. deleted' \subseteq Decls /\ orphans' \subseteq Decls /\ Len(rounds') <= MaxRounds
      /\ strategy' \in {"open", "closed"}
    BY <1>1 DEF Kept, RecordTypes
<1> QED BY <1>1, <1>2, <1>3, PlanEdit

----------------------------------------------------------------------------
(* The content task.                                                       *)

\* The task moves while nothing is closed: the records stay, and a draft's flow
\* runs, from its beginning, when the task waits for it.
LEMMA TaskMoves ==
    ASSUME Kept, closing = NotClosing, UNCHANGED <<graph, calls, ghost>>,
           task' \in Task, tasks' \in 1..MaxTasks, flows' \in [1..MaxRounds -> RoundFlow],
           \A r \in 1..MaxRounds :
              \/ flows'[r] = flows[r]
              \/ r \in DOMAIN rounds /\ rounds[r].status = "draft" /\ flows'[r] = NewFlow,
           \A r \in DOMAIN rounds :
              rounds[r].status = "draft" /\ flows'[r].status = "running" =>
                 task'.phase = "waiting" /\ task'.child = r,
           TaskFits'
    PROVE  Kept'
<1>1. UNCHANGED <<decls, deleted, strategy, rounds, closing, unreviewed, lost, orphans, cut>> /\ ~Closing'
    BY DEF graph, calls, ghost, Closing
<1>2. RecordsFit(decls', rounds', Excused')
    <2>1. Excused' = Excused BY <1>1 DEF Excused
    <2> QED BY <1>1, <2>1 DEF Kept
<1>3. ASSUME NEW r \in DOMAIN rounds
      PROVE  /\ rounds[r].marker <= flows'[r].attempt
             /\ flows'[r].targets \subseteq RefsOf(r)
             /\ flows'[r].phase \in {"stage_worker", "stage_reviewer"} => flows'[r].stage # 0
             /\ FlowFits(r)'
    <2>1. r \in 1..MaxRounds /\ rounds' = rounds BY <1>1, Known
    <2>2. CASE flows'[r] = flows[r]
        <3>1. FlowFits(r)' BY <1>1, <2>2, Known DEF FlowFits, RunsIn
        <3> QED BY <2>2, <3>1 DEF Kept, RecordTypes, AtAgentStep
    <2>3. CASE rounds[r].status = "draft" /\ flows'[r] = NewFlow
        <3>1. rounds[r].marker = 0 BY <2>3, Known DEF ResultFits
        <3>2. FlowFits(r)' BY <1>1, <2>3 DEF FlowFits, RunsIn, NewFlow
        <3> QED BY <2>3, <3>1, <3>2 DEF NewFlow
    <2> QED BY <2>1, <2>2, <2>3
<1>4. RecordTypes'
    <2>1. \A r \in DOMAIN rounds' :
             /\ rounds'[r].marker <= flows'[r].attempt
             /\ \A d \in RefsOf(r)' : rounds'[r].refs[d] \in DOMAIN decls'[d]
             /\ flows'[r].targets \subseteq RefsOf(r)'
             /\ AtAgentStep(r)' => flows'[r].stage # 0
        BY <1>1, <1>3 DEF Kept, RecordTypes, RefsOf, AtAgentStep
    <2>2. task' \in Task' BY <1>1 DEF Task
    <2> QED BY <1>1, <2>1, <2>2 DEF Kept, RecordTypes
<1>5. FlowsFit'
    <2>1. \A r \in (1..MaxRounds) \ DOMAIN rounds : flows'[r] = NoFlow BY DEF Kept, FlowsFit
    <2> QED BY <1>1, <1>3, <2>1 DEF FlowsFit
<1> QED BY <1>1, <1>2, <1>4, <1>5 DEF Kept, CloseoutFits

\* The task moves and no flow does.
LEMMA TaskAlone ==
    ASSUME Kept, closing = NotClosing, UNCHANGED <<graph, calls, ghost, flows>>,
           NEW t \in Task, task' = t, tasks' \in 1..MaxTasks,
           task.phase = "waiting" => flows[task.child].status # "running",
           t.phase \in {"ensure", "dispatch"} => t.child # 0 /\ rounds[t.child].status = "draft",
           t.phase = "audit" \/ t.outcome = "ready" => Current = {},
           t.phase # "done" => t.outcome = "none"
    PROVE  Kept'
<1>1. \A r \in DOMAIN rounds : rounds[r].status = "draft" => flows[r].status # "running"
    BY Known DEF FlowFits
<1>2. TaskFits'
    <2>1. UNCHANGED rounds /\ Current' = Current BY DEF graph, Current
    <2> QED BY <2>1 DEF TaskFits
<1>3. flows' \in [1..MaxRounds -> RoundFlow] BY DEF Kept, RecordTypes
<1> QED BY <1>1, <1>2, <1>3, TaskMoves

LEMMA SubmitRoundKept ==
    ASSUME Kept, NEW r \in DOMAIN rounds, SubmitRound(r)
    PROVE  Kept'
<1> DEFINE t == [task EXCEPT !.phase = "ensure", !.child = r]
<1>1. /\ task.phase = "plan" /\ closing = NotClosing /\ rounds[r].status = "draft"
      /\ task' = t /\ tasks' = tasks /\ UNCHANGED <<graph, calls, ghost, flows>>
    BY DEF SubmitRound, Planning, InStatus, TaskTo
<1>2. task \in Task /\ tasks \in 1..MaxTasks /\ task.outcome = "none"
    BY <1>1 DEF Kept, RecordTypes, TaskFits
<1>3. t \in Task /\ t.phase = "ensure" /\ t.child = r /\ t.outcome = "none" BY <1>2 DEF Task
<1>4. r # 0 BY Known
<1> HIDE DEF t
<1> QED BY <1>1, <1>2, <1>3, <1>4, TaskAlone

\* An end of the task that is not ready.
LEMMA TaskFails ==
    ASSUME Kept, closing = NotClosing, UNCHANGED flows, TaskTo(TaskEnds("failed")), task.phase # "waiting"
    PROVE  Kept'
<1> DEFINE t == TaskEnds("failed")
<1>1. t \in Task /\ t.phase = "done" /\ t.outcome = "failed" BY DEF TaskEnds, NewTask, Task
<1>2. tasks' \in 1..MaxTasks BY DEF Kept, RecordTypes, TaskTo
<1>3. task' = t /\ UNCHANGED <<graph, calls, ghost, flows>> BY DEF TaskTo
<1> HIDE DEF t
<1> QED BY <1>1, <1>2, <1>3, TaskAlone

\* The next step of the task, which is not terminal.
LEMMA TaskContinues ==
    ASSUME Kept, closing = NotClosing, UNCHANGED flows,
           NEW p, NEW c \in {0} \cup DOMAIN rounds,
           p \in {"plan", "dispatch", "checkpoint", "callback", "audit"},
           TaskTo([task EXCEPT !.phase = p, !.child = c]),
           task.phase # "done", task.phase = "waiting" => flows[task.child].status # "running",
           p = "dispatch" => task.phase = "ensure" /\ c = task.child,
           p = "audit" => Current = {}
    PROVE  Kept'
<1> DEFINE t == [task EXCEPT !.phase = p, !.child = c]
<1>1. task \in Task /\ tasks \in 1..MaxTasks /\ task.outcome = "none" BY DEF Kept, RecordTypes, TaskFits
<1>2. t \in Task /\ t.phase = p /\ t.child = c /\ t.outcome = "none" BY <1>1 DEF Task
<1>3. task' = t /\ tasks' = tasks /\ UNCHANGED <<graph, calls, ghost, flows>> BY DEF TaskTo
<1>4. p = "dispatch" => c # 0 /\ rounds[c].status = "draft" BY DEF Kept, TaskFits
<1> HIDE DEF t
<1> QED BY <1>1, <1>2, <1>3, <1>4, TaskAlone

LEMMA DispatchKept ==
    ASSUME Kept, closing = NotClosing, task.phase = "dispatch",
           TaskTo([task EXCEPT !.phase = "waiting"]), flows' = [flows EXCEPT ![task.child] = NewFlow]
    PROVE  Kept'
<1> DEFINE t == [task EXCEPT !.phase = "waiting"]
<1>1. /\ task \in Task /\ tasks \in 1..MaxTasks /\ task.outcome = "none"
      /\ task.child \in DOMAIN rounds /\ rounds[task.child].status = "draft"
      /\ flows \in [1..MaxRounds -> RoundFlow]
    BY DEF Kept, RecordTypes, TaskFits, Task
<1>2. t \in Task /\ t.phase = "waiting" /\ t.child = task.child /\ t.outcome = "none" BY <1>1 DEF Task
<1>3. task' = t /\ tasks' = tasks /\ UNCHANGED <<graph, calls, ghost>> BY DEF TaskTo
<1> HIDE DEF t
<1>4. NewFlow \in RoundFlow BY StageAssumption DEF NewFlow, RoundFlow
<1>5. task.child \in 1..MaxRounds BY <1>1, Known
<1>6. flows' \in [1..MaxRounds -> RoundFlow] BY <1>1, <1>4, <1>5
<1>7. \A r \in 1..MaxRounds :
         IF r = task.child THEN flows'[r] = NewFlow ELSE flows'[r] = flows[r]
    BY <1>1, <1>5
<1>8. \A r \in DOMAIN rounds :
         rounds[r].status = "draft" /\ flows'[r].status = "running" =>
            task'.phase = "waiting" /\ task'.child = r
    BY <1>2, <1>3, <1>7, Known DEF FlowFits
<1>9. TaskFits' BY <1>2, <1>3 DEF TaskFits
<1> QED BY <1>1, <1>2, <1>3, <1>6, <1>7, <1>8, <1>9, TaskMoves

LEMMA TaskStepKept ==
    ASSUME Kept, TaskStep
    PROVE  Kept'
<1>1. closing = NotClosing
    <2>1. task.phase \notin {"plan", "done"}
        BY DEF TaskStep, EnsureStageAgents, Dispatch, ExitWaiting, ProgressCheckpoint, CallPlanBack, CompletionAudit
    <2> QED BY <2>1 DEF Kept, CloseoutFits, Closing
<1>2. task \in Task BY DEF Kept, RecordTypes
<1>3. \A p : [task EXCEPT !.phase = p] = [task EXCEPT !.phase = p, !.child = task.child] BY <1>2 DEF Task
<1>4. task.child \in {0} \cup DOMAIN rounds BY <1>2 DEF Task
<1>5. CASE EnsureStageAgents
    <2>1. CASE TaskTo([task EXCEPT !.phase = "dispatch"])
        BY <1>1, <1>3, <1>4, <1>5, <2>1, TaskContinues DEF EnsureStageAgents
    <2> QED BY <1>1, <1>5, <2>1, TaskFails DEF EnsureStageAgents
<1>6. CASE Dispatch BY <1>1, <1>6, DispatchKept, TaskFails DEF Dispatch
<1>7. CASE ExitWaiting
    <2>1. PICK p \in {"checkpoint", "callback"} : TaskTo([task EXCEPT !.phase = p]) BY <1>7 DEF ExitWaiting
    <2>2. TaskTo([task EXCEPT !.phase = p, !.child = task.child]) BY <1>3, <2>1
    <2>3. /\ task.phase = "waiting" /\ flows[task.child].status # "running" /\ UNCHANGED flows
        BY <1>7 DEF ExitWaiting
    <2> QED BY <1>1, <1>4, <2>1, <2>2, <2>3, TaskContinues
<1>8. CASE ProgressCheckpoint
    <2>1. CASE TaskTo([task EXCEPT !.phase = "callback"])
        BY <1>1, <1>3, <1>4, <1>8, <2>1, TaskContinues DEF ProgressCheckpoint
    <2> QED BY <1>1, <1>8, <2>1, TaskFails DEF ProgressCheckpoint
<1>9. CASE CallPlanBack
    <2>1. task.phase = "callback" /\ UNCHANGED flows BY <1>9 DEF CallPlanBack
    <2>2. CASE TaskTo([task EXCEPT !.phase = "plan"]) BY <1>1, <1>3, <1>4, <2>1, <2>2, TaskContinues
    <2> QED BY <1>1, <1>9, <2>1, <2>2, TaskFails DEF CallPlanBack
<1>10. CASE CompletionAudit
    <2>1. task.phase = "audit" /\ UNCHANGED flows BY <1>10 DEF CompletionAudit
    <2>2. CASE TaskTo([task EXCEPT !.phase = "callback", !.child = 0])
        <3> DEFINE t == [task EXCEPT !.phase = "callback", !.child = 0]
        <3>1. task.outcome = "none" /\ tasks' \in 1..MaxTasks
            BY <2>1, <2>2 DEF Kept, RecordTypes, TaskFits, TaskTo
        <3>2. t \in Task /\ t.phase = "callback" /\ t.outcome = "none" BY <1>2, <3>1 DEF Task
        <3>3. task' = t /\ UNCHANGED <<graph, calls, ghost, flows>> BY <2>1, <2>2 DEF TaskTo
        <3> HIDE DEF t
        <3> QED BY <1>1, <2>1, <3>1, <3>2, <3>3, TaskAlone
    <2>3. CASE TaskTo(TaskEnds("ready"))
        <3> DEFINE t == TaskEnds("ready")
        <3>1. t \in Task /\ t.phase = "done" BY DEF TaskEnds, NewTask, Task
        <3>2. tasks' \in 1..MaxTasks BY <2>3 DEF Kept, RecordTypes, TaskTo
        <3>3. task' = t /\ UNCHANGED <<graph, calls, ghost, flows>> BY <2>1, <2>3 DEF TaskTo
        <3>4. Current = {} BY <2>1 DEF Kept, TaskFits
        <3> HIDE DEF t
        <3> QED BY <1>1, <2>1, <3>1, <3>2, <3>3, <3>4, TaskAlone
    <2> QED BY <1>10, <2>2, <2>3 DEF CompletionAudit
<1> QED BY <1>5, <1>6, <1>7, <1>8, <1>9, <1>10 DEF TaskStep

LEMMA SubmitKept ==
    ASSUME Kept, Submit
    PROVE  Kept'
<1>1. task.phase = "plan" /\ closing = NotClosing /\ UNCHANGED flows
    BY DEF Submit, SubmitReady, SubmitBlockedOrFailed, PlanIncomplete, Planning
<1>2. CASE TaskTo(TaskEnds("failed")) BY <1>1, <1>2, TaskFails
<1>3. CASE SubmitReady
    <2>1. task \in Task BY DEF Kept, RecordTypes
    <2>2. [task EXCEPT !.phase = "audit"] = [task EXCEPT !.phase = "audit", !.child = task.child]
        BY <2>1 DEF Task
    <2>3. task.child \in {0} \cup DOMAIN rounds BY <2>1 DEF Task
    <2> QED BY <1>1, <1>3, <2>2, <2>3, TaskContinues DEF SubmitReady, NoPendingRound
<1> QED BY <1>2, <1>3 DEF Submit, SubmitBlockedOrFailed, PlanIncomplete

LEMMA StartTaskKept ==
    ASSUME Kept, StartTask
    PROVE  Kept'
<1>1. /\ task.phase = "done" /\ tasks < MaxTasks /\ closing = NotClosing
      /\ task' = NewTask /\ tasks' = tasks + 1
      /\ UNCHANGED <<graph, calls, ghost, flows>>
    BY DEF StartTask, Closing
<1>2. NewTask \in Task /\ NewTask.phase = "plan" /\ NewTask.outcome = "none" BY DEF NewTask, Task
<1>3. tasks' \in 1..MaxTasks BY <1>1, BoundAssumption DEF Kept, RecordTypes
<1> QED BY <1>1, <1>2, <1>3, TaskAlone

----------------------------------------------------------------------------
(* Closeouts. The task and the flows wait.                                 *)

\* What an action of a closeout has to show of the state it leaves.
LEMMA CloseoutMoves ==
    ASSUME Kept, UNCHANGED <<deleted, strategy, flows, task, tasks, lost, orphans>>,
           task.phase \in {"plan", "done"}, task.outcome = "ready" => Current' = {},
           RecordsFit(decls', rounds', Excused'), DOMAIN rounds' = DOMAIN rounds,
           \A r \in DOMAIN rounds :
              /\ rounds'[r].refs = rounds[r].refs /\ rounds'[r].marker <= flows[r].attempt
              /\ rounds'[r].status \in {"draft", "running"} => rounds'[r].status = rounds[r].status,
           unreviewed' \subseteq unreviewed, cut' \subseteq DOMAIN rounds,
           Closing' => (closing \in Closeouts /\ closing.todo \subseteq RefsOf(closing.round))',
           CloseoutFits'
    PROVE  Kept'
<1>1. decls' \in Revisions /\ rounds' \in Seq(Round) /\ RefsFit(decls', rounds') BY DEF RecordsFit
<1>2. Len(rounds') <= MaxRounds
    <2>1. Len(rounds') = Len(rounds) BY <1>1, Known, LastIn
    <2> QED BY <2>1 DEF Kept, RecordTypes
<1>3. RecordTypes'
    <2>1. ASSUME NEW r \in DOMAIN rounds'
          PROVE  /\ rounds'[r].marker <= flows'[r].attempt
                 /\ \A d \in RefsOf(r)' : rounds'[r].refs[d] \in DOMAIN decls'[d]
                 /\ flows'[r].targets \subseteq RefsOf(r)'
                 /\ AtAgentStep(r)' => flows'[r].stage # 0
        <3>1. \A d \in RefsOf(r)' : rounds'[r].refs[d] \in DOMAIN decls'[d]
            BY <1>1 DEF RefsFit, Refs, RefsOf
        <3>2. flows[r].targets \subseteq RefsOf(r) /\ (AtAgentStep(r) => flows[r].stage # 0)
            BY DEF Kept, RecordTypes
        <3> QED BY <3>1, <3>2 DEF RefsOf, AtAgentStep
    <2>2. task' \in Task' BY DEF Kept, RecordTypes, Task
    <2>3. /\ (unreviewed \cup orphans)' \subseteq Decls /\ (lost \cup cut)' \subseteq DOMAIN rounds'
          /\ flows' \in [1..MaxRounds -> RoundFlow] /\ tasks' \in 1..MaxTasks
          /\ deleted' \subseteq Decls /\ strategy' \in {"open", "closed"}
        BY DEF Kept, RecordTypes
    <2> QED BY <1>1, <1>2, <2>1, <2>2, <2>3 DEF RecordTypes, Revisions
<1>4. FlowsFit'
    <2>1. ASSUME NEW r \in DOMAIN rounds PROVE FlowFits(r)' BY Known DEF FlowFits, RunsIn
    <2>2. \A r \in (1..MaxRounds) \ DOMAIN rounds : flows'[r] = NoFlow BY DEF Kept, FlowsFit
    <2> QED BY <2>1, <2>2 DEF FlowsFit
<1>5. TaskFits' BY DEF Kept, TaskFits
<1> QED BY <1>3, <1>4, <1>5 DEF Kept

LEMMA OpenCloseoutKept ==
    ASSUME Kept, NEW r \in DOMAIN rounds, NEW kind \in Results, OpenCloseout(r, kind),
           closing = NotClosing, task.phase \in {"plan", "done"}
    PROVE  Kept'
<1> DEFINE c == [round |-> r, kind |-> kind, todo |-> RefsOf(r), decls |-> decls, rounds |-> rounds]
<1>1. AllowedResult(r, kind) /\ closing' = c BY DEF OpenCloseout
<1>2. UNCHANGED <<decls, deleted, strategy, rounds, flows, task, tasks, unreviewed, lost, orphans, cut>>
    BY DEF OpenCloseout, graph, calls, ghost
<1>3. r \in Current BY <1>1 DEF AllowedResult, Current, Unfinished
<1>4. c \in Closeouts BY Known DEF Closeouts, RefsOf, Revisions
<1>5. RecordsFit(decls, rounds, orphans \cup InRounds(rounds, cut)) BY ExcusedThen DEF Kept
<1>6. /\ c.round = r /\ c.kind = kind /\ c.todo = RefsOf(r) /\ c.decls = decls /\ c.rounds = rounds
    OBVIOUS
<1> HIDE DEF c
<1>7. RecordsFit(decls', rounds', Excused')
    <2>1. orphans \cup InRounds(rounds, cut) \subseteq Excused' BY <1>2 DEF Excused, InRounds
    <2> QED BY <1>2, <1>5, <2>1, MoreExcused
<1>8. \A q \in DOMAIN rounds : rounds[q].marker <= flows[q].attempt BY DEF Kept, RecordTypes
<1>9. task.outcome = "ready" => Current' = {} BY <1>2 DEF Current, Kept, TaskFits
<1>10. CloseoutFits'
    <2>1. r \in Current' /\ task' = task BY <1>2, <1>3 DEF Current
    <2>2. RecordsFit(closing.decls, closing.rounds, orphans \cup InRounds(closing.rounds, cut))'
        BY <1>1, <1>2, <1>5, <1>6
    <2>3. RoundsFound' BY <1>1, <1>2, <1>6, <1>8 DEF RoundsFound, Found, AllowedResult
    <2>4. RevisionsFound'
        <3>1. \A d \in Decls : \A i \in DOMAIN decls[d] : decls[d][i].state \in Nat
            BY Known, LastIn, RevisionNumbers
        <3>2. (RefsOf(closing.round) \ closing.todo)' = {} BY <1>1, <1>2, <1>6 DEF RefsOf
        <3> QED BY <1>1, <1>2, <1>6, <3>1, <3>2 DEF RevisionsFound
    <2> QED BY <1>1, <1>6, <2>1, <2>2, <2>3, <2>4 DEF CloseoutFits
<1>11. (closing \in Closeouts /\ closing.todo \subseteq RefsOf(closing.round))'
    BY <1>1, <1>2, <1>4, <1>6 DEF Closeouts, RefsOf
<1>12. cut \subseteq DOMAIN rounds BY DEF Kept, RecordTypes
<1> QED BY <1>2, <1>7, <1>8, <1>9, <1>10, <1>11, <1>12, CloseoutMoves

\* What is known of a closeout.
LEMMA CloseoutKnown ==
    ASSUME Kept, Closing
    PROVE  /\ closing \in Closeouts /\ closing.round \in DOMAIN rounds /\ closing.kind \in Results
           /\ closing.todo \subseteq RefsOf(closing.round)
           /\ task.phase \in {"plan", "done"} /\ Current = {closing.round} /\ task.outcome # "ready"
           /\ closing.decls \in Revisions /\ closing.rounds \in Seq(Round)
           /\ RecordsFit(closing.decls, closing.rounds, orphans \cup InRounds(closing.rounds, cut))
           /\ RoundsFound /\ RevisionsFound
           /\ RefsOf(closing.round) \subseteq Excused
           /\ flows[closing.round].targets \subseteq RefsOf(closing.round)
           /\ \A r \in DOMAIN rounds : rounds[r].marker <= flows[r].attempt
           /\ cut \subseteq DOMAIN rounds
<1>1. closing \in Closeouts /\ closing.todo \subseteq RefsOf(closing.round) BY DEF Kept, RecordTypes
<1>2. /\ closing.round \in DOMAIN rounds /\ closing.kind \in Results
      /\ closing.decls \in Revisions /\ closing.rounds \in Seq(Round)
    BY <1>1 DEF Closeouts, Revisions
<1>3. /\ task.phase \in {"plan", "done"} /\ closing.round \in Current
      /\ RecordsFit(closing.decls, closing.rounds, orphans \cup InRounds(closing.rounds, cut))
      /\ RoundsFound /\ RevisionsFound
    BY DEF Kept, CloseoutFits
<1>4. Current = {closing.round} BY <1>3, Known
<1>5. task.outcome # "ready" BY <1>3 DEF Kept, TaskFits
<1>6. RefsOf(closing.round) \subseteq Excused BY <1>2 DEF Excused, InRounds, RefsOf, Refs
<1>7. /\ flows[closing.round].targets \subseteq RefsOf(closing.round)
      /\ \A r \in DOMAIN rounds : rounds[r].marker <= flows[r].attempt
      /\ cut \subseteq DOMAIN rounds
    BY <1>2 DEF Kept, RecordTypes
<1> QED BY <1>1, <1>2, <1>3, <1>4, <1>5, <1>6, <1>7

LEMMA CommitRevisionKept ==
    ASSUME Kept, NEW d \in Decls, CommitRevision(d)
    PROVE  Kept'
<1> DEFINE r == closing.round
           n == Len(decls[d])
           v == [decls[d][n] EXCEPT !.open = FALSE]
           s == [decls[d] EXCEPT ![n] = v]
<1>1. /\ Closing /\ d \in closing.todo /\ n = rounds[r].refs[d] /\ HeadOf(d).open
      /\ decls' = [decls EXCEPT ![d][Len(decls[d])].open = FALSE]
      /\ closing' = [closing EXCEPT !.todo = @ \ {d}]
    BY DEF CommitRevision, OpenHead
<1>2. UNCHANGED <<deleted, strategy, rounds, flows, task, tasks, unreviewed, lost, orphans, cut>>
    BY DEF CommitRevision, calls, ghost
<1>3. d \in RefsOf(r) /\ r \in DOMAIN rounds BY <1>1, CloseoutKnown
<1>4. decls[d] \in Seq(Revision) /\ n \in DOMAIN decls[d] /\ decls[d] # <<>>
    <2>1. n \in DOMAIN decls[d] BY <1>1, <1>3 DEF Kept, RecordTypes
    <2> QED BY <2>1, Known, EmptySeq
<1>5. decls[d][n] \in Revision BY <1>4, LastIn
<1>6. /\ v \in Revision /\ ~v.open /\ v.state = decls[d][n].state /\ v.goal = decls[d][n].goal
    BY <1>5 DEF Revision
<1>7. decls' = [decls EXCEPT ![d] = s] BY <1>1, <1>4, <1>5, Known DEF Revision, Revisions
<1> HIDE DEF v
<1>8. /\ s \in Seq(Revision) /\ Len(s) = Len(decls[d]) /\ DOMAIN s = DOMAIN decls[d] /\ s[n] = v
      /\ \A i \in DOMAIN decls[d] : i # n => s[i] = decls[d][i]
    BY <1>4, <1>6, Replaced
<1> HIDE DEF s
<1>9. /\ decls' \in Revisions /\ decls'[d] = s /\ \A e \in Decls \ {d} : decls'[e] = decls[e]
    BY <1>7, <1>8, Known DEF Revisions
<1>10. \A e \in Decls :
          /\ decls[e] \in Seq(Revision) /\ Len(decls'[e]) = Len(decls[e]) /\ DOMAIN decls'[e] = DOMAIN decls[e]
          /\ \A i \in DOMAIN decls[e] :
                /\ decls[e][i].state \in Nat
                /\ decls'[e][i].goal = decls[e][i].goal /\ decls'[e][i].state = decls[e][i].state
                /\ decls'[e][i].open => decls[e][i].open
                /\ ~(e = d /\ i = n) => decls'[e][i] = decls[e][i]
    <2>1. \A e \in Decls : \A i \in DOMAIN decls[e] : decls[e][i].state \in Nat
        BY Known, LastIn, RevisionNumbers
    <2> QED BY <1>6, <1>8, <1>9, <2>1, Known
<1>11. d \in Excused BY <1>1, <1>3, CloseoutKnown
<1>12. closing \in Closeouts BY <1>1, CloseoutKnown
<1>13. /\ closing'.round = r /\ closing'.kind = closing.kind /\ closing'.todo = closing.todo \ {d}
       /\ closing'.decls = closing.decls /\ closing'.rounds = closing.rounds /\ closing' \in Closeouts
    BY <1>1, <1>12 DEF Closeouts
<1>14. RecordsFit(decls', rounds', Excused')
    <2>1. \A e \in Decls : \A i \in DOMAIN decls[e] :
             /\ decls'[e][i].goal = decls[e][i].goal /\ decls'[e][i].state >= decls[e][i].state
             /\ decls'[e][i].open => decls[e][i].open
             /\ e \notin Excused => decls'[e][i].open = decls[e][i].open
        BY <1>10, <1>11
    <2>2. RecordsFit(decls, rounds, Excused) BY DEF Kept
    <2>3. \A e \in Decls : Len(decls'[e]) = Len(decls[e]) BY <1>10
    <2>4. RecordsFit(decls', rounds, Excused) BY <1>9, <2>1, <2>2, <2>3, RevisionsChange
    <2>5. Excused' = Excused BY <1>2, <1>13 DEF Excused
    <2> QED BY <1>2, <2>4, <2>5
<1>15. CloseoutFits'
    <2>1. Current' = Current BY <1>2 DEF Current
    <2>2. RoundsFound'
        <3>1. RoundsFound BY <1>1, CloseoutKnown
        <3> QED BY <1>2, <1>13, <3>1 DEF RoundsFound, Found, AllowedResult
    <2>3. RevisionsFound'
        <3>1. RevisionsFound BY <1>1, CloseoutKnown
        <3>2. RefsOf(r)' = RefsOf(r) BY <1>2, <1>13 DEF RefsOf
        <3>3. ASSUME NEW e \in Decls
              PROVE  /\ Len(closing.decls[e]) = Len(decls'[e])
                     /\ \A i \in DOMAIN decls'[e] :
                           /\ closing.decls[e][i].state <= decls'[e][i].state
                           /\ closing.decls[e][i] # decls'[e][i] => e \in RefsOf(r) /\ i = rounds[r].refs[e]
                           /\ closing.decls[e][i].open # decls'[e][i].open =>
                                 e \in RefsOf(r) \ (closing.todo \ {d})
            <4>1. CASE e = d
                <5>1. /\ Len(closing.decls[d]) = Len(decls[d])
                      /\ \A i \in DOMAIN decls[d] :
                            /\ closing.decls[d][i].state <= decls[d][i].state
                            /\ closing.decls[d][i] # decls[d][i] => i = n
                            /\ closing.decls[d][i].open = decls[d][i].open
                    BY <1>1, <3>1 DEF RevisionsFound
                <5>2. /\ Len(decls'[d]) = Len(decls[d]) /\ DOMAIN decls'[d] = DOMAIN decls[d]
                      /\ \A i \in DOMAIN decls[d] :
                            /\ decls'[d][i].state = decls[d][i].state
                            /\ i # n => decls'[d][i] = decls[d][i]
                    BY <1>10
                <5>3. d \in RefsOf(r) \ (closing.todo \ {d}) /\ n = rounds[r].refs[d] BY <1>1, <1>3
                <5>4. ASSUME NEW i \in DOMAIN decls[d]
                      PROVE  /\ closing.decls[d][i].state <= decls'[d][i].state
                             /\ closing.decls[d][i] # decls'[d][i] => i = n
                    BY <5>1, <5>2
                <5> HIDE DEF n
                <5> QED BY <4>1, <5>1, <5>2, <5>3, <5>4
            <4>2. CASE e # d BY <1>10, <3>1, <4>2 DEF RevisionsFound
            <4> QED BY <4>1, <4>2
        <3>4. ASSUME NEW e \in RefsOf(r) \ (closing.todo \ {d})
              PROVE  rounds[r].refs[e] = Len(decls'[e]) /\ ~HeadOf(e)'.open
            <4>1. CASE e = d BY <1>1, <1>6, <1>8, <1>9, <4>1 DEF HeadOf
            <4>2. CASE e # d
                <5>1. e \in Decls BY DEF RefsOf
                <5> QED BY <1>9, <3>1, <4>2, <5>1 DEF RevisionsFound, HeadOf
            <4> QED BY <4>1, <4>2
        <3> QED BY <1>2, <1>13, <3>2, <3>3, <3>4 DEF RevisionsFound
    <2>4. RecordsFit(closing.decls, closing.rounds, orphans \cup InRounds(closing.rounds, cut))'
        BY <1>1, <1>2, <1>13, CloseoutKnown
    <2>5. task'.phase \in {"plan", "done"} /\ closing'.round \in Current'
        BY <1>1, <1>2, <1>13, <2>1, CloseoutKnown
    <2> QED BY <2>2, <2>3, <2>4, <2>5 DEF CloseoutFits
<1>16. \A q \in DOMAIN rounds : rounds[q].marker <= flows[q].attempt BY <1>1, CloseoutKnown
<1>17. (closing \in Closeouts /\ closing.todo \subseteq RefsOf(closing.round))'
    <2>1. closing.todo \subseteq RefsOf(r) BY <1>1, CloseoutKnown
    <2> QED BY <1>2, <1>13, <2>1 DEF RefsOf, Closeouts
<1> QED BY <1>1, <1>2, <1>14, <1>15, <1>16, <1>17, CloseoutKnown, CloseoutMoves

LEMMA PersistKept ==
    ASSUME Kept, CopiesFit, Persist, ~dropped'
    PROVE  Kept'
<1> DEFINE r == closing.round
           round2 == [rounds[r] EXCEPT !.status = "committed", !.result = closing.kind]
<1>1. /\ Closing /\ closing.todo = {} /\ rounds[r].status \in {"draft", "awaiting"}
      /\ rounds' = [rounds EXCEPT ![r] = round2]
      /\ closing' = NotClosing /\ unreviewed' \subseteq unreviewed /\ ~Closing'
      /\ UNCHANGED <<decls, deleted, strategy, flows, task, tasks, lost, orphans, cut>>
    <2>1. /\ Closing /\ closing.todo = {} /\ planCopy.record.status \in {"draft", "awaiting"}
        BY DEF Persist, CopiesFit, PlanCopyFits
    <2>2. rounds[r] = planCopy.record /\ rounds' = [rounds EXCEPT ![r] = round2]
        <3> DEFINE w   == planCopy.record
                   new == [w EXCEPT !.status = "committed", !.result = closing.kind]
        <3>1. Save(r, w, new) BY DEF Persist
        <3>2. w = rounds[r] => new = round2 OBVIOUS
        <3> HIDE DEF w, new, r, round2
        <3>3. rounds' = [rounds EXCEPT ![r] = new] /\ rounds[r] = w BY <3>1, SaveFinds
        <3>4. new = round2 BY <3>2, <3>3
        <3> QED BY <3>3, <3>4 DEF w
    <2> QED BY <2>1, <2>2 DEF Persist, Closing
<1>2. /\ r \in DOMAIN rounds /\ closing.kind \in Results /\ RoundsFound /\ RevisionsFound
      /\ RefsOf(r) \subseteq Excused /\ task.outcome # "ready"
    BY <1>1, CloseoutKnown
<1>3. rounds[r] \in Round /\ ResultFits(decls, rounds[r]) BY <1>2, Known
<1>4. /\ round2 \in Round /\ round2.refs = rounds[r].refs /\ round2.status = "committed"
      /\ round2.result = closing.kind /\ round2.exec = rounds[r].exec /\ round2.marker = rounds[r].marker
      /\ rounds' = [rounds EXCEPT ![r] = round2]
    BY <1>1, <1>2, <1>3 DEF Round
<1> HIDE DEF round2
<1>5. /\ DOMAIN rounds' = DOMAIN rounds /\ rounds'[r] = round2
      /\ \A q \in DOMAIN rounds : q # r => rounds'[q] = rounds[q]
    BY <1>2, <1>4, Replaced, Known
<1>6. ResultFits(decls, round2)
    <2>1. Refs(round2) = Refs(rounds[r]) BY <1>4 DEF Refs
    <2>2. /\ closing.kind = "success" => rounds[r].exec = "success"
          /\ rounds[r].exec = "none" => closing.kind # "success"
          /\ rounds[r].exec # "none" => Rank(closing.kind) <= Rank(rounds[r].exec)
        <3>1. CASE AllowedResult(r, closing.kind)
            <4>1. rounds[r].status = "draft" => rounds[r].exec = "none" /\ closing.kind # "success"
                BY <1>3, <3>1 DEF ResultFits, AllowedResult
            <4>2. rounds[r].status = "awaiting" =>
                     rounds[r].exec \in Results /\ Rank(closing.kind) <= Rank(rounds[r].exec)
                BY <1>3, <3>1 DEF ResultFits, AllowedResult, Round
            <4> QED BY <1>1, <1>2, <4>1, <4>2 DEF Rank, Results
        <3>2. CASE closing.kind = "failed" BY <1>3, <3>2 DEF Rank, Results, Round
        <3> QED BY <1>2, <3>1, <3>2 DEF RoundsFound
    <2> QED BY <1>1, <1>3, <1>4, <2>1, <2>2 DEF ResultFits
<1>7. \A d \in Refs(rounds[r]) : ~Last(decls[d]).open
    BY <1>1, <1>2 DEF RevisionsFound, HeadOf, Last, RefsOf, Refs
<1>8. RecordsFit(decls', rounds', Excused')
    <2>1. RecordsFit(decls, rounds, Excused) BY DEF Kept
    <2>2. \A d \in Refs(round2) \ Excused : ~Last(decls[d]).open BY <1>4, <1>7 DEF Refs
    <2>3. RecordsFit(decls, [rounds EXCEPT ![r] = round2], Excused)
        BY <1>2, <1>4, <1>6, <2>1, <2>2, RoundChanges DEF Unfinished
    <2>4. Live(rounds') = {}
        <3>1. Live(rounds) = {r} BY <1>1, CloseoutKnown, Known
        <3> QED BY <1>4, <1>5, <3>1 DEF Live, Unfinished
    <2>5. \A d \in Excused \ Excused' : d \in Refs(rounds[r])
        <3>1. \A q \in DOMAIN rounds : Refs(rounds'[q]) = Refs(rounds[q]) BY <1>4, <1>5 DEF Refs
        <3> QED BY <1>1, <1>5, <3>1 DEF Excused, InRounds
    <2>6. RecordsFit(decls, rounds', Excused) BY <1>4, <2>3
    <2>7. RecordsFit(decls, rounds', Excused') BY <1>7, <2>4, <2>5, <2>6, LessExcused
    <2> QED BY <1>1, <2>7
<1>9. \A q \in DOMAIN rounds :
         /\ rounds'[q].refs = rounds[q].refs /\ rounds'[q].marker <= flows[q].attempt
         /\ rounds'[q].status \in {"draft", "running"} => rounds'[q].status = rounds[q].status
    BY <1>1, <1>4, <1>5, CloseoutKnown
<1>10. cut' \subseteq DOMAIN rounds BY <1>1, CloseoutKnown
<1>11. CloseoutFits' BY <1>1 DEF CloseoutFits
<1> QED BY <1>1, <1>2, <1>5, <1>8, <1>9, <1>10, <1>11, CloseoutKnown, CloseoutMoves

LEMMA RollBackKept ==
    ASSUME Kept, RollBackCloseout
    PROVE  Kept'
<1>1. /\ Closing /\ decls' = closing.decls /\ rounds' = closing.rounds
      /\ closing' = NotClosing /\ ~Closing'
      /\ UNCHANGED <<deleted, strategy, flows, task, tasks, unreviewed, lost, orphans, cut>>
    BY DEF RollBackCloseout, Closing, calls, ghost
<1>2. /\ closing.round \in DOMAIN rounds /\ RoundsFound /\ task.outcome # "ready" /\ cut \subseteq DOMAIN rounds
      /\ task.phase \in {"plan", "done"}
      /\ RecordsFit(closing.decls, closing.rounds, orphans \cup InRounds(closing.rounds, cut))
      /\ \A r \in DOMAIN rounds : rounds[r].marker <= flows[r].attempt
    BY <1>1, CloseoutKnown
<1>3. RecordsFit(decls', rounds', Excused')
    <2>1. orphans \cup InRounds(closing.rounds, cut) \subseteq Excused'
        BY <1>1 DEF Excused, InRounds
    <2> QED BY <1>1, <1>2, <2>1, MoreExcused
<1>4. DOMAIN rounds' = DOMAIN rounds BY <1>1, <1>2 DEF RoundsFound
<1>5. ASSUME NEW q \in DOMAIN rounds
      PROVE  /\ rounds'[q].refs = rounds[q].refs /\ rounds'[q].marker <= flows[q].attempt
             /\ rounds'[q].status \in {"draft", "running"} => rounds'[q].status = rounds[q].status
    <2>1. CASE q = closing.round BY <1>1, <1>2, <2>1 DEF RoundsFound, Found, AllowedResult
    <2>2. CASE q # closing.round BY <1>1, <1>2, <2>2 DEF RoundsFound
    <2> QED BY <2>1, <2>2
<1>6. CloseoutFits' BY <1>1 DEF CloseoutFits
<1> QED BY <1>1, <1>2, <1>3, <1>4, <1>5, <1>6, CloseoutMoves

\* The process ends in a closeout.
LEMMA CutKept ==
    ASSUME Kept, Closing, Crash
    PROVE  Kept'
<1>1. /\ Closing /\ closing' = NotClosing /\ ~Closing'
      /\ cut' = IF closing.todo = RefsOf(closing.round) THEN cut ELSE cut \cup {closing.round}
      /\ UNCHANGED <<decls, deleted, strategy, rounds, flows, task, tasks, unreviewed, lost, orphans>>
    BY DEF Crash, Closing, graph
<1>2. /\ closing.round \in DOMAIN rounds /\ RoundsFound /\ RevisionsFound /\ task.outcome # "ready"
      /\ cut \subseteq DOMAIN rounds /\ Current = {closing.round}
      /\ task.phase \in {"plan", "done"} /\ closing.decls \in Revisions
      /\ RecordsFit(closing.decls, closing.rounds, orphans \cup InRounds(closing.rounds, cut))
      /\ \A r \in DOMAIN rounds : rounds[r].marker <= flows[r].attempt
    BY <1>1, CloseoutKnown
<1>3. RecordsFit(decls, rounds, Excused) BY DEF Kept
<1>4. RecordsFit(decls', rounds', Excused')
    <2>1. CASE cut' = cut \cup {closing.round}
        <3>1. Excused \subseteq Excused' BY <1>1, <2>1 DEF Excused, InRounds
        <3> QED BY <1>1, <1>3, <3>1, MoreExcused
    <2>2. CASE closing.todo = RefsOf(closing.round) /\ cut' = cut
        <3> DEFINE less == orphans \cup InRounds(rounds, cut)
        <3>1. \A d \in Decls :
                 /\ Len(closing.decls[d]) = Len(decls[d])
                 /\ \A i \in DOMAIN decls[d] : closing.decls[d][i].open = decls[d][i].open
            BY <1>2, <2>2 DEF RevisionsFound
        <3>2. \A d \in Decls :
                 /\ decls[d] # <<>> => closing.decls[d] # <<>> /\ Last(closing.decls[d]).open = Last(decls[d]).open
                 /\ closing.decls[d] # <<>> => decls[d] # <<>>
            BY <1>2, <3>1, Known, LastIn DEF Last, Revisions
        <3>3. /\ DOMAIN closing.rounds = DOMAIN rounds
              /\ \A q \in DOMAIN rounds : closing.rounds[q].refs = rounds[q].refs
              /\ \A q \in DOMAIN rounds : Refs(closing.rounds[q]) = Refs(rounds[q])
            BY <1>2 DEF RoundsFound, Found, Refs
        <3>4. Live(closing.rounds) = Live(rounds)
            <4>1. closing.round \in Live(rounds) BY <1>2, Known
            <4>2. Found.status \in Unfinished BY <1>2, <4>1 DEF RoundsFound, Live, Unfinished
            <4> QED BY <1>2, <4>1, <4>2 DEF RoundsFound, Live, Found
        <3>5. InRounds(closing.rounds, cut) = InRounds(rounds, cut) BY <3>3 DEF InRounds
        <3>6. HeadsFit(closing.decls, closing.rounds, less) BY <1>2, <3>5 DEF RecordsFit
        <3>7. HeadsFit(decls, rounds, Excused) BY <1>3 DEF RecordsFit
        <3>8. HeadsFit(decls, rounds, less)
            <4>1. ASSUME NEW d \in Decls \ less, NEW q \in Live(rounds), d \in Refs(rounds[q])
                  PROVE  rounds[q].refs[d] = Len(decls[d]) /\ Last(decls[d]).open
                <5>1. q \in DOMAIN rounds BY DEF Live
                <5>2. closing.rounds[q].refs[d] = Len(closing.decls[d]) /\ Last(closing.decls[d]).open
                    BY <3>3, <3>4, <3>6, <4>1, <5>1 DEF HeadsFit
                <5>3. decls[d] # <<>>
                    <6>1. rounds[q].refs[d] \in DOMAIN decls[d] BY <1>3, <4>1, <5>1 DEF RecordsFit, RefsFit
                    <6> QED BY <6>1, EmptySeq
                <5> QED BY <3>1, <3>2, <3>3, <5>1, <5>2, <5>3
            <4>2. ASSUME NEW d \in Decls \ less, decls[d] # <<>>, Last(decls[d]).open
                  PROVE  \E q \in Live(rounds) : d \in Refs(rounds[q])
                <5>1. PICK q \in Live(closing.rounds) : d \in Refs(closing.rounds[q])
                    BY <3>2, <3>6, <4>2 DEF HeadsFit
                <5> QED BY <3>3, <3>4, <5>1 DEF Live
            <4> QED BY <3>7, <4>1, <4>2 DEF HeadsFit
        <3>9. RecordsFit(decls, rounds, less) BY <1>3, <3>8 DEF RecordsFit
        <3>10. less \subseteq Excused' BY <1>1, <2>2 DEF Excused, InRounds
        <3> QED BY <1>1, <3>9, <3>10, MoreExcused
    <2> QED BY <1>1, <2>1, <2>2
<1>5. \A q \in DOMAIN rounds :
         /\ rounds'[q].refs = rounds[q].refs /\ rounds'[q].marker <= flows[q].attempt
         /\ rounds'[q].status \in {"draft", "running"} => rounds'[q].status = rounds[q].status
    BY <1>1, <1>2
<1>6. cut' \subseteq DOMAIN rounds /\ DOMAIN rounds' = DOMAIN rounds /\ unreviewed' \subseteq unreviewed
    BY <1>1, <1>2
<1>7. CloseoutFits' BY <1>1 DEF CloseoutFits
<1> QED BY <1>1, <1>2, <1>4, <1>5, <1>6, <1>7, CloseoutMoves

\* The record that is saved is put in its own place.
LEMMA SummaryKept ==
    ASSUME Kept, SummaryWrites, ~dropped'
    PROVE  Kept'
<1>1. rounds' = rounds BY SummaryIsThere
<1> QED BY <1>1, OnlyCopies DEF SummaryWrites

LEMMA CloseoutKept ==
    ASSUME Kept, CopiesFit, Closeout, ~dropped'
    PROVE  Kept'
<1>1. CASE PersistReads BY <1>1, OnlyCopies DEF PersistReads, graph, ghost
<1>2. CASE Crash /\ ~Closing BY <1>2, OnlyCopies DEF Crash, Closing, graph
<1> QED BY <1>1, <1>2, CommitRevisionKept, PersistKept, RollBackKept, CutKept, SummaryKept DEF Closeout

----------------------------------------------------------------------------
(* The round flow and the operator.                                        *)

\* Revisions that round r refers to may be raised, the others stay.
Raised(r) ==
    /\ decls' \in Revisions
    /\ \A d \in Decls :
          /\ Len(decls'[d]) = Len(decls[d])
          /\ \A i \in DOMAIN decls[d] :
                /\ decls'[d][i].goal = decls[d][i].goal /\ decls'[d][i].state >= decls[d][i].state
                /\ decls'[d][i].open = decls[d][i].open
                /\ decls'[d][i] # decls[d][i] => d \in RefsOf(r) /\ i = rounds[r].refs[d]

\* What a flow f of round n may be, by its phase.
Fits(r, n, f) ==
    /\ f.targets \subseteq RefsOf(r)
    /\ f.phase \in {"stage_prepare", "stage_worker", "stage_reviewer", "stage_gate_audit"} => f.stage # 0
    /\ f.phase = "build_result" => f.outcome # "none"
    /\ n.status = "draft" =>
          /\ f.targets = {}
          /\ f.status = "running" =>
                f.phase \in {"round_start", "build_result"} /\ task.phase = "waiting" /\ task.child = r

\* Its relation to the ghosts.
FitsGhosts(r, n, f, unrev, los) ==
    /\ n.status = "running" => f.status = "running" \/ r \in los
    /\ f.status = "running" /\ f.phase = "stage_gate_audit" /\ f.stage \in AgentReviewed
          /\ f.review = "passed" /\ n.status = "running" => f.targets \cap unrev = {}

\* The flow that a round has fits it.
LEMMA FitsNow ==
    ASSUME Kept, NEW r \in DOMAIN rounds
    PROVE  Fits(r, rounds[r], flows[r]) /\ FitsGhosts(r, rounds[r], flows[r], unreviewed, lost)
<1>1. FlowFits(r) BY Known
<1>2. flows[r].targets \subseteq RefsOf(r) /\ (AtAgentStep(r) => flows[r].stage # 0) BY DEF Kept, RecordTypes
<1> QED BY <1>1, <1>2 DEF FlowFits, RunsIn, Fits, FitsGhosts, AtAgentStep

\* A step of round r while its closeout is in progress, or another's.
LEMMA CloseoutGoesOn ==
    ASSUME Kept, Closing, NEW r \in DOMAIN rounds, NEW n \in Round, NEW f \in RoundFlow,
           flows' = [flows EXCEPT ![r] = f], rounds' = [rounds EXCEPT ![r] = n],
           UNCHANGED <<task, closing, orphans, cut>>,
           n.refs = rounds[r].refs, flows[r].attempt <= f.attempt, Raised(r),
           \/ n = rounds[r] /\ decls' = decls
           \/ /\ \/ rounds[r].status = "running"
                 \/ rounds[r].status = "awaiting" /\ rounds[r].exec = "failed"
              /\ n.status \in {"running", "awaiting"}
    PROVE  CloseoutFits'
<1> DEFINE c == closing.round
<1>1. /\ closing \in Closeouts /\ c \in DOMAIN rounds /\ closing.kind \in Results /\ Current = {c}
      /\ task.phase \in {"plan", "done"} /\ RoundsFound /\ RevisionsFound
      /\ closing.decls \in Revisions
      /\ RecordsFit(closing.decls, closing.rounds, orphans \cup InRounds(closing.rounds, cut))
    BY CloseoutKnown
<1>2. /\ DOMAIN rounds' = DOMAIN rounds /\ rounds'[r] = n
      /\ \A q \in DOMAIN rounds : q # r => rounds'[q] = rounds[q]
    BY Replaced, Known
<1>3. flows'[r] = f /\ \A q \in DOMAIN rounds : q # r => flows'[q] = flows[q]
    BY Known DEF Kept, RecordTypes
<1>4. rounds[r].status \in Unfinished => r = c BY <1>1 DEF Current
<1>5. c \in Current' BY <1>1, <1>2 DEF Current, Unfinished
<1>6. Found' = Found BY DEF Found
<1>7. Found.marker <= flows'[c].attempt
    <2>1. Found.marker <= flows[c].attempt BY <1>1 DEF RoundsFound
    <2>2. CASE r = c
        <3>1. Found \in Round
            <4>1. c \in DOMAIN closing.rounds /\ closing.rounds \in Seq(Round)
                BY <1>1 DEF RoundsFound, Closeouts
            <4> QED BY <4>1, LastIn DEF Found
        <3>2. Found.marker \in Nat /\ flows[c].attempt \in Nat /\ f.attempt \in Nat
            BY <1>1, <3>1, Known DEF Round, RoundFlow
        <3> QED BY <1>3, <2>1, <2>2, <3>2
    <2>3. CASE r # c BY <1>1, <1>3, <2>1, <2>3
    <2> QED BY <2>2, <2>3
<1>8. RoundsFound'
    <2>1. /\ DOMAIN closing.rounds = DOMAIN rounds /\ Found.refs = rounds[c].refs
          /\ \A q \in DOMAIN rounds \ {c} : closing.rounds[q] = rounds[q]
          /\ \/ rounds[c] = Found /\ AllowedResult(c, closing.kind)
             \/ Found.status = "awaiting" /\ rounds[c].status # "draft" /\ closing.kind = "failed"
        BY <1>1 DEF RoundsFound
    <2>2. CASE n = rounds[r]
        <3>1. \A q \in DOMAIN rounds : rounds'[q] = rounds[q] BY <1>2, <2>2
        <3> QED BY <1>1, <1>2, <1>6, <1>7, <2>1, <3>1 DEF RoundsFound, AllowedResult
    <2>3. CASE n # rounds[r]
        <3>1. r = c BY <1>4, <2>3 DEF Unfinished
        <3>2. Found.status = "awaiting" /\ closing.kind = "failed"
            BY <1>1, <2>1, <2>3, <3>1 DEF AllowedResult, Rank, Results
        <3>3. \A q \in DOMAIN rounds \ {c} : closing.rounds[q] = rounds'[q] BY <1>2, <2>1, <3>1
        <3>4. n.status # "draft" BY <2>3
        <3> QED BY <1>1, <1>2, <1>6, <1>7, <2>1, <3>1, <3>2, <3>3, <3>4 DEF RoundsFound
    <2> QED BY <2>2, <2>3
<1>9. RefsOf(c)' = RefsOf(c) /\ rounds'[c].refs = rounds[c].refs BY <1>1, <1>2 DEF RefsOf
<1>10. RevisionsFound'
    <2>1. CASE decls' = decls BY <1>1, <1>9, <2>1 DEF RevisionsFound, HeadOf
    <2>2. CASE decls' # decls
        <3>1. r = c BY <1>4, <2>2 DEF Unfinished
        <3>2. ASSUME NEW d \in Decls
              PROVE  /\ Len(closing.decls[d]) = Len(decls'[d])
                     /\ \A i \in DOMAIN decls'[d] :
                           /\ closing.decls[d][i].state <= decls'[d][i].state
                           /\ closing.decls[d][i] # decls'[d][i] => d \in RefsOf(c) /\ i = rounds[c].refs[d]
                           /\ closing.decls[d][i].open # decls'[d][i].open => d \in RefsOf(c) \ closing.todo
            <4>1. /\ Len(decls'[d]) = Len(decls[d]) /\ DOMAIN decls'[d] = DOMAIN decls[d]
                  /\ \A i \in DOMAIN decls[d] :
                        /\ decls'[d][i].state >= decls[d][i].state /\ decls'[d][i].open = decls[d][i].open
                        /\ decls'[d][i] # decls[d][i] => d \in RefsOf(c) /\ i = rounds[c].refs[d]
                BY <3>1, Known, LastIn DEF Raised, Revisions
            <4>2. /\ Len(closing.decls[d]) = Len(decls[d])
                  /\ \A i \in DOMAIN decls[d] :
                        /\ closing.decls[d][i].state <= decls[d][i].state
                        /\ closing.decls[d][i] # decls[d][i] => d \in RefsOf(c) /\ i = rounds[c].refs[d]
                        /\ closing.decls[d][i].open # decls[d][i].open => d \in RefsOf(c) \ closing.todo
                BY <1>1 DEF RevisionsFound
            <4>3. \A i \in DOMAIN decls[d] :
                     decls[d][i].state \in Nat /\ closing.decls[d][i].state \in Nat /\ decls'[d][i].state \in Nat
                <5>1. decls'[d] \in Seq(Revision) /\ closing.decls[d] \in Seq(Revision) /\ decls[d] \in Seq(Revision)
                    BY <1>1, Known DEF Raised, Revisions
                <5> QED BY <4>1, <4>2, <5>1, LastIn, RevisionNumbers
            <4> QED BY <4>1, <4>2, <4>3
        <3>3. ASSUME NEW d \in RefsOf(c) \ closing.todo
              PROVE  rounds[c].refs[d] = Len(decls'[d]) /\ ~HeadOf(d)'.open
            <4>1. d \in Decls /\ rounds[c].refs[d] = Len(decls[d]) /\ ~HeadOf(d).open
                BY <1>1 DEF RevisionsFound, RefsOf
            <4>2. Len(decls[d]) \in DOMAIN decls[d] BY <1>1, <4>1 DEF Kept, RecordTypes
            <4> QED BY <4>1, <4>2 DEF Raised, HeadOf
        <3> QED BY <1>9, <3>2, <3>3 DEF RevisionsFound
    <2> QED BY <2>1, <2>2
<1> QED BY <1>1, <1>5, <1>8, <1>10 DEF CloseoutFits

\* What a step of round r has to show.
LEMMA RoundMoves ==
    ASSUME Kept, NEW r \in DOMAIN rounds, NEW n \in Round, NEW f \in RoundFlow,
           flows' = [flows EXCEPT ![r] = f], rounds' = [rounds EXCEPT ![r] = n],
           UNCHANGED <<deleted, strategy, task, tasks, closing, orphans, cut>>,
           n.refs = rounds[r].refs, n.marker <= f.attempt, flows[r].attempt <= f.attempt, Raised(r),
           Fits(r, n, f), FitsGhosts(r, n, f, unreviewed', lost'), ResultFits(decls', n),
           n = rounds[r] \/ n.status \in {"running", "awaiting"},
           n # rounds[r] =>
              \/ rounds[r].status = "running"
              \/ rounds[r].status = "draft" /\ task.phase = "waiting"
              \/ rounds[r].status = "awaiting" /\ rounds[r].exec = "failed",
           decls' # decls => rounds[r].status = "running" /\ n.status = "running",
           unreviewed' \subseteq Decls, unreviewed' \subseteq unreviewed \/ rounds[r].status = "running",
           lost' \subseteq DOMAIN rounds, lost \ {r} \subseteq lost'
    PROVE  Kept'
<1>1. /\ DOMAIN rounds' = DOMAIN rounds /\ rounds'[r] = n /\ Len(rounds') = Len(rounds)
      /\ \A q \in DOMAIN rounds : q # r => rounds'[q] = rounds[q]
    BY Replaced, Known
<1>2. /\ flows'[r] = f /\ flows' \in [1..MaxRounds -> RoundFlow]
      /\ \A q \in 1..MaxRounds : q # r => flows'[q] = flows[q]
    BY Known DEF Kept, RecordTypes
<1>3. \A q \in DOMAIN rounds : rounds'[q].refs = rounds[q].refs /\ RefsOf(q)' = RefsOf(q)
    BY <1>1 DEF RefsOf
<1>4. n # rounds[r] => rounds[r].status \in Unfinished /\ n.status \in Unfinished BY DEF Unfinished
<1>5. RecordsFit(decls', rounds', Excused')
    <2>1. RecordsFit(decls, rounds, Excused) BY DEF Kept
    <2>2. /\ decls' \in Revisions /\ \A d \in Decls : Len(decls'[d]) = Len(decls[d])
          /\ \A d \in Decls : \A i \in DOMAIN decls[d] :
                /\ decls'[d][i].goal = decls[d][i].goal /\ decls'[d][i].state >= decls[d][i].state
                /\ decls'[d][i].open => decls[d][i].open
                /\ d \notin Excused => decls'[d][i].open = decls[d][i].open
        BY DEF Raised
    <2>3. RecordsFit(decls', rounds, Excused) BY <2>1, <2>2, RevisionsChange
    <2>4. RecordsFit(decls', rounds', Excused)
        <3>1. CASE n = rounds[r]
            <4>1. rounds' = rounds BY <3>1, Known
            <4> QED BY <2>3, <4>1
        <3>2. CASE n # rounds[r] BY <1>4, <2>3, <3>2, RoundChanges
        <3> QED BY <3>1, <3>2
    <2>5. Excused' = Excused
        <3>1. \A q \in DOMAIN rounds : Refs(rounds'[q]) = Refs(rounds[q]) BY <1>3 DEF Refs
        <3> QED BY <1>1, <3>1 DEF Excused, InRounds
    <2> QED BY <2>4, <2>5
<1>6. decls' \in Revisions /\ rounds' \in Seq(Round) /\ RefsFit(decls', rounds') BY <1>5 DEF RecordsFit
<1>7. RecordTypes'
    <2>1. ASSUME NEW q \in DOMAIN rounds'
          PROVE  /\ rounds'[q].marker <= flows'[q].attempt
                 /\ \A d \in RefsOf(q)' : rounds'[q].refs[d] \in DOMAIN decls'[d]
                 /\ flows'[q].targets \subseteq RefsOf(q)'
                 /\ AtAgentStep(q)' => flows'[q].stage # 0
        <3>1. \A d \in RefsOf(q)' : rounds'[q].refs[d] \in DOMAIN decls'[d]
            BY <1>6 DEF RefsFit, Refs, RefsOf
        <3>2. CASE q = r BY <1>1, <1>2, <1>3, <3>1, <3>2 DEF Fits, AtAgentStep
        <3>3. CASE q # r
            <4>1. rounds'[q] = rounds[q] /\ flows'[q] = flows[q] /\ q \in DOMAIN rounds
                BY <1>1, <1>2, <3>3, Known
            <4>2. /\ rounds[q].marker <= flows[q].attempt /\ flows[q].targets \subseteq RefsOf(q)
                  /\ AtAgentStep(q) => flows[q].stage # 0
                BY <4>1 DEF Kept, RecordTypes
            <4> QED BY <1>3, <3>1, <4>1, <4>2 DEF AtAgentStep
        <3> QED BY <3>2, <3>3
    <2>2. task' \in Task' BY <1>1 DEF Kept, RecordTypes, Task
    <2>3. Closing' => closing' \in Closeouts' /\ closing'.todo \subseteq RefsOf(closing.round)'
        <3> SUFFICES ASSUME Closing PROVE closing \in Closeouts' /\ closing.todo \subseteq RefsOf(closing.round)'
            BY DEF Closing
        <3>1. closing \in Closeouts /\ closing.todo \subseteq RefsOf(closing.round) /\ closing.round \in DOMAIN rounds
            BY CloseoutKnown
        <3> QED BY <1>1, <1>3, <3>1 DEF Closeouts
    <2>4. /\ (unreviewed \cup orphans)' \subseteq Decls /\ (lost \cup cut)' \subseteq DOMAIN rounds'
          /\ tasks' \in 1..MaxTasks /\ deleted' \subseteq Decls /\ strategy' \in {"open", "closed"}
          /\ Len(rounds') <= MaxRounds
        BY <1>1 DEF Kept, RecordTypes
    <2> QED BY <1>2, <1>6, <2>1, <2>2, <2>3, <2>4 DEF RecordTypes, Revisions
<1>8. FlowsFit'
    <2>1. FlowFits(r)' BY <1>1, <1>2 DEF FlowFits, RunsIn, Fits, FitsGhosts
    <2>2. ASSUME NEW q \in DOMAIN rounds, q # r PROVE FlowFits(q)'
        <3>1. rounds'[q] = rounds[q] /\ flows'[q] = flows[q] BY <1>1, <1>2, <2>2, Known
        <3>2. FlowFits(q) BY Known
        <3>3. rounds[q].status = "running" => unreviewed' \subseteq unreviewed
            BY <2>2, Known DEF Live, Unfinished
        <3> QED BY <2>2, <3>1, <3>2, <3>3 DEF FlowFits, RunsIn
    <2>3. \A q \in (1..MaxRounds) \ DOMAIN rounds : flows'[q] = NoFlow BY <1>2 DEF Kept, FlowsFit
    <2> QED BY <1>1, <2>1, <2>2, <2>3 DEF FlowsFit
<1>9. TaskFits'
    <2>1. TaskFits BY DEF Kept
    <2>2. Current = {} => Current' = {} BY <1>1, <1>4 DEF Current
    <2>3. task.phase \in {"ensure", "dispatch"} => rounds'[task.child].status = "draft"
        <3> SUFFICES ASSUME task.phase \in {"ensure", "dispatch"} PROVE rounds'[task.child].status = "draft"
            OBVIOUS
        <3>1. task.child \in DOMAIN rounds /\ rounds[task.child].status = "draft"
            BY DEF Kept, RecordTypes, Task, TaskFits
        <3>2. task.child = r => n = rounds[r] BY <3>1
        <3> QED BY <1>1, <3>1, <3>2
    <2> QED BY <2>1, <2>2, <2>3 DEF TaskFits
<1>10. CloseoutFits'
    <2>1. CASE Closing
        <3>1. task.phase # "waiting" BY <2>1, CloseoutKnown
        <3> QED BY <2>1, <3>1, CloseoutGoesOn
    <2>2. CASE ~Closing BY <2>2 DEF CloseoutFits, Closing
    <2> QED BY <2>1, <2>2
<1> QED BY <1>5, <1>7, <1>8, <1>9, <1>10 DEF Kept

\* A step that writes neither the records nor the attempt.
LEMMA FlowMoves ==
    ASSUME Kept, NEW r \in DOMAIN rounds, NEW f \in RoundFlow,
           flows' = [flows EXCEPT ![r] = f], UNCHANGED <<graph, task, tasks, closing, orphans, cut>>,
           f.attempt = flows[r].attempt,
           Fits(r, rounds[r], f), FitsGhosts(r, rounds[r], f, unreviewed', lost'),
           unreviewed' \subseteq Decls, unreviewed' \subseteq unreviewed \/ rounds[r].status = "running",
           lost' \subseteq DOMAIN rounds, lost \subseteq lost'
    PROVE  Kept'
<1> DEFINE n == rounds[r]
<1>1. /\ n \in Round /\ rounds' = [rounds EXCEPT ![r] = n] /\ ResultFits(decls, n) /\ decls \in Revisions
      /\ UNCHANGED <<decls, deleted, strategy>> /\ flows[r] \in RoundFlow
    BY Known DEF graph
<1>2. Raised(r)
    <2>1. \A d \in Decls : \A i \in DOMAIN decls[d] : decls[d][i].state \in Nat
        BY Known, LastIn, RevisionNumbers
    <2> QED BY <1>1, <2>1 DEF Raised
<1>3. n.marker <= f.attempt /\ flows[r].attempt <= f.attempt
    BY <1>1 DEF Kept, RecordTypes, RoundFlow
<1>4. ResultFits(decls', n) /\ n.refs = rounds[r].refs /\ lost \ {r} \subseteq lost' /\ decls' = decls
    BY <1>1
<1>5. Fits(r, n, f) /\ FitsGhosts(r, n, f, unreviewed', lost') /\ n = rounds[r] OBVIOUS
<1> HIDE DEF n
<1> QED BY <1>1, <1>2, <1>3, <1>4, <1>5, RoundMoves

\* What the operators that build the next state of a flow return.
LEMMA Built ==
    ASSUME NEW f \in RoundFlow, NEW outcome \in Results
    PROVE  LET g == ToBuild(f, outcome)
           IN  /\ g \in RoundFlow /\ g.status = "running" /\ g.phase = "build_result" /\ g.outcome = outcome
               /\ g.targets = {} /\ g.attempt = f.attempt
<1>1. NewFlow \in RoundFlow /\ NewFlow.status = "running" /\ NewFlow.targets = {}
    BY StageAssumption DEF NewFlow, RoundFlow
<1>2. f.attempt \in Nat BY DEF RoundFlow
<1> QED BY <1>1, <1>2 DEF ToBuild, RoundFlow

LEMMA NoFlowIs == NoFlow \in RoundFlow /\ NoFlow.phase = "round_start" /\ NoFlow.targets = {}
<1>1. NewFlow \in RoundFlow /\ NewFlow.phase = "round_start" /\ NewFlow.targets = {}
    BY StageAssumption DEF NewFlow, RoundFlow
<1> QED BY <1>1 DEF NoFlow, RoundFlow

LEMMA EndedSo ==
    ASSUME NEW f \in RoundFlow, NEW status \in {"completed", "failed"}
    PROVE  LET g == Ended(f, status)
           IN  /\ g \in RoundFlow /\ g.status = status /\ g.phase = "round_start"
               /\ g.targets = {} /\ g.attempt = f.attempt
<1>1. f.attempt \in Nat BY DEF RoundFlow
<1> QED BY <1>1, NoFlowIs DEF Ended, RoundFlow

LEMMA NextStageOf ==
    ASSUME NEW f \in RoundFlow
    PROVE  LET g == ToNextStage(f)
           IN  /\ g \in RoundFlow /\ g.status = f.status /\ g.targets = {} /\ g.attempt = f.attempt
               /\ g.phase = "final_audit" \/ (g.phase = "stage_prepare" /\ g.stage # 0)
<1>1. CASE f.stage = LastStage
    <2>1. ToNextStage(f) = [f EXCEPT !.phase = "final_audit", !.stage = 0, !.targets = {}]
        BY <1>1 DEF ToNextStage
    <2>2. 0 \in 0..LastStage BY StageAssumption
    <2>3. [f EXCEPT !.phase = "final_audit", !.stage = 0, !.targets = {}] \in RoundFlow BY <2>2 DEF RoundFlow
    <2> QED BY <2>1, <2>3 DEF RoundFlow
<1>2. CASE f.stage # LastStage
    <2>1. f.stage + 1 \in 0..LastStage /\ f.stage + 1 # 0 BY <1>2, StageAssumption DEF RoundFlow
    <2> QED BY <1>2, <2>1 DEF ToNextStage, RoundFlow
<1> QED BY <1>1, <1>2

\* What a flow that runs may show.
LEMMA RunningKnown ==
    ASSUME Kept, NEW r \in DOMAIN rounds, flows[r].status = "running"
    PROVE  /\ flows[r] \in RoundFlow /\ rounds[r] \in Round /\ ResultFits(decls, rounds[r])
           /\ flows[r].targets \subseteq RefsOf(r)
           /\ Fits(r, rounds[r], flows[r]) /\ FitsGhosts(r, rounds[r], flows[r], unreviewed, lost)
           /\ rounds[r].status = "draft" =>
                 flows[r].phase \in {"round_start", "build_result"} /\ task.phase = "waiting" /\ task.child = r
           /\ rounds[r].status = "draft" => ~Closing
           /\ rounds[r].marker <= flows[r].attempt /\ flows[r].attempt \in Nat
           /\ unreviewed \subseteq Decls /\ lost \subseteq DOMAIN rounds
<1>1. flows[r] \in RoundFlow /\ rounds[r] \in Round /\ ResultFits(decls, rounds[r]) BY Known
<1>2. Fits(r, rounds[r], flows[r]) /\ FitsGhosts(r, rounds[r], flows[r], unreviewed, lost) BY FitsNow
<1>3. rounds[r].status = "draft" =>
         flows[r].phase \in {"round_start", "build_result"} /\ task.phase = "waiting" /\ task.child = r
    BY <1>2 DEF Fits
<1>4. rounds[r].status = "draft" => ~Closing BY <1>3, CloseoutKnown
<1>5. rounds[r].marker <= flows[r].attempt /\ flows[r].targets \subseteq RefsOf(r)
      /\ unreviewed \subseteq Decls /\ lost \subseteq DOMAIN rounds
    BY DEF Kept, RecordTypes
<1>6. flows[r].attempt \in Nat BY <1>1 DEF RoundFlow
<1> QED BY <1>1, <1>2, <1>3, <1>4, <1>5, <1>6

\* The flow goes to its last step.
LEMMA BuildKept ==
    ASSUME Kept, NEW r \in DOMAIN rounds, flows[r].status = "running", NEW outcome \in Results,
           Flow(r, ToBuild(flows[r], outcome)), UNCHANGED <<graph, task, tasks, closing, lost, orphans, cut>>,
           unreviewed' \subseteq Decls, unreviewed' \subseteq unreviewed \/ rounds[r].status = "running"
    PROVE  Kept'
<1> DEFINE g == ToBuild(flows[r], outcome)
<1>1. /\ g \in RoundFlow /\ g.status = "running" /\ g.phase = "build_result" /\ g.outcome = outcome
      /\ g.targets = {} /\ g.attempt = flows[r].attempt
    BY RunningKnown, Built
<1>2. flows' = [flows EXCEPT ![r] = g] BY DEF Flow
<1> HIDE DEF g
<1>3. Fits(r, rounds[r], g) BY <1>1, RunningKnown DEF Fits, Results
<1>4. FitsGhosts(r, rounds[r], g, unreviewed', lost') BY <1>1 DEF FitsGhosts
<1> QED BY <1>1, <1>2, <1>3, <1>4, RunningKnown, FlowMoves

\* The flow goes to its next stage, or past the last.
LEMMA NextStageKept ==
    ASSUME Kept, NEW r \in DOMAIN rounds, flows[r].status = "running",
           flows[r].phase \notin {"round_start", "build_result"},
           Flow(r, ToNextStage(flows[r])), UNCHANGED <<graph, task, tasks, closing, ghost>>
    PROVE  Kept'
<1> DEFINE g == ToNextStage(flows[r])
<1>1. /\ g \in RoundFlow /\ g.status = "running" /\ g.targets = {} /\ g.attempt = flows[r].attempt
      /\ g.phase = "final_audit" \/ (g.phase = "stage_prepare" /\ g.stage # 0)
    BY RunningKnown, NextStageOf
<1>2. flows' = [flows EXCEPT ![r] = g] BY DEF Flow
<1> HIDE DEF g
<1>3. UNCHANGED <<unreviewed, lost, orphans, cut>> BY DEF calls, ghost
<1>4. Fits(r, rounds[r], g) BY <1>1, RunningKnown DEF Fits
<1>5. FitsGhosts(r, rounds[r], g, unreviewed', lost') BY <1>1 DEF FitsGhosts
<1> QED BY <1>1, <1>2, <1>3, <1>4, <1>5, RunningKnown, FlowMoves

LEMMA NormalizeKept ==
    ASSUME Kept, NEW r \in DOMAIN rounds, Normalize(r)
    PROVE  Kept'
<1>1. /\ flows[r].status = "running" /\ flows[r].phase = "revision_normalize"
      /\ UNCHANGED <<graph, task, tasks, closing, ghost>>
    BY DEF Normalize, RunsIn, StepOnly, calls
<1>2. UNCHANGED <<unreviewed, lost, orphans, cut>> /\ unreviewed \subseteq Decls
    BY <1>1, RunningKnown DEF calls, ghost
<1>3. CASE Flow(r, ToNextStage(flows[r])) BY <1>1, <1>3, NextStageKept
<1>4. CASE \E outcome \in {"blocked", "failed"} : Flow(r, ToBuild(flows[r], outcome))
    BY <1>1, <1>2, <1>4, BuildKept DEF Results
<1> QED BY <1>3, <1>4 DEF Normalize

LEMMA PrepareTargetsKept ==
    ASSUME Kept, NEW r \in DOMAIN rounds, PrepareTargets(r)
    PROVE  Kept'
<1> DEFINE f       == flows[r]
           targets == StageTargets(r, f.stage)
           g       == [f EXCEPT !.phase = "stage_worker", !.targets = targets, !.worker = FALSE, !.review = "none"]
<1>1. /\ flows[r].status = "running" /\ flows[r].phase = "stage_prepare"
      /\ UNCHANGED <<graph, task, tasks, closing, ghost>>
    BY DEF PrepareTargets, RunsIn, StepOnly, calls
<1>2. UNCHANGED <<unreviewed, lost, orphans, cut>> /\ unreviewed \subseteq Decls
    BY <1>1, RunningKnown DEF calls, ghost
<1>3. CASE Flow(r, ToNextStage(f)) BY <1>1, <1>3, NextStageKept
<1>4. CASE Flow(r, ToBuild(f, "failed")) BY <1>1, <1>2, <1>4, BuildKept DEF Results
<1>5. CASE Flow(r, g)
    <2>1. f.stage # 0 /\ f \in RoundFlow BY <1>1, RunningKnown DEF Fits
    <2>2. targets \subseteq RefsOf(r) BY DEF StageTargets
    <2>3. targets \subseteq Decls BY <2>2 DEF RefsOf
    <2> HIDE DEF targets
    <2>4. /\ g \in RoundFlow /\ g.status = "running" /\ g.phase = "stage_worker" /\ g.targets = targets
          /\ g.attempt = f.attempt /\ g.stage # 0
        BY <1>1, <2>1, <2>3 DEF RoundFlow
    <2>5. flows' = [flows EXCEPT ![r] = g] BY <1>5 DEF Flow
    <2> HIDE DEF g
    <2>6. Fits(r, rounds[r], g) BY <1>1, <2>2, <2>4, RunningKnown DEF Fits
    <2>7. FitsGhosts(r, rounds[r], g, unreviewed', lost') BY <2>4 DEF FitsGhosts
    <2> QED BY <1>1, <1>2, <2>4, <2>5, <2>6, <2>7, RunningKnown, FlowMoves
<1> QED BY <1>3, <1>4, <1>5 DEF PrepareTargets

LEMMA WorkerKept ==
    ASSUME Kept, NEW r \in DOMAIN rounds, Worker(r)
    PROVE  Kept'
<1> DEFINE f == flows[r]
           g == [f EXCEPT !.worker = TRUE, !.phase = AfterWorker(f)]
<1>1. /\ f.status = "running" /\ f.phase = "stage_worker"
      /\ unreviewed' \subseteq IF rounds[r].status = "running" THEN unreviewed \cup f.targets ELSE unreviewed
      /\ UNCHANGED <<graph, task, tasks, closing, lost, orphans, cut>>
    BY DEF Worker, RunsIn, calls
<1>2. f \in RoundFlow /\ f.stage # 0 /\ f.targets \subseteq RefsOf(r) BY <1>1, RunningKnown DEF Fits
<1>3. unreviewed' \subseteq Decls /\ (unreviewed' \subseteq unreviewed \/ rounds[r].status = "running")
    BY <1>1, <1>2, RunningKnown DEF RoundFlow
<1>4. CASE \E outcome \in {"blocked", "failed"} : Flow(r, ToBuild(f, outcome))
    BY <1>1, <1>3, <1>4, BuildKept DEF Results
<1>5. CASE Flow(r, g)
    <2>1. /\ g \in RoundFlow /\ g.status = "running" /\ g.targets = f.targets /\ g.stage = f.stage
          /\ g.attempt = f.attempt
          /\ g.phase = "stage_reviewer" \/ (g.phase = "stage_gate_audit" /\ g.stage \notin AgentReviewed)
        <3>1. AfterWorker(f) = "stage_reviewer" \/ (AfterWorker(f) = "stage_gate_audit" /\ f.stage \notin AgentReviewed)
            BY DEF AfterWorker
        <3> QED BY <1>1, <1>2, <3>1 DEF RoundFlow
    <2>2. flows' = [flows EXCEPT ![r] = g] BY <1>5 DEF Flow
    <2> HIDE DEF g
    <2>3. Fits(r, rounds[r], g) BY <1>1, <1>2, <2>1, RunningKnown DEF Fits
    <2>4. FitsGhosts(r, rounds[r], g, unreviewed', lost') BY <2>1 DEF FitsGhosts
    <2> QED BY <1>1, <1>3, <2>1, <2>2, <2>3, <2>4, RunningKnown, FlowMoves
<1> QED BY <1>4, <1>5 DEF Worker

LEMMA ReviewerKept ==
    ASSUME Kept, NEW r \in DOMAIN rounds, Reviewer(r)
    PROVE  Kept'
<1> DEFINE f == flows[r]
<1>1. /\ f.status = "running" /\ f.phase = "stage_reviewer"
      /\ UNCHANGED <<graph, task, tasks, closing, lost, orphans, cut>>
    BY DEF Reviewer, RunsIn, calls
<1>2. f \in RoundFlow /\ f.stage # 0 /\ unreviewed \subseteq Decls BY <1>1, RunningKnown DEF Fits
<1>3. CASE Flow(r, ToBuild(f, "failed")) /\ UNCHANGED unreviewed
    BY <1>1, <1>2, <1>3, BuildKept DEF Results
<1>4. ASSUME NEW review \in {"passed", "rejected", "incomplete"},
             Flow(r, [f EXCEPT !.review = review, !.phase = "stage_gate_audit"]),
             unreviewed' = IF review = "passed" THEN unreviewed \ f.targets ELSE unreviewed
      PROVE  Kept'
    <2> DEFINE g == [f EXCEPT !.review = review, !.phase = "stage_gate_audit"]
    <2>1. /\ g \in RoundFlow /\ g.status = "running" /\ g.targets = f.targets /\ g.stage = f.stage
          /\ g.attempt = f.attempt /\ g.phase = "stage_gate_audit" /\ g.review = review
        BY <1>1, <1>2 DEF RoundFlow
    <2>2. flows' = [flows EXCEPT ![r] = g] BY <1>4 DEF Flow
    <2> HIDE DEF g
    <2>3. Fits(r, rounds[r], g) BY <1>1, <1>2, <2>1, RunningKnown DEF Fits
    <2>4. FitsGhosts(r, rounds[r], g, unreviewed', lost') BY <1>4, <2>1 DEF FitsGhosts
    <2>5. unreviewed' \subseteq Decls /\ unreviewed' \subseteq unreviewed BY <1>2, <1>4
    <2> QED BY <1>1, <2>1, <2>2, <2>3, <2>4, <2>5, RunningKnown, FlowMoves
<1> QED BY <1>3, <1>4 DEF Reviewer

\* A gate passes only in a running round, and raises what its targets refer to.
LEMMA AdvanceRaises ==
    ASSUME Kept, NEW r \in DOMAIN rounds, NEW s \in 0..LastStage, NEW targets \in SUBSET RefsOf(r),
           Advance(r, s, targets)
    PROVE  /\ Raised(r)
           /\ \A d \in Decls : \A i \in DOMAIN decls[d] :
                 decls'[d][i] # decls[d][i] => d \in targets /\ decls'[d][i].state = s
<1>1. ASSUME NEW d \in Decls
      PROVE  /\ decls'[d] \in Seq(Revision) /\ Len(decls'[d]) = Len(decls[d])
             /\ \A i \in DOMAIN decls[d] :
                   /\ decls'[d][i].goal = decls[d][i].goal /\ decls'[d][i].state >= decls[d][i].state
                   /\ decls'[d][i].open = decls[d][i].open
                   /\ decls'[d][i] # decls[d][i] => /\ d \in targets /\ i = rounds[r].refs[d]
                                                    /\ decls'[d][i].state = s
    <2>1. decls[d] \in Seq(Revision) BY Known
    <2>2. \A i \in DOMAIN decls[d] : decls[d][i] \in Revision /\ decls[d][i].state \in Nat
        BY <2>1, LastIn, RevisionNumbers
    <2>3. CASE ~(d \in targets /\ RevOf(r, d).state < s)
        <3>1. decls'[d] = decls[d] BY <2>3 DEF Advance
        <3> QED BY <2>1, <2>2, <3>1
    <2>4. CASE d \in targets /\ RevOf(r, d).state < s
        <3> DEFINE k == rounds[r].refs[d]
                   v == [decls[d][k] EXCEPT !.state = s]
        <3>1. decls'[d] = [decls[d] EXCEPT ![k] = v] BY <2>4 DEF Advance
        <3>2. k \in DOMAIN decls[d] /\ decls[d][k].state < s
            BY <2>4 DEF Kept, RecordTypes, RevOf
        <3>3. decls[d][k] \in Revision BY <2>2, <3>2
        <3>4. /\ v \in Revision /\ v.state = s /\ v.goal = decls[d][k].goal /\ v.open = decls[d][k].open
            BY <3>3 DEF Revision
        <3> HIDE DEF k, v
        <3>5. /\ decls'[d] \in Seq(Revision) /\ Len(decls'[d]) = Len(decls[d]) /\ decls'[d][k] = v
              /\ \A i \in DOMAIN decls[d] : i # k => decls'[d][i] = decls[d][i]
            BY <2>1, <3>1, <3>2, <3>4, Replaced
        <3>6. v.state >= decls[d][k].state BY <2>2, <3>2, <3>4
        <3>7. ASSUME NEW i \in DOMAIN decls[d]
              PROVE  /\ decls'[d][i].goal = decls[d][i].goal /\ decls'[d][i].state >= decls[d][i].state
                     /\ decls'[d][i].open = decls[d][i].open
                     /\ decls'[d][i] # decls[d][i] => /\ d \in targets /\ i = k
                                                      /\ decls'[d][i].state = s
            <4>1. CASE i = k BY <2>4, <3>4, <3>5, <3>6, <4>1
            <4>2. CASE i # k BY <2>2, <3>5, <4>2
            <4> QED BY <4>1, <4>2
        <3> QED BY <3>5, <3>7 DEF k
    <2> QED BY <2>3, <2>4
<1>2. decls' \in Revisions BY <1>1 DEF Advance, Revisions
<1>3. \A d \in targets : d \in RefsOf(r) OBVIOUS
<1> QED BY <1>1, <1>2, <1>3 DEF Raised

LEMMA StageGateKept ==
    ASSUME Kept, NEW r \in DOMAIN rounds, StageGate(r)
    PROVE  Kept'
<1> DEFINE f == flows[r]
<1>1. /\ f.status = "running" /\ f.phase = "stage_gate_audit"
      /\ UNCHANGED <<deleted, strategy, rounds, task, tasks, closing, unreviewed, lost, orphans, cut, dropped>>
    BY DEF StageGate, RunsIn, calls, ghost
<1>2. f \in RoundFlow /\ f.stage # 0 /\ f.stage \in 0..LastStage /\ f.targets \subseteq RefsOf(r)
      /\ unreviewed \subseteq Decls /\ f.attempt \in Nat
    BY <1>1, RunningKnown DEF Fits, RoundFlow
<1>3. CASE decls' = decls
    <2>1. UNCHANGED <<graph, task, tasks, closing, ghost>> BY <1>1, <1>3 DEF graph, calls, ghost
    <2>2. CASE \E outcome \in {"blocked", "failed"} : Flow(r, ToBuild(f, outcome))
        BY <1>1, <1>2, <2>1, <2>2, BuildKept DEF Results
    <2>3. CASE Flow(r, ToNextStage(f)) BY <1>1, <2>1, <2>3, NextStageKept
    <2>4. CASE Flow(r, RetryWorker(f))
        <3> DEFINE g == RetryWorker(f)
        <3>1. /\ g \in RoundFlow /\ g.status = "running" /\ g.phase = "stage_worker" /\ g.targets = f.targets
              /\ g.attempt = f.attempt /\ g.stage = f.stage
            <4>1. f.retry + 1 \in Nat BY <1>2 DEF RoundFlow
            <4>2. g = [f EXCEPT !.phase = "stage_worker", !.retry = f.retry + 1] BY DEF RetryWorker
            <4> HIDE DEF g
            <4> QED BY <1>1, <1>2, <4>1, <4>2 DEF RoundFlow
        <3>2. flows' = [flows EXCEPT ![r] = g] BY <2>4 DEF Flow
        <3> HIDE DEF g
        <3>3. Fits(r, rounds[r], g) BY <1>1, <1>2, <3>1, RunningKnown DEF Fits
        <3>4. FitsGhosts(r, rounds[r], g, unreviewed', lost') BY <3>1 DEF FitsGhosts
        <3> QED BY <1>1, <1>2, <2>1, <3>1, <3>2, <3>3, <3>4, RunningKnown, FlowMoves
    <2> QED BY <1>1, <2>2, <2>3, <2>4 DEF StageGate
<1>4. CASE decls' # decls
    <2>1. rounds[r].status = "running" /\ Advance(r, f.stage, f.targets) /\ Flow(r, ToNextStage(f))
        BY <1>4 DEF StageGate
    <2> DEFINE g == ToNextStage(f)
               n == rounds[r]
    <2>2. /\ g \in RoundFlow /\ g.status = "running" /\ g.targets = {} /\ g.attempt = f.attempt
          /\ g.phase = "final_audit" \/ (g.phase = "stage_prepare" /\ g.stage # 0)
        BY <1>1, <1>2, NextStageOf
    <2>3. flows' = [flows EXCEPT ![r] = g] BY <2>1 DEF Flow
    <2> HIDE DEF g
    <2>4. Fits(r, n, g) /\ FitsGhosts(r, n, g, unreviewed', lost') BY <2>1, <2>2 DEF Fits, FitsGhosts
    <2>5. Raised(r) BY <1>2, <2>1, AdvanceRaises
    <2>6. n \in Round /\ rounds' = [rounds EXCEPT ![r] = n] /\ n.marker <= g.attempt
        BY <1>1, <2>2, Known, RunningKnown
    <2>7. ResultFits(decls', n)
        <3>1. RecordsFit(decls', rounds, Excused)
            <4>1. /\ decls' \in Revisions /\ \A d \in Decls : Len(decls'[d]) = Len(decls[d])
                  /\ \A d \in Decls : \A i \in DOMAIN decls[d] :
                        /\ decls'[d][i].goal = decls[d][i].goal /\ decls'[d][i].state >= decls[d][i].state
                        /\ decls'[d][i].open => decls[d][i].open
                        /\ d \notin Excused => decls'[d][i].open = decls[d][i].open
                BY <2>5 DEF Raised
            <4> QED BY <4>1, RevisionsChange DEF Kept
        <3> QED BY <3>1 DEF RecordsFit
    <2>8. f.attempt <= g.attempt BY <1>2, <2>2
    <2>9. /\ unreviewed' \subseteq Decls /\ unreviewed' \subseteq unreviewed /\ lost' \subseteq DOMAIN rounds
          /\ lost \ {r} \subseteq lost' /\ n = rounds[r] /\ n.refs = rounds[r].refs /\ n.status = "running"
        BY <1>1, <1>2, <2>1, RunningKnown
    <2> HIDE DEF n
    <2> QED BY <1>1, <2>1, <2>2, <2>3, <2>4, <2>5, <2>6, <2>7, <2>8, <2>9, RoundMoves
<1> QED BY <1>3, <1>4

LEMMA FinalAuditKept ==
    ASSUME Kept, NEW r \in DOMAIN rounds, FinalAudit(r)
    PROVE  Kept'
<1>1. /\ flows[r].status = "running" /\ UNCHANGED <<graph, task, tasks, closing, ghost>>
      /\ \E outcome \in Results : Flow(r, ToBuild(flows[r], outcome))
    BY DEF FinalAudit, RunsIn, StepOnly, calls, Results
<1>2. UNCHANGED <<unreviewed, lost, orphans, cut>> /\ unreviewed \subseteq Decls
    BY <1>1, RunningKnown DEF calls, ghost
<1> QED BY <1>1, <1>2, BuildKept

\* A step of the flow or of the operator that writes the round alone.
LEMMA RoundWritten ==
    ASSUME Kept, NEW r \in DOMAIN rounds, NEW n \in Round, NEW f \in RoundFlow,
           flows' = [flows EXCEPT ![r] = f], rounds' = [rounds EXCEPT ![r] = n],
           UNCHANGED <<decls, deleted, strategy, task, tasks, closing, unreviewed, orphans, cut>>,
           n.refs = rounds[r].refs, n.marker <= f.attempt, flows[r].attempt <= f.attempt,
           Fits(r, n, f), FitsGhosts(r, n, f, unreviewed, lost'), ResultFits(decls, n),
           n.status \in {"running", "awaiting"},
           \/ rounds[r].status = "running"
           \/ rounds[r].status = "draft" /\ task.phase = "waiting"
           \/ rounds[r].status = "awaiting" /\ rounds[r].exec = "failed",
           lost' \subseteq DOMAIN rounds, lost \ {r} \subseteq lost'
    PROVE  Kept'
<1>1. Raised(r)
    <2>1. \A d \in Decls : \A i \in DOMAIN decls[d] : decls[d][i].state \in Nat
        BY Known, LastIn, RevisionNumbers
    <2>2. decls \in Revisions BY Known
    <2> QED BY <2>1, <2>2 DEF Raised
<1>2. unreviewed \subseteq Decls BY DEF Kept, RecordTypes
<1> QED BY <1>1, <1>2, RoundMoves

LEMMA RoundStartKept ==
    ASSUME Kept, NEW r \in DOMAIN rounds, RoundStart(r)
    PROVE  Kept'
<1> DEFINE f == flows[r]
<1>1. /\ f.status = "running" /\ f.phase = "round_start"
      /\ UNCHANGED <<decls, deleted, task, tasks, closing, unreviewed, lost, orphans, cut, strategy>>
    BY DEF RoundStart, RunsIn, calls, ghost
<1>2. CASE rounds' = rounds /\ Flow(r, ToBuild(f, "failed"))
    <2>1. UNCHANGED graph /\ unreviewed \subseteq Decls BY <1>1, <1>2, RunningKnown DEF graph
    <2> QED BY <1>1, <1>2, <2>1, BuildKept DEF Results
<1>3. CASE /\ rounds[r].status = "draft" /\ rounds' = [rounds EXCEPT ![r].status = "running"]
           /\ Flow(r, IF RefsOf(r) = {} THEN ToBuild(f, "failed") ELSE [f EXCEPT !.phase = "revision_normalize"])
    <2> DEFINE n == [rounds[r] EXCEPT !.status = "running"]
               g == IF RefsOf(r) = {} THEN ToBuild(f, "failed") ELSE [f EXCEPT !.phase = "revision_normalize"]
    <2>1. /\ n \in Round /\ n.refs = rounds[r].refs /\ n.status = "running" /\ n.exec = rounds[r].exec
          /\ n.result = rounds[r].result /\ n.marker = rounds[r].marker
          /\ rounds' = [rounds EXCEPT ![r] = n]
        <3>1. rounds[r] \in Round /\ rounds \in Seq(Round) BY Known
        <3> QED BY <1>3, <3>1 DEF Round, Unfinished
    <2>2. f \in RoundFlow /\ f.targets \subseteq RefsOf(r) BY <1>1, RunningKnown
    <2>3. /\ g \in RoundFlow /\ g.status = "running" /\ g.targets \subseteq RefsOf(r) /\ g.attempt = f.attempt
          /\ g.phase = "revision_normalize" \/ (g.phase = "build_result" /\ g.outcome = "failed")
        <3>1. CASE RefsOf(r) = {} BY <2>2, <3>1, Built DEF Results
        <3>2. CASE RefsOf(r) # {} BY <1>1, <2>2, <3>2 DEF RoundFlow
        <3> QED BY <3>1, <3>2
    <2>4. flows' = [flows EXCEPT ![r] = g] BY <1>3 DEF Flow
    <2> HIDE DEF g, n
    <2>5. Fits(r, n, g) /\ FitsGhosts(r, n, g, unreviewed, lost') BY <2>1, <2>3 DEF Fits, FitsGhosts
    <2>6. ResultFits(decls, n)
        <3>1. ResultFits(decls, rounds[r]) /\ rounds[r] \in Round BY Known
        <3> QED BY <1>3, <2>1, <3>1 DEF ResultFits, Round
    <2>7. n.marker <= g.attempt /\ f.attempt <= g.attempt BY <1>1, <2>1, <2>3, RunningKnown
    <2>8. task.phase = "waiting" /\ lost \subseteq DOMAIN rounds BY <1>1, <1>3, RunningKnown
    <2> QED BY <1>1, <1>3, <2>1, <2>3, <2>4, <2>5, <2>6, <2>7, <2>8, RoundWritten
<1> QED BY <1>2, <1>3 DEF RoundStart

\* A recorded result.
LEMMA Recorded ==
    ASSUME Kept, NEW r \in DOMAIN rounds, NEW kind \in Results, NEW marker \in Nat,
           Record(r, rounds[r], kind, marker), kind = "success" => Reached(r)
    PROVE  \E n \in Round :
              /\ rounds' = [rounds EXCEPT ![r] = n] /\ n.status = "awaiting" /\ n.refs = rounds[r].refs
              /\ n.marker = marker /\ ResultFits(decls, n)
<1> DEFINE n == [rounds[r] EXCEPT !.status = "awaiting", !.exec = kind, !.marker = marker]
<1>1. rounds[r] \in Round /\ rounds \in Seq(Round) /\ ResultFits(decls, rounds[r]) BY Known
<1>2. /\ n \in Round /\ n.status = "awaiting" /\ n.exec = kind /\ n.marker = marker
      /\ n.refs = rounds[r].refs /\ n.result = rounds[r].result
    BY <1>1 DEF Round, Unfinished
<1>3. rounds' = [rounds EXCEPT ![r] = n] BY DEF Record, Save
<1> HIDE DEF n
<1>4. ResultFits(decls, n)
    <2>1. n.result = "none" /\ n.exec # "none" BY <1>1, <1>2 DEF ResultFits, Results, Record, Recordable
    <2>2. kind = "success" => \A d \in Refs(n) : decls[d][n.refs[d]].state >= decls[d][n.refs[d]].goal
        BY <1>2 DEF Reached, RefsOf, RevOf, Refs
    <2> QED BY <1>2, <2>1, <2>2 DEF ResultFits, Results
<1> QED BY <1>2, <1>3, <1>4

\* The flow ends, or waits for a restart, and its round has a result.
LEMMA RecordKept ==
    ASSUME Kept, NEW r \in DOMAIN rounds, NEW kind \in Results, NEW marker \in Nat,
           Record(r, rounds[r], kind, marker), kind = "success" => Reached(r), NEW f \in RoundFlow, flows' = [flows EXCEPT ![r] = f],
           UNCHANGED <<decls, deleted, strategy, task, tasks, closing, unreviewed, orphans, cut>>,
           marker <= f.attempt, f.attempt = flows[r].attempt,
           f.targets \subseteq RefsOf(r),
           f.phase \in {"stage_prepare", "stage_worker", "stage_reviewer", "stage_gate_audit"} => f.stage # 0,
           f.phase = "build_result" => f.outcome # "none",
           \/ rounds[r].status = "running"
           \/ rounds[r].status = "draft" /\ task.phase = "waiting",
           lost' \subseteq DOMAIN rounds, lost \ {r} \subseteq lost'
    PROVE  Kept'
<1>1. PICK n \in Round :
          /\ rounds' = [rounds EXCEPT ![r] = n] /\ n.status = "awaiting" /\ n.refs = rounds[r].refs
          /\ n.marker = marker /\ ResultFits(decls, n)
    BY Recorded
<1>2. Fits(r, n, f) /\ FitsGhosts(r, n, f, unreviewed, lost') BY <1>1 DEF Fits, FitsGhosts
<1>3. flows[r].attempt <= f.attempt BY DEF RoundFlow
<1> QED BY <1>1, <1>2, <1>3, RoundWritten

\* What a save writes in place, no other save has dropped.
LEMMA Undropped ==
    ASSUME NEW r, NEW read, NEW kind, NEW marker, Record(r, read, kind, marker), ~dropped'
    PROVE  read = rounds[r] /\ Record(r, rounds[r], kind, marker) /\ Recordable(rounds[r], kind)
BY DEF Record, Save

LEMMA BuildResultKept ==
    ASSUME Kept, CopiesFit, NEW r \in DOMAIN rounds, BuildResult(r), ~dropped'
    PROVE  Kept'
<1> DEFINE f == flows[r]
           g == Ended(f, "completed")
<1>1. /\ Record(r, rounds[r], f.outcome, 0) /\ Recordable(rounds[r], f.outcome)
      /\ flows' = [flows EXCEPT ![r] = g]
    BY Undropped DEF BuildResult, Flow
<1>2. /\ f.status = "running" /\ f.phase = "build_result" /\ (f.outcome = "success" => Reached(r))
      /\ UNCHANGED <<decls, deleted, strategy, task, tasks, closing, unreviewed, lost, orphans, cut>>
    <2>1. CopyFits(r) /\ copy[r].of = "result" BY Known DEF BuildResult, CopiesFit, NoCopy
    <2>2. f.outcome = "success" => rounds[r].status = "running" BY <1>1 DEF Recordable
    <2> QED BY <2>1, <2>2 DEF CopyFits, BuildResult
<1>3. f \in RoundFlow /\ f.outcome \in Results /\ f.attempt \in Nat /\ lost \subseteq DOMAIN rounds
      /\ (rounds[r].status = "draft" => task.phase = "waiting")
    BY <1>2, RunningKnown DEF Fits, RoundFlow
<1>4. /\ g \in RoundFlow /\ g.phase = "round_start" /\ g.targets = {} /\ g.attempt = f.attempt
    BY <1>3, EndedSo
<1> HIDE DEF g
<1>5. rounds[r].status = "running" \/ (rounds[r].status = "draft" /\ task.phase = "waiting")
    BY <1>1, <1>3 DEF Recordable
<1>6. 0 <= g.attempt BY <1>3, <1>4
<1> QED BY <1>1, <1>2, <1>3, <1>4, <1>5, <1>6, RecordKept

LEMMA StepFailsKept ==
    ASSUME Kept, CopiesFit, NEW r \in DOMAIN rounds, StepFails(r), ~dropped'
    PROVE  Kept'
<1> DEFINE f == flows[r]
           g == IF AtAgentStep(r) THEN [f EXCEPT !.status = "failed"] ELSE Ended(f, "failed")
<1>1. f.status = "running" /\ RecordFailedStep(r) /\ flows' = [flows EXCEPT ![r] = g]
      /\ UNCHANGED <<decls, deleted, strategy, task, tasks, closing, unreviewed, orphans, cut>>
    <2>1. CopyFits(r) /\ copy[r].of = "failure" BY Known DEF StepFails, CopiesFit, NoCopy
    <2> QED BY <2>1 DEF StepFails, Flow, CopyFits
<1>2. f \in RoundFlow /\ f.attempt \in Nat /\ lost \subseteq DOMAIN rounds /\ unreviewed \subseteq Decls
      /\ f.targets \subseteq RefsOf(r) /\ (rounds[r].status = "draft" => task.phase = "waiting")
      /\ (AtAgentStep(r) => f.stage # 0 /\ rounds[r].status # "draft")
    BY <1>1, RunningKnown DEF Fits, AtAgentStep
<1>3. /\ g \in RoundFlow /\ g.status = "failed" /\ g.targets \subseteq RefsOf(r) /\ g.attempt = f.attempt
      /\ g.phase = "round_start" => g.targets = {} \/ rounds[r].status # "draft"
      /\ g.phase \in {"stage_worker", "stage_reviewer"} => g.stage # 0 /\ rounds[r].status # "draft"
      /\ g.phase \in {"round_start", "stage_worker", "stage_reviewer"}
    <2>1. CASE AtAgentStep(r)
        <3>1. g = [f EXCEPT !.status = "failed"] BY <2>1
        <3> HIDE DEF g
        <3> QED BY <1>2, <2>1, <3>1 DEF RoundFlow, AtAgentStep
    <2>2. CASE ~AtAgentStep(r)
        <3>1. g = Ended(f, "failed") BY <2>2
        <3> HIDE DEF g
        <3> QED BY <1>2, <3>1, EndedSo
    <2> QED BY <2>1, <2>2
<1> HIDE DEF g
<1>4. CASE Record(r, copy[r].record, "failed", f.attempt) /\ UNCHANGED lost
    <2>1. Record(r, rounds[r], "failed", f.attempt) /\ Recordable(rounds[r], "failed") BY <1>4, Undropped
    <2>2. rounds[r].status = "running" \/ (rounds[r].status = "draft" /\ task.phase = "waiting")
        BY <1>2, <2>1 DEF Recordable
    <2>3. f.attempt <= g.attempt BY <1>2, <1>3
    <2> QED BY <1>1, <1>2, <1>3, <1>4, <2>1, <2>2, <2>3, RecordKept DEF Results
<1>5. CASE \/ rounds[r].status = "running" /\ lost' = lost \cup {r} /\ UNCHANGED rounds
           \/ rounds[r].status # "running" /\ UNCHANGED <<rounds, lost>>
    <2>1. UNCHANGED graph BY <1>1, <1>5 DEF graph
    <2>2. lost \subseteq lost' /\ lost' \subseteq DOMAIN rounds /\ (rounds[r].status = "running" => r \in lost')
        BY <1>2, <1>5
    <2>3. Fits(r, rounds[r], g) BY <1>3 DEF Fits
    <2>4. FitsGhosts(r, rounds[r], g, unreviewed', lost') BY <1>3, <2>2 DEF FitsGhosts
    <2> QED BY <1>1, <1>2, <1>3, <2>1, <2>2, <2>3, <2>4, FlowMoves
<1> QED BY <1>1, <1>4, <1>5 DEF RecordFailedStep

LEMMA FlowStepKept ==
    ASSUME Kept, CopiesFit, NEW r \in DOMAIN rounds, FlowStep(r), ~dropped'
    PROVE  Kept'
<1>1. CASE ResultReads(r) \/ StepRaises(r) BY <1>1, OnlyCopies DEF ResultReads, StepRaises, graph, ghost
<1> QED BY <1>1, RoundStartKept, NormalizeKept, PrepareTargetsKept, WorkerKept, ReviewerKept, StageGateKept,
           FinalAuditKept, BuildResultKept, StepFailsKept DEF FlowStep

LEMMA RestartStepKept ==
    ASSUME Kept, CopiesFit, NEW r \in DOMAIN rounds, RestartStep(r), ~dropped'
    PROVE  Kept'
<1> DEFINE f == flows[r]
           n == [rounds[r] EXCEPT !.status = "running", !.exec = "none", !.marker = 0]
           g == [f EXCEPT !.status = "running", !.attempt = @ + 1]
<1>1. /\ f.status = "failed" /\ AtAgentStep(r) /\ rounds[r].status = "awaiting" /\ rounds[r].exec = "failed"
      /\ \/ /\ rounds' = [rounds EXCEPT ![r] = n] /\ flows' = [flows EXCEPT ![r] = g] /\ UNCHANGED lost
         \/ rounds' = [rounds EXCEPT ![r] = rounds[r]] /\ UNCHANGED <<flows, lost>>
         \/ /\ rounds' = [rounds EXCEPT ![r] = n] /\ UNCHANGED flows /\ lost' = lost \cup {r}
      /\ UNCHANGED <<decls, deleted, strategy, task, tasks, closing, unreviewed, orphans, cut>>
    <2>1. CopyFits(r) /\ copy[r].of = "reopening" BY Known DEF RestartStep, CopiesFit, NoCopy
    <2>2. copy[r].record = rounds[r] BY DEF RestartStep, Save
    <2> QED BY <2>1, <2>2 DEF RestartStep, Flow, Save, CopyFits
<1>2. /\ rounds[r] \in Round /\ rounds \in Seq(Round) /\ f \in RoundFlow /\ ResultFits(decls, rounds[r])
      /\ Fits(r, rounds[r], f) /\ flows = [flows EXCEPT ![r] = f] /\ lost \subseteq DOMAIN rounds
    BY Known, FitsNow DEF Kept, RecordTypes
<1>3. /\ n \in Round /\ n.refs = rounds[r].refs /\ n.status = "running" /\ n.exec = "none" /\ n.marker = 0
      /\ n.result = rounds[r].result
    BY <1>1, <1>2 DEF Round, Unfinished
<1>4. f.attempt \in Nat BY <1>2 DEF RoundFlow
<1>5. /\ g \in RoundFlow /\ g.status = "running" /\ g.attempt = f.attempt + 1 /\ g.phase = f.phase
      /\ g.stage = f.stage /\ g.targets = f.targets
    <2>1. f.attempt + 1 \in Nat BY <1>4
    <2>2. g = [f EXCEPT !.status = "running", !.attempt = f.attempt + 1] BY <1>2 DEF RoundFlow
    <2> HIDE DEF g
    <2> QED BY <1>2, <2>1, <2>2 DEF RoundFlow
<1> HIDE DEF n, g
<1>6. ResultFits(decls, n)
    <2>1. rounds[r].result = "none" BY <1>1, <1>2 DEF ResultFits, Round
    <2> QED BY <1>3, <2>1 DEF ResultFits
<1>7. n.marker <= g.attempt /\ f.attempt <= g.attempt /\ n.marker <= f.attempt /\ f.attempt <= f.attempt
    BY <1>3, <1>4, <1>5
<1>8. CASE rounds' = [rounds EXCEPT ![r] = n] /\ flows' = [flows EXCEPT ![r] = g] /\ UNCHANGED lost
    <2>1. Fits(r, n, g) /\ FitsGhosts(r, n, g, unreviewed, lost')
        BY <1>1, <1>2, <1>3, <1>5 DEF Fits, FitsGhosts, AtAgentStep
    <2> QED BY <1>1, <1>2, <1>3, <1>5, <1>6, <1>7, <1>8, <2>1, RoundWritten
<1>9. CASE rounds' = [rounds EXCEPT ![r] = rounds[r]] /\ UNCHANGED <<flows, lost>>
    <2>1. rounds' = rounds BY <1>2, <1>9
    <2> QED BY <1>1, <1>9, <2>1, OnlyCopies
<1>10. CASE rounds' = [rounds EXCEPT ![r] = n] /\ UNCHANGED flows /\ lost' = lost \cup {r}
    <2>1. Fits(r, n, f) /\ FitsGhosts(r, n, f, unreviewed, lost')
        BY <1>1, <1>2, <1>3, <1>10 DEF Fits, FitsGhosts, AtAgentStep
    <2>2. flows' = [flows EXCEPT ![r] = f] BY <1>2, <1>10
    <2> QED BY <1>1, <1>2, <1>3, <1>6, <1>7, <1>10, <2>1, <2>2, RoundWritten
<1> QED BY <1>1, <1>8, <1>9, <1>10

LEMMA OperatorRecordsKept ==
    ASSUME Kept, NEW r \in DOMAIN rounds, OperatorRecords(r)
    PROVE  Kept'
<1> DEFINE f == flows[r]
<1>1. rounds[r].status = "running" /\ lost' = lost \ {r}
      /\ UNCHANGED <<decls, deleted, strategy, flows, task, tasks, closing, unreviewed, orphans, cut>>
    BY DEF OperatorRecords, calls
<1>2. PICK kind \in Results : (kind = "success" => Reached(r)) /\ Record(r, rounds[r], kind, 0)
    BY DEF OperatorRecords
<1>3. f \in RoundFlow /\ flows' = [flows EXCEPT ![r] = f] /\ Fits(r, rounds[r], f)
    BY <1>1, Known, FitsNow DEF Kept, RecordTypes
<1>4. 0 <= f.attempt /\ lost \subseteq DOMAIN rounds BY <1>3 DEF RoundFlow, Kept, RecordTypes
<1> QED BY <1>1, <1>2, <1>3, <1>4, RecordKept DEF Fits

----------------------------------------------------------------------------
(* The invariant holds in every state.                                     *)

\* No record, no flow, a new task.
LEMMA NothingAtFirst ==
    ASSUME Init
    PROVE  Kept /\ CopiesFit
<1>1. /\ decls = [d \in Decls |-> <<>>] /\ deleted = {} /\ strategy = "closed" /\ rounds = <<>>
      /\ flows = [r \in 1..MaxRounds |-> NoFlow] /\ task = NewTask /\ tasks = 1 /\ closing = NotClosing
      /\ unreviewed = {} /\ lost = {} /\ orphans = {} /\ cut = {}
    BY DEF Init
<1>2. rounds \in Seq(Round) /\ DOMAIN rounds = {} /\ Len(rounds) = 0 BY <1>1
<1>3. \A d \in Decls : decls[d] = <<>> /\ decls[d] \in Seq(Revision) /\ DOMAIN decls[d] = {} BY <1>1
<1>4. decls \in Revisions BY <1>1, <1>3 DEF Revisions
<1>5. NoFlow \in RoundFlow BY NoFlowIs
<1>6. task \in Task BY <1>1 DEF Task, NewTask
<1>7. RecordTypes
    BY <1>1, <1>2, <1>4, <1>5, <1>6, BoundAssumption DEF RecordTypes, Revisions, Closing
<1>8. RecordsFit(decls, rounds, Excused)
    BY <1>2, <1>3, <1>4 DEF RecordsFit, RefsFit, HeadsFit, Live
<1>9. FlowsFit BY <1>1, <1>2 DEF FlowsFit
<1>10. TaskFits BY <1>1 DEF TaskFits, NewTask
<1>11. CloseoutFits BY <1>1 DEF CloseoutFits, Closing
<1>12. CopiesFit BY DEF Init, CopiesFit, CopyTypes, PlanCopyFits, NoCopy
<1> QED BY <1>7, <1>8, <1>9, <1>10, <1>11, <1>12 DEF Kept

LEMMA PlanKept ==
    ASSUME Kept, Plan
    PROVE  Kept'
<1>1. ASSUME NEW r \in DOMAIN rounds, NEW kind \in Results, BeginCloseout(r, kind) PROVE Kept'
    BY <1>1, OpenCloseoutKept DEF BeginCloseout, Planning
<1>2. ASSUME NEW d \in Decls, NEW goal \in Goals, NEW r \in DOMAIN rounds,
             CreateDecl(r, d, goal) \/ \E start \in 0..LastStage : OpenUpdate(r, d, start, goal)
      PROVE  Kept'
    BY <1>2, CreateDeclKept, OpenUpdateKept
<1>3. ASSUME NEW r \in DOMAIN rounds, SummaryReads(r) PROVE Kept'
    BY <1>3, OnlyCopies DEF SummaryReads, graph, ghost
<1> QED BY <1>1, <1>2, <1>3, StrategyKept, CreateRoundKept, RestoreDeclKept, DeleteDeclsKept, DiscardDraftKept,
           SubmitRoundKept DEF Plan

LEMMA OperatorKept ==
    ASSUME Kept, CopiesFit, Operator, ~dropped'
    PROVE  Kept'
<1>1. ASSUME NEW r \in DOMAIN rounds, NEW kind \in Results, OperatorCloses(r, kind) PROVE Kept'
    BY <1>1, OpenCloseoutKept DEF OperatorCloses, Quiet, Closing
<1>2. ASSUME NEW r \in DOMAIN rounds, RestartReads(r) PROVE Kept'
    BY <1>2, OnlyCopies DEF RestartReads, graph, ghost
<1> QED BY <1>1, <1>2, RestartStepKept, OperatorRecordsKept DEF Operator

----------------------------------------------------------------------------
(* The copies of records.                                                  *)

\* A copy fits what it fitted: its flow and the references of its round are as
\* they were, and so are the revisions if the round runs.
SameFor(r) ==
    /\ copy'[r] = copy[r] /\ flows'[r] = flows[r] /\ rounds'[r].refs = rounds[r].refs
    /\ rounds'[r].status \in {"draft", "running"} => rounds'[r].status = rounds[r].status
    /\ rounds[r].status = "running" => \A d \in RefsOf(r) :
          LET i == rounds[r].refs[d]
          IN  decls'[d][i].state = decls[d][i].state /\ decls'[d][i].goal = decls[d][i].goal

LEMMA CopiesMove ==
    ASSUME Kept, CopiesFit, DOMAIN rounds \subseteq DOMAIN rounds', CopyTypes', PlanCopyFits',
           \A r \in DOMAIN rounds : SameFor(r) \/ copy'[r] = NoCopy \/ CopyFits(r)',
           \A r \in (1..MaxRounds) \ DOMAIN rounds : copy'[r] = copy[r]
    PROVE  CopiesFit'
<1> SUFFICES ASSUME NEW r \in 1..MaxRounds, copy'[r] # NoCopy
             PROVE  r \in DOMAIN rounds' /\ CopyFits(r)'
    BY DEF CopiesFit
<1>1. r \in DOMAIN rounds BY DEF CopiesFit
<1>2. CASE SameFor(r)
    <2>1. CopyFits(r) BY <1>2 DEF CopiesFit, SameFor
    <2>2. RefsOf(r)' = RefsOf(r) BY <1>2 DEF SameFor, RefsOf
    <2>3. rounds'[r].status = "running" /\ Reached(r) => Reached(r)'
        BY <1>2, <2>2 DEF SameFor, Reached, RevOf
    <2> QED BY <1>1, <1>2, <2>1, <2>3 DEF SameFor, CopyFits, AtAgentStep
<1> QED BY <1>1, <1>2

\* What a round that no step touches needs to show nothing of.
LEMMA Untouched ==
    ASSUME NEW r, copy'[r] = copy[r], flows'[r] = flows[r], rounds'[r] = rounds[r],
           rounds[r].status = "running" => decls' = decls
    PROVE  SameFor(r)
BY DEF SameFor

\* A round has no flow whose copy an edit of a draft could concern: there is
\* no other unfinished round.
LEMMA DraftCopies ==
    ASSUME Kept, CopiesFit, NEW r \in InStatus("draft"), planCopy = NoCopy,
           UNCHANGED <<flows, copy, planCopy>>, DOMAIN rounds' = DOMAIN rounds,
           \A q \in DOMAIN rounds \ {r} : rounds'[q] = rounds[q],
           rounds'[r].status \in {"draft", "discarded"}
    PROVE  CopiesFit'
<1>1. rounds[r].status = "draft" /\ r \in DOMAIN rounds /\ r \in Current BY DEF InStatus, Current
<1>2. \A q \in DOMAIN rounds : rounds[q].status # "running" BY <1>1, Known DEF Live, Unfinished
<1>3. ASSUME NEW q \in DOMAIN rounds, q # r PROVE SameFor(q) BY <1>2, <1>3, Untouched
<1>4. copy'[r] = NoCopy \/ CopyFits(r)'
    <2>1. copy[r] # NoCopy => CopyFits(r) BY <1>1, Known DEF CopiesFit
    <2> QED BY <1>1, <2>1 DEF CopyFits, AtAgentStep
<1>5. CopyTypes' /\ PlanCopyFits' BY DEF CopiesFit, CopyTypes, PlanCopyFits, PlanCopy, NoCopy
<1> QED BY <1>3, <1>4, <1>5, CopiesMove

\* The same where neither rounds nor the revisions there are change.
LEMMA SameCopies ==
    ASSUME Kept, CopiesFit, UNCHANGED <<flows, copy>>, DOMAIN rounds \subseteq DOMAIN rounds',
           \A q \in DOMAIN rounds : rounds'[q] = rounds[q],
           \A d \in Decls : \A i \in DOMAIN decls[d] :
              decls'[d][i].state = decls[d][i].state /\ decls'[d][i].goal = decls[d][i].goal,
           planCopy' \in (PlanCopy \cup {NoCopy})', PlanCopyFits'
    PROVE  CopiesFit'
<1>1. ASSUME NEW q \in DOMAIN rounds PROVE SameFor(q)
    <2>1. \A d \in RefsOf(q) : d \in Decls /\ rounds[q].refs[d] \in DOMAIN decls[d]
        BY DEF Kept, RecordTypes, RefsOf
    <2> QED BY <2>1 DEF SameFor
<1>2. CopyTypes' BY DEF CopiesFit, CopyTypes, Copy
<1> QED BY <1>1, <1>2, CopiesMove

\* A new revision changes none.
LEMMA Appended ==
    ASSUME Kept, NEW d \in Decls, NEW v \in Revision, decls' = [decls EXCEPT ![d] = Append(@, v)]
    PROVE  \A e \in Decls : \A i \in DOMAIN decls[e] : decls'[e][i] = decls[e][i]
<1>1. \A i \in DOMAIN decls[d] : Append(decls[d], v)[i] = decls[d][i] BY Known, Extended
<1> QED BY <1>1, Known DEF Revisions

LEMMA PlanCopies ==
    ASSUME Kept, CopiesFit, Plan
    PROVE  CopiesFit'
<1>1. planCopy = NoCopy /\ closing = NotClosing /\ UNCHANGED copy
    BY DEF Plan, EnsureStrategy, CloseStrategy, CreateRound, CreateDecl, OpenUpdate, RestoreDecl, DeleteDecls,
           DiscardDraft, SubmitRound, SummaryReads, BeginCloseout, OpenCloseout, TaskTo, Planning, calls
<1>2. planCopy' = planCopy => planCopy' \in (PlanCopy \cup {NoCopy})' /\ PlanCopyFits'
    BY <1>1 DEF PlanCopyFits, NoCopy
<1>3. CASE UNCHANGED <<decls, rounds, flows, planCopy>> BY <1>1, <1>2, <1>3, SameCopies
<1>4. CASE CreateRound
    <2>1. rounds' = Append(rounds, NewRound) /\ UNCHANGED <<decls, flows, planCopy>>
        BY <1>4 DEF CreateRound, calls
    <2>2. DOMAIN rounds \subseteq DOMAIN rounds' /\ \A q \in DOMAIN rounds : rounds'[q] = rounds[q]
        BY <2>1, Known
    <2> QED BY <1>1, <1>2, <2>1, <2>2, SameCopies
<1>5. ASSUME NEW d \in Decls, NEW source, RestoreDecl(d, source) PROVE CopiesFit'
    <2>1. rounds' = rounds /\ source \in DOMAIN decls[d] /\ UNCHANGED <<flows, planCopy>>
        BY <1>5 DEF RestoreDecl, calls
    <2>2. decls[d][source] \in Revision BY <2>1, Known, LastIn
    <2>3. [decls[d][source] EXCEPT !.goal = 0] \in Revision BY <2>2 DEF Revision
    <2>4. \A e \in Decls : \A i \in DOMAIN decls[e] : decls'[e][i] = decls[e][i]
        BY <1>5, <2>3, Appended DEF RestoreDecl
    <2> QED BY <1>1, <1>2, <2>1, <2>4, SameCopies
<1>6. ASSUME NEW r \in DOMAIN rounds,
             \/ DiscardDraft(r)
             \/ \E d \in Decls, goal \in Goals :
                   CreateDecl(r, d, goal) \/ \E start \in 0..LastStage : OpenUpdate(r, d, start, goal)
      PROVE  CopiesFit'
    <2>1. r \in InStatus("draft") /\ UNCHANGED <<flows, planCopy>>
        BY <1>6 DEF CreateDecl, OpenUpdate, DiscardDraft, calls
    <2>2. rounds[r].status = "draft" /\ rounds \in Seq(Round) /\ rounds[r] \in Round BY <2>1, Known DEF InStatus
    <2>3. \/ rounds' = rounds \/ \E d \in Decls, n \in Nat : Attach(r, d, n)
          \/ rounds' = [rounds EXCEPT ![r].status = "discarded", ![r].refs = NewRound.refs]
        <3>1. CASE DiscardDraft(r) BY <3>1 DEF DiscardDraft
        <3>2. ASSUME NEW d \in Decls, NEW goal, CreateDecl(r, d, goal) PROVE <2>3!1
            BY <3>2 DEF CreateDecl
        <3>3. ASSUME NEW d \in Decls, NEW start, NEW goal, OpenUpdate(r, d, start, goal) PROVE <2>3!1
            BY <3>3, Known DEF OpenUpdate
        <3> QED BY <1>6, <3>1, <3>2, <3>3
    <2>4. /\ DOMAIN rounds' = DOMAIN rounds /\ \A q \in DOMAIN rounds \ {r} : rounds'[q] = rounds[q]
          /\ rounds'[r].status \in {"draft", "discarded"}
        BY <2>2, <2>3 DEF Attach, Round
    <2> QED BY <1>1, <2>1, <2>4, DraftCopies
<1>7. ASSUME NEW r \in DOMAIN rounds, SummaryReads(r) PROVE CopiesFit'
    <2>1. /\ UNCHANGED <<decls, rounds, flows>> /\ planCopy' = [of |-> "summary", round |-> r, record |-> rounds[r]]
        BY <1>7 DEF SummaryReads, graph
    <2>2. planCopy' \in (PlanCopy \cup {NoCopy})' /\ PlanCopyFits' BY <2>1, Known DEF PlanCopy, PlanCopyFits
    <2> QED BY <1>1, <2>1, <2>2, SameCopies
<1>8. ASSUME NEW r \in DOMAIN rounds, SubmitRound(r) \/ \E kind \in Results : BeginCloseout(r, kind)
      PROVE  CopiesFit'
    BY <1>3, <1>8 DEF SubmitRound, TaskTo, BeginCloseout, OpenCloseout, graph, calls
<1>9. ASSUME EnsureStrategy \/ CloseStrategy \/ \E ds \in SUBSET Decls : DeleteDecls(ds) PROVE CopiesFit'
    BY <1>3, <1>9 DEF EnsureStrategy, CloseStrategy, DeleteDecls, calls
<1> QED BY <1>4, <1>5, <1>6, <1>7, <1>8, <1>9 DEF Plan

LEMMA CloseoutCopies ==
    ASSUME Kept, CopiesFit, Closeout, ~dropped'
    PROVE  CopiesFit'
<1> DEFINE c == closing.round
<1>1. rounds \in Seq(Round) /\ \A q \in DOMAIN rounds : rounds[q] \in Round BY Known
<1>2. NoCopy \in (PlanCopy \cup {NoCopy})' /\ NoCopy.of # "closeout" BY DEF NoCopy
<1>3. ASSUME NEW d \in Decls, CommitRevision(d) PROVE CopiesFit'
    <2> DEFINE n == Len(decls[d])
    <2>1. /\ Closing /\ d \in closing.todo /\ n = rounds[c].refs[d] /\ UNCHANGED <<rounds, flows, copy, planCopy>>
          /\ decls' = [decls EXCEPT ![d][n].open = FALSE]
        BY <1>3 DEF CommitRevision, OpenHead
    <2>2. n \in DOMAIN decls[d] BY <2>1, CloseoutKnown DEF Kept, RecordTypes
    <2>3. decls[d] \in Seq(Revision) /\ decls[d][n] \in Revision BY <2>2, Known, LastIn
    <2> DEFINE v == [decls[d][n] EXCEPT !.open = FALSE]
    <2>4. v.state = decls[d][n].state /\ v.goal = decls[d][n].goal BY <2>3 DEF Revision
    <2>5. decls'[d] = [decls[d] EXCEPT ![n] = v] /\ \A e \in Decls \ {d} : decls'[e] = decls[e]
        BY <2>1, Known DEF Revisions
    <2> HIDE DEF v
    <2>6. \A e \in Decls : \A i \in DOMAIN decls[e] :
             decls'[e][i].state = decls[e][i].state /\ decls'[e][i].goal = decls[e][i].goal
        BY <2>2, <2>3, <2>4, <2>5
    <2>7. planCopy' \in (PlanCopy \cup {NoCopy})' BY <2>1 DEF CopiesFit, CopyTypes, PlanCopy
    <2>8. PlanCopyFits' BY <2>1 DEF CopiesFit, PlanCopyFits
    <2> QED BY <2>1, <2>6, <2>7, <2>8, SameCopies
<1>4. CASE PersistReads
    <2>1. /\ UNCHANGED <<decls, rounds, flows, copy, closing>> /\ Closing /\ closing.todo = {}
          /\ rounds[c].status \in {"draft", "awaiting"}
          /\ planCopy' = [of |-> "closeout", round |-> c, record |-> rounds[c]]
        BY <1>4 DEF PersistReads, graph
    <2>2. c \in DOMAIN rounds /\ rounds[c] \in Round BY <1>1, <2>1, CloseoutKnown
    <2>3. planCopy' \in (PlanCopy \cup {NoCopy})' /\ PlanCopyFits'
        BY <2>1, <2>2 DEF PlanCopy, PlanCopyFits, Closing
    <2> QED BY <2>1, <2>3, SameCopies
<1>5. CASE SummaryWrites
    <2>1. /\ rounds' = rounds /\ UNCHANGED <<decls, flows, copy>> /\ planCopy' = NoCopy
        BY <1>5, SummaryIsThere DEF SummaryWrites
    <2> QED BY <1>2, <2>1, SameCopies DEF PlanCopyFits
<1>6. CASE Persist
    <2>1. /\ Closing /\ UNCHANGED <<decls, flows, copy>> /\ planCopy' = NoCopy
          /\ rounds' = [rounds EXCEPT ![c] = [rounds[c] EXCEPT !.status = "committed", !.result = closing.kind]]
        BY <1>6 DEF Persist, Save
    <2>2. /\ c \in DOMAIN rounds /\ DOMAIN rounds' = DOMAIN rounds
          /\ rounds'[c].status = "committed" /\ rounds'[c].refs = rounds[c].refs
          /\ \A q \in DOMAIN rounds \ {c} : rounds'[q] = rounds[q]
        BY <1>1, <2>1, CloseoutKnown DEF Round
    <2>3. \A q \in DOMAIN rounds : SameFor(q) BY <2>1, <2>2 DEF SameFor
    <2>4. CopyTypes' /\ PlanCopyFits' BY <1>2, <2>1 DEF CopiesFit, CopyTypes, Copy, PlanCopyFits
    <2> QED BY <2>1, <2>2, <2>3, <2>4, CopiesMove
<1>7. CASE RollBackCloseout
    <2>1. /\ Closing /\ UNCHANGED <<flows, copy>> /\ planCopy' = NoCopy /\ rounds' = closing.rounds
        BY <1>7 DEF RollBackCloseout
    <2>2. /\ c \in DOMAIN rounds /\ RoundsFound /\ Current = {c} BY <2>1, CloseoutKnown
    <2>3. DOMAIN rounds' = DOMAIN rounds BY <2>1, <2>2 DEF RoundsFound
    <2>4. ASSUME NEW q \in DOMAIN rounds
          PROVE  /\ rounds'[q].refs = rounds[q].refs /\ rounds'[q].status # "running"
                 /\ rounds'[q].status = "draft" => rounds[q].status = "draft"
        <3>1. CASE q = c BY <2>1, <2>2, <3>1 DEF RoundsFound, Found, AllowedResult
        <3>2. CASE q # c
            <4>1. rounds[q].status # "running" BY <2>2, <3>2 DEF Current, Unfinished
            <4> QED BY <2>1, <2>2, <3>2, <4>1 DEF RoundsFound
        <3> QED BY <3>1, <3>2
    <2>5. ASSUME NEW q \in DOMAIN rounds PROVE copy'[q] = NoCopy \/ CopyFits(q)'
        <3>1. copy[q] # NoCopy => CopyFits(q) BY Known DEF CopiesFit
        <3> QED BY <2>1, <2>4, <3>1 DEF CopyFits, AtAgentStep
    <2>6. CopyTypes' /\ PlanCopyFits' BY <1>2, <2>1 DEF CopiesFit, CopyTypes, Copy, PlanCopyFits
    <2> QED BY <2>1, <2>3, <2>5, <2>6, CopiesMove
<1>8. CASE Crash
    <2>1. rounds' = rounds /\ planCopy' = NoCopy /\ copy' = [r \in DOMAIN copy |-> NoCopy]
        BY <1>8 DEF Crash, graph
    <2>2. DOMAIN copy = 1..MaxRounds BY DEF CopiesFit, CopyTypes
    <2> QED BY <1>2, <2>1, <2>2 DEF CopiesFit, CopyTypes, PlanCopyFits
<1> QED BY <1>3, <1>4, <1>5, <1>6, <1>7, <1>8 DEF Closeout

\* The task leaves the records; a flow that it dispatches is a draft's.
LEMMA TaskCopies ==
    ASSUME Kept, CopiesFit, Submit \/ TaskStep \/ StartTask
    PROVE  CopiesFit'
<1>1. UNCHANGED <<decls, rounds, closing, copy, planCopy>>
    BY DEF Submit, SubmitReady, SubmitBlockedOrFailed, PlanIncomplete, TaskStep, EnsureStageAgents, Dispatch,
           ExitWaiting, ProgressCheckpoint, CallPlanBack, CompletionAudit, StartTask, TaskTo, graph, calls
<1>2. CopyTypes' /\ PlanCopyFits'
    BY <1>1 DEF CopiesFit, CopyTypes, Copy, PlanCopy, PlanCopyFits, Closing
<1>3. CASE flows' = flows
    <2>1. \A q \in DOMAIN rounds : SameFor(q) BY <1>1, <1>3 DEF SameFor
    <2> QED BY <1>1, <1>2, <2>1, CopiesMove
<1>4. CASE flows' # flows
    <2> DEFINE r == task.child
    <2>1. task.phase = "dispatch" /\ flows' = [flows EXCEPT ![r] = NewFlow]
        BY <1>4 DEF Submit, SubmitReady, SubmitBlockedOrFailed, PlanIncomplete, TaskStep, EnsureStageAgents, Dispatch,
           ExitWaiting, ProgressCheckpoint, CallPlanBack, CompletionAudit, StartTask
    <2>2. r \in DOMAIN rounds /\ rounds[r].status = "draft" BY <2>1 DEF Kept, RecordTypes, Task, TaskFits
    <2>3. copy[r] = NoCopy
        <3>1. flows[r].status # "running" BY <2>1, <2>2, Known DEF FlowFits
        <3>2. copy[r] # NoCopy => copy[r] \in Copy /\ CopyFits(r)
            BY <2>2, Known DEF CopiesFit, CopyTypes
        <3> QED BY <2>2, <3>1, <3>2 DEF Copy, CopyFits
    <2>4. ASSUME NEW q \in DOMAIN rounds, q # r PROVE SameFor(q)
        <3>1. flows'[q] = flows[q] BY <2>1, <2>4, Known DEF Kept, RecordTypes
        <3> QED BY <1>1, <3>1 DEF SameFor
    <2> QED BY <1>1, <1>2, <2>3, <2>4, CopiesMove
<1> QED BY <1>3, <1>4

\* A step of one round.
LEMMA RoundCopies ==
    ASSUME Kept, CopiesFit, NEW r \in DOMAIN rounds, NEW x \in Copy \cup {NoCopy}, NEW f, NEW n \in Round,
           copy' = [copy EXCEPT ![r] = x], flows' = [flows EXCEPT ![r] = f],
           rounds' = [rounds EXCEPT ![r] = n], UNCHANGED <<closing, planCopy>>,
           decls' = decls \/ rounds[r].status = "running",
           x # NoCopy => CopyFits(r)'
    PROVE  CopiesFit'
<1>1. /\ DOMAIN rounds' = DOMAIN rounds /\ copy'[r] = x
      /\ \A q \in DOMAIN rounds \ {r} : rounds'[q] = rounds[q] /\ flows'[q] = flows[q]
      /\ \A q \in (1..MaxRounds) \ {r} : copy'[q] = copy[q]
    BY Known DEF CopiesFit, CopyTypes, Kept, RecordTypes
<1>2. CopyTypes' /\ PlanCopyFits'
    BY <1>1 DEF CopiesFit, CopyTypes, Copy, PlanCopy, PlanCopyFits, Closing
<1>3. ASSUME NEW q \in DOMAIN rounds, q # r PROVE SameFor(q)
    <2>1. rounds[q].status = "running" => decls' = decls BY <1>3, Known DEF Live, Unfinished
    <2> QED BY <1>1, <1>3, <2>1, Known, Untouched
<1>4. \A q \in (1..MaxRounds) \ DOMAIN rounds : copy'[q] = copy[q] BY <1>1
<1> QED BY <1>1, <1>2, <1>3, <1>4, CopiesMove

\* A step of a flow that has no copy of its round, and makes none.
Plainly(r) == \/ RoundStart(r) \/ Normalize(r) \/ PrepareTargets(r) \/ Worker(r) \/ Reviewer(r)
              \/ StageGate(r) \/ FinalAudit(r)

LEMMA StepCopies ==
    ASSUME Kept, CopiesFit, NEW r \in DOMAIN rounds, Plainly(r)
    PROVE  CopiesFit'
<1>1. copy[r] = NoCopy /\ UNCHANGED <<closing, copy, planCopy>>
    BY DEF Plainly, RoundStart, Normalize, PrepareTargets, Worker, Reviewer, StageGate, FinalAudit, RunsIn,
           StepOnly, calls
<1>2. copy' = [copy EXCEPT ![r] = NoCopy] BY <1>1 DEF CopiesFit, CopyTypes
<1>3. \E f : flows' = [flows EXCEPT ![r] = f]
    BY DEF Plainly, RoundStart, Normalize, PrepareTargets, Worker, Reviewer, StageGate, FinalAudit, Flow
<1>4. decls' = decls \/ rounds[r].status = "running"
    BY DEF Plainly, RoundStart, Normalize, PrepareTargets, Worker, Reviewer, StageGate, FinalAudit, StepOnly, graph
<1>5. \E n \in Round : rounds' = [rounds EXCEPT ![r] = n]
    <2>1. rounds[r] \in Round /\ rounds = [rounds EXCEPT ![r] = rounds[r]] BY Known
    <2>2. CASE RoundStart(r)
        <3> DEFINE n == [rounds[r] EXCEPT !.status = "running"]
        <3>1. n \in Round BY <2>1 DEF Round, Unfinished
        <3>2. rounds' = [rounds EXCEPT ![r] = n] \/ rounds' = rounds BY <2>1, <2>2 DEF RoundStart
        <3> QED BY <2>1, <3>1, <3>2
    <2>3. CASE ~RoundStart(r)
        BY <2>1, <2>3 DEF Plainly, Normalize, PrepareTargets, Worker, Reviewer, StageGate, FinalAudit, StepOnly, graph
    <2> QED BY <2>2, <2>3
<1> QED BY <1>1, <1>2, <1>3, <1>4, <1>5, RoundCopies

\* A copy of a round that is made, or dropped with what is saved.
LEMMA CopyMade ==
    ASSUME Kept, CopiesFit, NEW r \in DOMAIN rounds, NEW of \in {"result", "failure", "reopening"}, Copies(r, of),
           UNCHANGED <<decls, rounds, flows, closing, planCopy>>, CopyFits(r)'
    PROVE  CopiesFit'
<1> DEFINE x == [of |-> of, record |-> rounds[r]]
<1>1. rounds[r] \in Round /\ rounds' = [rounds EXCEPT ![r] = rounds[r]] BY Known
<1>2. x \in Copy BY <1>1 DEF Copy
<1>3. copy' = [copy EXCEPT ![r] = x] BY DEF Copies
<1>4. flows' = [flows EXCEPT ![r] = flows[r]] BY DEF Kept, RecordTypes
<1> HIDE DEF x
<1> QED BY <1>1, <1>2, <1>3, <1>4, RoundCopies

LEMMA CopySaved ==
    ASSUME Kept, CopiesFit, NEW r \in DOMAIN rounds, Drops(r), UNCHANGED <<decls, closing, planCopy>>,
           NEW f, flows' = [flows EXCEPT ![r] = f], NEW n \in Round, rounds' = [rounds EXCEPT ![r] = n]
    PROVE  CopiesFit'
BY RoundCopies DEF Drops

LEMMA FlowCopies ==
    ASSUME Kept, CopiesFit, NEW r \in DOMAIN rounds, FlowStep(r)
    PROVE  CopiesFit'
<1>1. CASE ResultReads(r)
    <2>1. /\ Copies(r, "result") /\ UNCHANGED <<decls, rounds, flows, closing, planCopy>>
          /\ flows[r].status = "running" /\ flows[r].phase = "build_result"
          /\ flows[r].outcome = "success" => Reached(r)
        BY <1>1 DEF ResultReads, RunsIn, graph
    <2>2. copy'[r].of = "result" BY <2>1, Known DEF Copies, CopiesFit, CopyTypes
    <2>3. CopyFits(r)' BY <2>1, <2>2 DEF CopyFits, Reached, RefsOf, RevOf
    <2> QED BY <2>1, <2>3, CopyMade
<1>2. CASE StepRaises(r)
    <2>1. /\ Copies(r, "failure") /\ UNCHANGED <<decls, rounds, flows, closing, planCopy>>
          /\ flows[r].status = "running"
        BY <1>2 DEF StepRaises, graph
    <2>2. copy'[r].of = "failure" BY <2>1, Known DEF Copies, CopiesFit, CopyTypes
    <2>3. CopyFits(r)' BY <2>1, <2>2 DEF CopyFits
    <2> QED BY <2>1, <2>3, CopyMade
<1>3. CASE BuildResult(r) \/ StepFails(r)
    <2>1. Drops(r) /\ UNCHANGED <<decls, closing, planCopy>> /\ copy[r] # NoCopy
          /\ \E f : flows' = [flows EXCEPT ![r] = f]
        BY <1>3 DEF BuildResult, StepFails, Flow, NoCopy
    <2>2. copy[r].record \in Round /\ rounds[r] \in Round /\ flows[r] \in RoundFlow /\ CopyFits(r)
        BY <2>1, Known DEF CopiesFit, CopyTypes, Copy
    <2>3. \/ rounds' = rounds
          \/ \E kind \in Results, marker \in Nat : Record(r, copy[r].record, kind, marker)
        <3>1. CASE BuildResult(r)
            <4>1. Record(r, copy[r].record, flows[r].outcome, 0) /\ copy[r].of = "result"
                BY <3>1 DEF BuildResult
            <4>2. flows[r].outcome \in Results
                BY <2>2, <4>1, Known DEF CopyFits, FlowFits, RoundFlow
            <4> QED BY <4>1, <4>2
        <3>2. CASE StepFails(r)
            <4>1. flows[r].attempt \in Nat /\ "failed" \in Results BY <2>2 DEF RoundFlow, Results
            <4> QED BY <3>2, <4>1 DEF StepFails, RecordFailedStep
        <3> QED BY <1>3, <3>1, <3>2
    <2>4. \E n \in Round : rounds' = [rounds EXCEPT ![r] = n]
        <3>1. CASE rounds' = rounds BY <2>2, <3>1, Known
        <3>2. ASSUME NEW kind \in Results, NEW marker \in Nat, Record(r, copy[r].record, kind, marker)
              PROVE  \E n \in Round : rounds' = [rounds EXCEPT ![r] = n]
            <4> DEFINE n == [copy[r].record EXCEPT !.status = "awaiting", !.exec = kind, !.marker = marker]
            <4>1. n \in Round BY <2>2 DEF Round, Unfinished
            <4>2. rounds' = [rounds EXCEPT ![r] = n] BY <3>2 DEF Record, Save
            <4> QED BY <4>1, <4>2
        <3> QED BY <2>3, <3>1, <3>2
    <2> QED BY <2>1, <2>4, CopySaved
<1> QED BY <1>1, <1>2, <1>3, StepCopies DEF FlowStep, Plainly

LEMMA OperatorCopies ==
    ASSUME Kept, CopiesFit, Operator
    PROVE  CopiesFit'
<1>1. ASSUME NEW r \in DOMAIN rounds, RestartReads(r) PROVE CopiesFit'
    <2>1. /\ Copies(r, "reopening") /\ UNCHANGED <<decls, rounds, flows, closing, planCopy>>
          /\ flows[r].status = "failed" /\ AtAgentStep(r)
          /\ rounds[r].status = "awaiting" /\ rounds[r].exec = "failed"
        BY <1>1 DEF RestartReads, CarriesFailedStep, graph
    <2>2. copy'[r].of = "reopening" /\ copy'[r].record = rounds[r]
        BY <2>1, Known DEF Copies, CopiesFit, CopyTypes
    <2>3. CopyFits(r)' BY <2>1, <2>2 DEF CopyFits, AtAgentStep
    <2> QED BY <2>1, <2>3, CopyMade
<1>2. ASSUME NEW r \in DOMAIN rounds, RestartStep(r) PROVE CopiesFit'
    <2> DEFINE read == copy[r].record
               n == [read EXCEPT !.status = "running", !.exec = "none", !.marker = 0]
    <2>1. Drops(r) /\ UNCHANGED <<decls, closing, planCopy>> /\ copy[r] # NoCopy
        BY <1>2 DEF RestartStep, NoCopy
    <2>2. read \in Round BY <2>1, Known DEF CopiesFit, CopyTypes, Copy
    <2>3. n \in Round BY <2>2 DEF Round, Unfinished
    <2>4. rounds' = [rounds EXCEPT ![r] = n] \/ rounds' = [rounds EXCEPT ![r] = read]
        BY <1>2 DEF RestartStep, Save
    <2>5. \E f : flows' = [flows EXCEPT ![r] = f]
        <3>1. flows = [flows EXCEPT ![r] = flows[r]] BY DEF Kept, RecordTypes
        <3> QED BY <1>2, <3>1 DEF RestartStep, Flow
    <2> HIDE DEF read, n
    <2> QED BY <2>1, <2>2, <2>3, <2>4, <2>5, CopySaved
<1>3. ASSUME NEW r \in DOMAIN rounds, OperatorRecords(r) PROVE CopiesFit'
    <2>1. copy[r] = NoCopy /\ UNCHANGED <<decls, flows, closing, copy, planCopy>>
        BY <1>3 DEF OperatorRecords, Quiet, calls
    <2>2. PICK kind \in Results : Record(r, rounds[r], kind, 0) BY <1>3 DEF OperatorRecords
    <2> DEFINE n == [rounds[r] EXCEPT !.status = "awaiting", !.exec = kind, !.marker = 0]
    <2>3. rounds[r] \in Round BY Known
    <2>4. n \in Round BY <2>3 DEF Round, Unfinished
    <2>5. rounds' = [rounds EXCEPT ![r] = n] BY <2>2 DEF Record, Save
    <2>6. copy' = [copy EXCEPT ![r] = NoCopy] /\ flows' = [flows EXCEPT ![r] = flows[r]]
        BY <2>1 DEF CopiesFit, CopyTypes, Kept, RecordTypes
    <2> HIDE DEF n
    <2> QED BY <2>1, <2>4, <2>5, <2>6, CopySaved DEF Drops
<1>4. ASSUME NEW r \in DOMAIN rounds, NEW kind \in Results, OperatorCloses(r, kind) PROVE CopiesFit'
    <2>1. ~Closing /\ UNCHANGED <<decls, rounds, flows, copy, planCopy>>
        BY <1>4 DEF OperatorCloses, Quiet, OpenCloseout, graph
    <2>2. planCopy' \in (PlanCopy \cup {NoCopy})' BY <2>1 DEF CopiesFit, CopyTypes, PlanCopy
    <2>3. PlanCopyFits' BY <2>1 DEF CopiesFit, PlanCopyFits
    <2> QED BY <2>1, <2>2, <2>3, SameCopies
<1> QED BY <1>1, <1>2, <1>3, <1>4 DEF Operator

----------------------------------------------------------------------------
(* Every step keeps both.                                                  *)

\* A save that dropped another is never forgotten.
LEMMA DroppedForGood ==
    ASSUME [Next]_vars, dropped
    PROVE  dropped'
<1>1. CASE UNCHANGED dropped BY <1>1
<1>2. CASE \E r, read, new : Save(r, read, new) BY <1>2 DEF Save
<1>3. CASE Plan
    BY <1>1, <1>3 DEF Plan, EnsureStrategy, CloseStrategy, CreateRound, CreateDecl, OpenUpdate, RestoreDecl, DeleteDecls,
           DiscardDraft, SubmitRound, SummaryReads, BeginCloseout, OpenCloseout, TaskTo, ghost
<1>4. CASE Closeout
    BY <1>1, <1>2, <1>4 DEF Closeout, CommitRevision, SummaryWrites, PersistReads, Persist, RollBackCloseout, Crash, ghost
<1>5. CASE Submit \/ TaskStep \/ StartTask \/ UNCHANGED vars
    BY <1>1, <1>5 DEF Submit, SubmitReady, SubmitBlockedOrFailed, PlanIncomplete, TaskStep, EnsureStageAgents, Dispatch,
           ExitWaiting, ProgressCheckpoint, CallPlanBack, CompletionAudit, StartTask, TaskTo, vars, ghost
<1>6. ASSUME NEW r, FlowStep(r) PROVE dropped'
    BY <1>1, <1>2, <1>6 DEF FlowStep, RoundStart, Normalize, PrepareTargets, Worker, Reviewer, StageGate, FinalAudit,
           ResultReads, BuildResult, StepRaises, StepFails, RecordFailedStep, Record, StepOnly, ghost
<1>7. CASE Operator
    BY <1>1, <1>2, <1>7 DEF Operator, RestartReads, RestartStep, OperatorRecords, OperatorCloses, OpenCloseout, Record, ghost
<1> QED BY <1>3, <1>4, <1>5, <1>6, <1>7 DEF Next

\* A step that drops no save preserves what the records and their copies are.
LEMMA StepKept ==
    ASSUME Kept, CopiesFit, [Next]_vars, ~dropped'
    PROVE  Kept' /\ CopiesFit'
<1>1. CASE UNCHANGED vars
    <2>1. UNCHANGED <<decls, deleted, strategy, rounds, flows, task, tasks, closing, copy, planCopy,
                      unreviewed, lost, orphans, cut>>
        BY <1>1 DEF vars, graph, calls, ghost
    <2>2. Kept' BY <2>1, OnlyCopies
    <2>3. CopyTypes' /\ PlanCopyFits' BY <2>1 DEF CopiesFit, CopyTypes, Copy, PlanCopy, PlanCopyFits, Closing
    <2>4. \A q \in DOMAIN rounds : SameFor(q) BY <2>1 DEF SameFor
    <2>5. CopiesFit' BY <2>1, <2>3, <2>4, CopiesMove
    <2> QED BY <2>2, <2>5
<1>2. CASE Next
    <2>1. Kept'
        BY <1>2, PlanKept, CloseoutKept, SubmitKept, TaskStepKept, StartTaskKept, FlowStepKept, OperatorKept DEF Next
    <2>2. CopiesFit'
        BY <1>2, PlanCopies, CloseoutCopies, TaskCopies, FlowCopies, OperatorCopies DEF Next
    <2> QED BY <2>1, <2>2
<1> QED BY <1>1, <1>2

LEMMA SoundInductive ==
    ASSUME Sound, [Next]_vars
    PROVE  Sound'
BY DroppedForGood, StepKept DEF Sound

\* As long as no save has dropped another, the records on disk fit each other,
\* the flows, the task and the copies of them, and a closeout in progress could
\* be written back.
LEMMA AlwaysSound == Spec => []Sound
<1>1. Init => Sound BY NothingAtFirst DEF Sound
<1>2. Sound /\ [Next]_vars => Sound' BY SoundInductive
<1> QED BY <1>1, <1>2, PTL DEF Spec

----------------------------------------------------------------------------
(* What it says.                                                           *)

\* As long as no save of a round has dropped another, the records, the flows,
\* the task and the copies of rounds keep their types, and what a round or a
\* flow names exists.
THEOREM DeclRoundTypeCorrect == Spec => [](~dropped => TypeOK)
<1>1. Sound => (~dropped => TypeOK) BY DEF Sound, Kept, CopiesFit, TypeOK
<1> QED BY <1>1, AlwaysSound, PTL

\* A node has at most one unfinished round, and it holds every open revision,
\* but for those of a creation or a closeout that did not end.
THEOREM OpenRevisionsHaveARound == Spec => []OpenRevisionsBelongToRound
<1>1. ASSUME Sound PROVE OpenRevisionsBelongToRound
    <2> SUFFICES ASSUME ~dropped PROVE OpenRevisionsBelongToRound BY DEF OpenRevisionsBelongToRound
    <2>0. Kept BY <1>1 DEF Sound
    <2>1. HeadsFit(decls, rounds, Excused) /\ Current = Live(rounds) BY <2>0, Known DEF Kept, RecordsFit
    <2>2. Cardinality(Current) <= 1
        <3>1. CASE Current = {} BY <3>1, FS_EmptySet
        <3>2. CASE Current # {}
            <4>1. PICK r : r \in Current BY <3>2
            <4>2. Current = {r} BY <2>0, <4>1, Known
            <4> QED BY <4>2, FS_Singleton
        <3> QED BY <3>1, <3>2
    <2>3. \A d \in Decls : ~Interrupted(d) => d \notin Excused
        BY DEF Interrupted, Excused, InRounds, RefsOf, Refs
    <2>4. \A r : RefsOf(r) = Refs(rounds[r]) BY DEF RefsOf, Refs
    <2> QED BY <2>1, <2>2, <2>3, <2>4
            DEF OpenRevisionsBelongToRound, HeadsFit, OpenHead, HeadOf, Last, Touched
<1> QED BY <1>1, AlwaysSound, PTL

\* A running round has a running flow, through failed steps, restarts and
\* closeouts, unless its failure could not be recorded.
THEOREM RunningRoundsHaveFlows == Spec => []RunningHasItsFlow
<1>1. Sound => RunningHasItsFlow
    BY Known DEF Sound, RunningHasItsFlow, InStatus, Current, FlowFits
<1> QED BY <1>1, AlwaysSound, PTL

\* A round whose recorded or committed result is a success has every revision
\* at its target, and no commit is better than what was recorded.
THEOREM SuccessWasExecuted == Spec => []SuccessIsEarned
<1>1. ASSUME Sound PROVE SuccessIsEarned
    <2> SUFFICES ASSUME ~dropped PROVE SuccessIsEarned BY DEF SuccessIsEarned
    <2>0. Kept BY <1>1 DEF Sound
    <2>1. \A r \in DOMAIN rounds : ResultFits(decls, rounds[r]) BY <2>0, Known
    <2> QED BY <2>1 DEF SuccessIsEarned, ResultFits, Reached, RefsOf, RevOf, Refs
<1> QED BY <1>1, AlwaysSound, PTL

\* A task that ended ready left no unfinished round, and none appeared since.
THEOREM ReadyLeavesNoRound == Spec => []ReadyMeansClosed
<1>1. Sound => ReadyMeansClosed BY DEF Sound, Kept, TaskFits, ReadyMeansClosed
<1> QED BY <1>1, AlwaysSound, PTL

----------------------------------------------------------------------------
(* What a step may not do.                                                 *)

\* Of the rounds and revisions there are, a step may change round c and, if it
\* is unfinished, the revisions that c refers to.
OnlyTouches(c) ==
    /\ \A q \in DOMAIN rounds \ {c} : rounds'[q] = rounds[q]
    /\ \A d \in Decls : \A i \in DOMAIN decls[d] :
          decls'[d][i] = decls[d][i] \/ (c \in Current /\ d \in RefsOf(c) /\ i = rounds[c].refs[d])

NoneRises ==
    \A d \in Decls : \A i \in DOMAIN decls[d] \cap DOMAIN decls'[d] :
       decls'[d][i].state <= decls[d][i].state

\* A step that keeps the revisions there are raises none.
LEMMA SameRevisions ==
    ASSUME Kept, \A d \in Decls : \A i \in DOMAIN decls[d] \cap DOMAIN decls'[d] : decls'[d][i] = decls[d][i]
    PROVE  NoneRises
<1>1. \A d \in Decls : \A i \in DOMAIN decls[d] : decls[d][i].state \in Nat
    BY Known, LastIn, RevisionNumbers
<1> QED BY <1>1 DEF NoneRises

LEMMA PlanTouches ==
    ASSUME Kept, Plan
    PROVE  NoneRises /\ \E c \in Current \cup {0} : OnlyTouches(c)
<1>1. CASE UNCHANGED <<decls, rounds>>
    <2>1. OnlyTouches(0) BY <1>1 DEF OnlyTouches
    <2> QED BY <1>1, <2>1, SameRevisions
<1>2. CASE CreateRound
    <2>1. decls' = decls /\ \A q \in DOMAIN rounds : rounds'[q] = rounds[q] BY <1>2, Known DEF CreateRound
    <2>2. OnlyTouches(0) BY <2>1 DEF OnlyTouches
    <2> QED BY <2>1, <2>2, SameRevisions
<1>3. ASSUME NEW d \in Decls, NEW goal \in Goals, NEW r \in DOMAIN rounds, CreateDecl(r, d, goal)
      PROVE  NoneRises /\ r \in Current /\ OnlyTouches(r)
    <2>1. r \in Current /\ DOMAIN decls[d] = {} /\ \A e \in Decls \ {d} : decls'[e] = decls[e]
        BY <1>3, Known DEF CreateDecl, InStatus, Revisions
    <2>2. \A q \in DOMAIN rounds \ {r} : rounds'[q] = rounds[q] BY <1>3, Known DEF CreateDecl, Attach
    <2>3. \A e \in Decls : \A i \in DOMAIN decls[e] : decls'[e][i] = decls[e][i] BY <2>1
    <2> QED BY <2>1, <2>2, <2>3, SameRevisions DEF OnlyTouches
<1>4. ASSUME NEW d \in Decls, NEW goal \in Goals, NEW r \in DOMAIN rounds, NEW start \in 0..LastStage,
             OpenUpdate(r, d, start, goal)
      PROVE  NoneRises /\ r \in Current /\ OnlyTouches(r)
    <2>1. r \in Current BY <1>4 DEF OpenUpdate, InStatus
    <2>2. \A q \in DOMAIN rounds \ {r} : rounds'[q] = rounds[q] BY <1>4, Known DEF OpenUpdate, Attach
    <2>3. [state |-> start, goal |-> goal, open |-> TRUE] \in Revision BY DEF Revision
    <2>4. \A e \in Decls : \A i \in DOMAIN decls[e] : decls'[e][i] = decls[e][i]
        BY <1>4, <2>3, Appended DEF OpenUpdate
    <2> QED BY <2>1, <2>2, <2>4, SameRevisions DEF OnlyTouches
<1>5. ASSUME NEW d \in Decls, NEW source, RestoreDecl(d, source)
      PROVE  NoneRises /\ OnlyTouches(0)
    <2>1. rounds' = rounds /\ source \in DOMAIN decls[d] BY <1>5 DEF RestoreDecl
    <2>2. decls[d][source] \in Revision BY <2>1, Known, LastIn
    <2>3. [decls[d][source] EXCEPT !.goal = 0] \in Revision BY <2>2 DEF Revision
    <2>4. \A e \in Decls : \A i \in DOMAIN decls[e] : decls'[e][i] = decls[e][i]
        BY <1>5, <2>3, Appended DEF RestoreDecl
    <2> QED BY <2>1, <2>4, SameRevisions DEF OnlyTouches
<1>6. ASSUME NEW r \in DOMAIN rounds, DiscardDraft(r)
      PROVE  NoneRises /\ r \in Current /\ OnlyTouches(r)
    <2>1. r \in Current /\ \A q \in DOMAIN rounds \ {r} : rounds'[q] = rounds[q]
        BY <1>6, Known DEF DiscardDraft, InStatus
    <2>2. ASSUME NEW d \in Decls, d \notin RefsOf(r) PROVE decls'[d] = decls[d]
        BY <1>6, <2>2 DEF DiscardDraft, DropRevisions
    <2>3. ASSUME NEW d \in Decls, d \in RefsOf(r)
          PROVE  \A i \in DOMAIN decls[d] :
                    IF i = rounds[r].refs[d] THEN i \notin DOMAIN decls'[d] ELSE decls'[d][i] = decls[d][i]
        <3>1. rounds[r].refs[d] = Len(decls[d]) BY <1>6, <2>3 DEF DiscardDraft, OpenHead
        <3>2. Len(decls[d]) \in DOMAIN decls[d] BY <2>3, <3>1 DEF Kept, RecordTypes
        <3>3. decls[d] \in Seq(Revision) /\ decls[d] # <<>> BY <3>2, Known, EmptySeq
        <3>4. decls'[d] = SubSeq(decls[d], 1, Len(decls[d]) - 1)
            BY <1>6, <2>3 DEF DiscardDraft, DropRevisions
        <3>5. /\ decls'[d] \in Seq(Revision) /\ Len(decls'[d]) + 1 = Len(decls[d])
              /\ \A i \in DOMAIN decls'[d] : decls'[d][i] = decls[d][i]
            BY <3>3, <3>4, ButLast
        <3>6. DOMAIN decls'[d] = DOMAIN decls[d] \ {Len(decls[d])} BY <3>3, <3>5, LastIn
        <3> QED BY <3>1, <3>5, <3>6
    <2>4. NoneRises BY <2>2, <2>3, SameRevisions
    <2> QED BY <2>1, <2>2, <2>3, <2>4 DEF OnlyTouches
<1>7. ASSUME NEW r \in DOMAIN rounds, NEW kind \in Results, BeginCloseout(r, kind)
      PROVE  UNCHANGED <<decls, rounds>>
    BY <1>7 DEF BeginCloseout, OpenCloseout, graph
<1>8. CASE EnsureStrategy \/ CloseStrategy \/ \E ds \in SUBSET Decls : DeleteDecls(ds)
    BY <1>1, <1>8 DEF EnsureStrategy, CloseStrategy, DeleteDecls
<1>9. CASE \E r \in DOMAIN rounds : SubmitRound(r) \/ SummaryReads(r)
    BY <1>1, <1>9 DEF SubmitRound, SummaryReads, TaskTo, graph
<1> QED BY <1>1, <1>2, <1>3, <1>4, <1>5, <1>6, <1>7, <1>8, <1>9 DEF Plan

LEMMA CloseoutTouches ==
    ASSUME Kept, CopiesFit, Closeout, ~dropped'
    PROVE  NoneRises /\ \E c \in Current \cup {0} : OnlyTouches(c)
<1> DEFINE c == closing.round
<1>0. CASE UNCHANGED <<decls, rounds>>
    <2>1. OnlyTouches(0) BY <1>0 DEF OnlyTouches
    <2> QED BY <1>0, <2>1, SameRevisions
<1> SUFFICES ASSUME ~UNCHANGED <<decls, rounds>> PROVE NoneRises /\ \E x \in Current \cup {0} : OnlyTouches(x)
    BY <1>0
<1>1. /\ Closing /\ c \in DOMAIN rounds /\ c \in Current /\ RoundsFound /\ RevisionsFound
      /\ closing.decls \in Revisions
    <2>1. Closing \/ SummaryWrites \/ Crash
        BY DEF Closeout, CommitRevision, PersistReads, Persist, RollBackCloseout
    <2>2. SummaryWrites \/ Crash => UNCHANGED <<decls, rounds>>
        BY SummaryIsThere DEF SummaryWrites, Crash, graph
    <2>3. Closing BY <2>1, <2>2
    <2> QED BY <2>3, CloseoutKnown
<1>2. \A d \in Decls : \A i \in DOMAIN decls[d] : decls[d][i].state \in Nat
    BY Known, LastIn, RevisionNumbers
<1>3. ASSUME NEW d \in Decls, CommitRevision(d) PROVE NoneRises /\ OnlyTouches(c)
    <2> DEFINE n == Len(decls[d])
    <2>1. /\ d \in RefsOf(c) /\ n = rounds[c].refs[d] /\ rounds' = rounds
          /\ decls' = [decls EXCEPT ![d][n].open = FALSE]
        BY <1>1, <1>3, CloseoutKnown DEF CommitRevision, OpenHead
    <2>2. n \in DOMAIN decls[d] BY <1>1, <2>1 DEF Kept, RecordTypes
    <2>3. decls[d] \in Seq(Revision) /\ decls[d][n] \in Revision BY <2>2, Known, LastIn
    <2> DEFINE v == [decls[d][n] EXCEPT !.open = FALSE]
    <2>4. v.state = decls[d][n].state BY <2>3 DEF Revision
    <2>5. /\ decls'[d] = [decls[d] EXCEPT ![n] = v] /\ \A e \in Decls \ {d} : decls'[e] = decls[e]
        BY <2>1, Known DEF Revisions
    <2> HIDE DEF v
    <2>6. decls'[d][n] = v /\ \A i \in DOMAIN decls[d] : i # n => decls'[d][i] = decls[d][i]
        BY <2>2, <2>3, <2>5
    <2>7. NoneRises BY <1>2, <2>4, <2>5, <2>6 DEF NoneRises
    <2> QED BY <1>1, <2>1, <2>5, <2>6, <2>7 DEF OnlyTouches
<1>4. CASE Persist
    <2>1. decls' = decls /\ \A q \in DOMAIN rounds \ {c} : rounds'[q] = rounds[q]
        BY <1>1, <1>4, Known DEF Persist, Save
    <2> QED BY <1>1, <2>1, SameRevisions DEF OnlyTouches
<1>5. CASE RollBackCloseout
    <2>1. decls' = closing.decls /\ rounds' = closing.rounds BY <1>5 DEF RollBackCloseout
    <2>2. OnlyTouches(c) BY <1>1, <2>1 DEF OnlyTouches, RoundsFound, RevisionsFound
    <2>3. NoneRises BY <1>1, <2>1 DEF NoneRises, RevisionsFound
    <2> QED BY <1>1, <2>2, <2>3
<1>6. CASE SummaryWrites \/ PersistReads \/ Crash
    BY <1>6, SummaryIsThere DEF SummaryWrites, PersistReads, Crash, graph
<1> QED BY <1>1, <1>3, <1>4, <1>5, <1>6 DEF Closeout

\* A gate raises only its targets, all of them reviewed where a review is asked.
LEMMA GateTouches ==
    ASSUME Kept, NEW r \in DOMAIN rounds, StageGate(r), decls' # decls
    PROVE  /\ OnlyTouches(r) /\ r \in Current
           /\ \A d \in Decls : \A i \in DOMAIN decls[d] \cap DOMAIN decls'[d] :
                 decls'[d][i].state > decls[d][i].state /\ decls'[d][i].state \in AgentReviewed =>
                    d \notin unreviewed
<1> DEFINE f == flows[r]
<1>1. /\ rounds[r].status = "running" /\ Advance(r, f.stage, f.targets) /\ rounds' = rounds
      /\ RunsIn(r, "stage_gate_audit") /\ Passed(f)
    BY DEF StageGate
<1>2. /\ f \in RoundFlow /\ f.stage \in 0..LastStage /\ f.targets \in SUBSET RefsOf(r)
      /\ FitsGhosts(r, rounds[r], f, unreviewed, lost)
    BY <1>1, RunningKnown DEF RunsIn, RoundFlow
<1>3. /\ Raised(r)
      /\ \A d \in Decls : \A i \in DOMAIN decls[d] :
            decls'[d][i] # decls[d][i] => d \in f.targets /\ decls'[d][i].state = f.stage
    BY <1>1, <1>2, AdvanceRaises
<1>4. r \in Current BY <1>1 DEF Current, Unfinished
<1>5. OnlyTouches(r) BY <1>1, <1>3, <1>4 DEF OnlyTouches, Raised
<1>6. f.stage \in AgentReviewed => f.targets \cap unreviewed = {}
    BY <1>1, <1>2 DEF FitsGhosts, Passed, RunsIn
<1>7. \A d \in Decls : \A i \in DOMAIN decls[d] : decls[d][i].state \in Nat
    BY Known, LastIn, RevisionNumbers
<1> QED BY <1>3, <1>4, <1>5, <1>6, <1>7

LEMMA FlowTouches ==
    ASSUME Kept, CopiesFit, NEW r \in DOMAIN rounds, FlowStep(r), decls' = decls, ~dropped'
    PROVE  \E c \in Current \cup {0} : OnlyTouches(c)
<1>1. CASE rounds' = rounds BY <1>1 DEF OnlyTouches
<1>2. CASE rounds' # rounds
    <2>1. r \in Current /\ \E n : rounds' = [rounds EXCEPT ![r] = n]
        <3>1. CASE RoundStart(r)
            BY <1>2, <3>1, Known DEF RoundStart, Current, Unfinished, Round
        <3>2. ASSUME NEW read, NEW kind, NEW marker, Record(r, read, kind, marker)
              PROVE  r \in Current /\ \E n : rounds' = [rounds EXCEPT ![r] = n]
            BY <3>2, Undropped DEF Record, Recordable, Save, Current, Unfinished
        <3>3. CASE BuildResult(r) BY <3>2, <3>3 DEF BuildResult
        <3>4. CASE StepFails(r) BY <1>2, <3>2, <3>4 DEF StepFails, RecordFailedStep
        <3> QED BY <1>2, <3>1, <3>3, <3>4
                DEF FlowStep, Normalize, PrepareTargets, Worker, Reviewer, StageGate, FinalAudit, ResultReads,
                    StepRaises, StepOnly, graph
    <2>2. \A q \in DOMAIN rounds \ {r} : rounds'[q] = rounds[q] BY <2>1, Known
    <2>3. OnlyTouches(r) BY <2>2 DEF OnlyTouches
    <2> QED BY <2>1, <2>3
<1> QED BY <1>1, <1>2

LEMMA OperatorTouches ==
    ASSUME Kept, CopiesFit, Operator, ~dropped'
    PROVE  decls' = decls /\ \E c \in Current \cup {0} : OnlyTouches(c)
<1>1. ASSUME NEW r \in DOMAIN rounds, RestartStep(r) PROVE decls' = decls /\ r \in Current /\ OnlyTouches(r)
    <2>1. CopyFits(r) /\ copy[r].of = "reopening" BY <1>1, Known DEF RestartStep, CopiesFit, NoCopy
    <2>2. copy[r].record = rounds[r] BY <1>1 DEF RestartStep, Save
    <2>3. r \in Current BY <2>1, <2>2 DEF CopyFits, Current, Unfinished
    <2>4. \A q \in DOMAIN rounds \ {r} : rounds'[q] = rounds[q] BY <1>1, Known DEF RestartStep, Save
    <2> QED BY <1>1, <2>3, <2>4 DEF RestartStep, OnlyTouches
<1>2. ASSUME NEW r \in DOMAIN rounds, OperatorRecords(r)
      PROVE  decls' = decls /\ r \in Current /\ OnlyTouches(r)
    <2>1. \A q \in DOMAIN rounds \ {r} : rounds'[q] = rounds[q] BY <1>2, Known DEF OperatorRecords, Record, Save
    <2> QED BY <1>2, <2>1 DEF OperatorRecords, Current, Unfinished, OnlyTouches
<1>3. ASSUME NEW r \in DOMAIN rounds, NEW kind \in Results, OperatorCloses(r, kind)
      PROVE  decls' = decls /\ OnlyTouches(0)
    BY <1>3 DEF OperatorCloses, OpenCloseout, graph, OnlyTouches
<1>4. ASSUME NEW r \in DOMAIN rounds, RestartReads(r) PROVE decls' = decls /\ OnlyTouches(0)
    BY <1>4 DEF RestartReads, graph, OnlyTouches
<1> QED BY <1>1, <1>2, <1>3, <1>4 DEF Operator

\* Only a gate raises a revision, and every step leaves what is closed alone.
LEMMA WhatAStepTouches ==
    ASSUME Kept, CopiesFit, [Next]_vars, ~dropped'
    PROVE  /\ NoneRises \/ \E r \in DOMAIN rounds : StageGate(r) /\ decls' # decls
           /\ \E c \in Current \cup {0} : OnlyTouches(c)
<1>1. CASE UNCHANGED <<decls, rounds>>
    <2>1. OnlyTouches(0) BY <1>1 DEF OnlyTouches
    <2> QED BY <1>1, <2>1, SameRevisions
<1>2. CASE Plan BY <1>2, PlanTouches
<1>3. CASE Closeout BY <1>3, CloseoutTouches
<1>4. CASE Submit \/ TaskStep \/ StartTask \/ UNCHANGED vars
    BY <1>1, <1>4 DEF Submit, SubmitReady, SubmitBlockedOrFailed, PlanIncomplete, TaskStep, EnsureStageAgents,
       Dispatch, ExitWaiting, ProgressCheckpoint, CallPlanBack, CompletionAudit, StartTask, TaskTo, graph, vars
<1>5. ASSUME NEW r \in DOMAIN rounds, FlowStep(r)
      PROVE  /\ NoneRises \/ (StageGate(r) /\ decls' # decls)
             /\ \E c \in Current \cup {0} : OnlyTouches(c)
    <2>1. CASE decls' = decls BY <1>5, <2>1, FlowTouches, SameRevisions
    <2>2. CASE decls' # decls
        <3>1. StageGate(r)
            BY <1>5, <2>2 DEF FlowStep, RoundStart, Normalize, PrepareTargets, Worker, Reviewer, FinalAudit,
               ResultReads, BuildResult, StepRaises, StepFails, StepOnly, graph
        <3> QED BY <2>2, <3>1, GateTouches
    <2> QED BY <2>1, <2>2
<1>6. CASE Operator BY <1>6, OperatorTouches, SameRevisions
<1> QED BY <1>2, <1>3, <1>4, <1>5, <1>6 DEF Next

\* As long as no save of a round has dropped another, no step raises, in a
\* stage with agent review, a declaration with text that no review has passed.
THEOREM AdvancesAreReviewed == Spec => AdvanceIsReviewed
<1> DEFINE Reviewed == \A d \in Decls : \A i \in DOMAIN decls[d] \cap DOMAIN decls'[d] :
                          /\ decls'[d][i].state > decls[d][i].state
                          /\ decls'[d][i].state \in AgentReviewed
                          => d \notin unreviewed
<1>1. ASSUME Kept, Kept', CopiesFit, [Next]_vars, ~dropped' PROVE Reviewed
    <2>1. CASE NoneRises
        <3>1. \A d \in Decls : \A i \in DOMAIN decls[d] : decls[d][i].state \in Nat
            BY <1>1, Known, LastIn, RevisionNumbers
        <3>2. \A d \in Decls : \A i \in DOMAIN decls'[d] : decls'[d][i].state \in Nat
            <4>1. \A d \in Decls : decls'[d] \in Seq(Revision) BY <1>1 DEF Kept, RecordTypes
            <4> QED BY <4>1, LastIn, RevisionNumbers
        <3> QED BY <2>1, <3>1, <3>2 DEF NoneRises
    <2>2. CASE \E r \in DOMAIN rounds : StageGate(r) /\ decls' # decls BY <1>1, <2>2, GateTouches
    <2> QED BY <1>1, <2>1, <2>2, WhatAStepTouches
<1>2. Sound /\ Sound' /\ [Next]_vars => [~dropped' => Reviewed]_vars BY <1>1, DroppedForGood DEF Sound
<1> QED BY <1>2, AlwaysSound, PTL DEF Spec, AdvanceIsReviewed

\* As long as no save of a round has dropped another, no step changes a closed
\* round or a revision it refers to.
THEOREM ClosedRoundsAreFinal == Spec => ClosedIsFinal
<1> DEFINE Final == \A r \in DOMAIN rounds : rounds[r].status \in {"committed", "discarded"} =>
                       /\ rounds'[r] = rounds[r]
                       /\ \A d \in RefsOf(r) : decls'[d][rounds[r].refs[d]] = RevOf(r, d)
<1>1. ASSUME Kept, CopiesFit, [Next]_vars, ~dropped' PROVE Final
    <2> SUFFICES ASSUME NEW r \in DOMAIN rounds, rounds[r].status \in {"committed", "discarded"}
                 PROVE  /\ rounds'[r] = rounds[r]
                        /\ \A d \in RefsOf(r) : decls'[d][rounds[r].refs[d]] = RevOf(r, d)
        OBVIOUS
    <2>1. PICK c \in Current \cup {0} : OnlyTouches(c) BY <1>1, WhatAStepTouches
    <2>2. r # c BY <1>1, Known DEF Current, Unfinished
    <2>3. rounds'[r] = rounds[r] BY <2>1, <2>2 DEF OnlyTouches
    <2>4. ASSUME NEW d \in RefsOf(r) PROVE decls'[d][rounds[r].refs[d]] = decls[d][rounds[r].refs[d]]
        <3>1. d \in Decls /\ d \in Refs(rounds[r]) BY DEF RefsOf, Refs
        <3>2. rounds[r].refs[d] \in DOMAIN decls[d] BY <1>1 DEF Kept, RecordTypes
        <3>3. c \in Current /\ d \in RefsOf(c) => rounds[r].refs[d] # rounds[c].refs[d]
            BY <1>1, <2>2, <3>1 DEF Kept, RecordsFit, RefsFit, RefsOf, Refs, Current
        <3> QED BY <2>1, <3>1, <3>2, <3>3 DEF OnlyTouches
    <2> QED BY <2>3, <2>4 DEF RevOf
<1>2. Sound /\ [Next]_vars => [~dropped' => Final]_vars BY <1>1, DroppedForGood DEF Sound
<1> QED BY <1>2, AlwaysSound, PTL DEF Spec, ClosedIsFinal
=============================================================================

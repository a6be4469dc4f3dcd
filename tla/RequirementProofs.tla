------------------------- MODULE RequirementProofs -------------------------
(***************************************************************************)
(* Proofs about Requirement, for any number of requirements, releases and  *)
(* ends of the process.                                                    *)
(***************************************************************************)
EXTENDS Requirement, TLAPS

\* A version of a requirement's record, in its file or in the hands of one
\* who loaded it: it is answered for the provider that was prepared from it,
\* by a release there is, and is handled only once the provider is attached.
Sound(n, r) ==
    /\ r \in Record
    /\ Settled(r) => n \in provider.refs /\ r.release \in 1..provider.latest
    /\ r.status = "handled" => dep # 0

Busy == ~At("agent") /\ ~At("failed")

\* The Coordinator's requirement, from its creation on. A dependency that is
\* there while its requirement is one of the provider's was attached for it.
CoordinatorSound ==
    /\ Busy => flow.name \in Names
    /\ Busy /\ ~At("create") => Exists(flow.name)
    /\ flow.mem # None => Busy /\ Sound(flow.name, flow.mem)
    /\ At("add") /\ flow.mem # None => flow.mem.status = "open"
    /\ At("handle") /\ flow.mem # None => flow.mem.status = "satisfied"
    /\ At("handle") \/ At("recheck") => dep # 0
    /\ Busy /\ flow.name \notin raced =>
          /\ ~At("create") /\ ~At("add") => file[flow.name].asks
          /\ flow.name \in provider.refs /\ dep # 0 => flow.name \in offers[dep]

\* The provider: prepared from requirements that exist, and every release
\* offers what the releases before it did.
ProviderSound ==
    /\ provider.status = "absent" => provider.latest = 0 /\ provider.refs = {}
    /\ provider.status = "developing" => provider.latest < MaxReleases
    /\ provider.status = "stable" => provider.latest # 0
    /\ draft # None => provider.status = "absent" /\ \A n \in draft.refs : Exists(n)
    /\ \A n \in provider.refs : Exists(n)
    /\ dep \in 0..provider.latest
    /\ \A r \in 1..provider.latest : \A q \in 1..r : offers[q] \subseteq offers[r]

\* A reconciliation is about the latest release, and what it decided from
\* still holds, unless the record has changed since.
ReconcilerSound(c) ==
    Running(c) =>
        /\ rec[c].release = provider.latest /\ rec[c].todo \subseteq provider.refs
        /\ Current(c) # None => Current(c) \in provider.refs /\ rec[c].seen \in Record
        /\ Current(c) # None /\ Current(c) \notin raced /\ rec[c].seen.asks =>
              Current(c) \in offers[rec[c].release]
        /\ rec[c].mem # None =>
              /\ Current(c) # None /\ Sound(Current(c), rec[c].mem)
              /\ rec[c].mem.status \in Accepts(rec[c].call)
              /\ Current(c) \notin raced => rec[c].mem = rec[c].seen

FilesSound  == \A n \in Names : Exists(n) => Sound(n, file[n])
ResumeSound == resume # None => Exists(resume.name) /\ Sound(resume.name, resume.mem)

Sincere ==
    /\ TypeOK
    /\ FilesSound /\ CoordinatorSound /\ ProviderSound /\ ResumeSound
    /\ \A c \in Callers : ReconcilerSound(c)
    /\ SatisfiedByARelease

\* At first there is no requirement, and no provider.
LEMMA InitSincere == Init => Sincere
BY NoneAssumption, BoundAssumption
   DEF Init, Idle, Sincere, TypeOK, Flow, Phases, Provider, Releases, FilesSound, Exists,
       CoordinatorSound, Busy, At, ProviderSound, ResumeSound, ReconcilerSound, Running,
       SatisfiedByARelease

\* What is sound stays so while the provider goes on.
LEMMA SoundStays ==
    ASSUME NEW n, NEW r, Sound(n, r),
           provider.latest \in Nat, provider'.latest \in Nat, provider.latest <= provider'.latest,
           provider.refs \subseteq provider'.refs, dep # 0 => dep' # 0
    PROVE  Sound(n, r)'
BY DEF Sound, Settled

\* Steps of the Coordinator that save nothing.
LEMMA ReadSincere ==
    ASSUME Sincere, FlowReads, flow' \in Flow, CoordinatorSound'
    PROVE  Sincere'
<1> USE DEF FlowReads, FlowFrame
<1>1. TypeOK' BY DEF Sincere, TypeOK
<1>2. FilesSound' BY DEF Sincere, FilesSound, Sound, Exists
<1>3. ProviderSound' BY DEF Sincere, ProviderSound, Exists
<1>4. ResumeSound' BY DEF Sincere, ResumeSound, Sound, Exists
<1>5. ASSUME NEW c \in Callers PROVE ReconcilerSound(c)'
    BY DEF Sincere, ReconcilerSound, Sound, Running, Current
<1>6. SatisfiedByARelease' BY DEF Sincere, SatisfiedByARelease, Exists
<1> QED BY <1>1, <1>2, <1>3, <1>4, <1>5, <1>6 DEF Sincere

LEMMA AskReadSincere ==
    ASSUME Sincere,
           \/ \E n \in Names : SubmitRequirement(n)
           \/ LoadOpen \/ LoadForWaiting \/ StartCoordinator
    PROVE  Sincere'
<1> USE NoneAssumption
    DEF Sincere, TypeOK, FilesSound, CoordinatorSound, Flow, Phases, Busy, At, Sound, Exists, Goto, Load, Loaded,
        NotLoaded, FlowReads, FlowFrame, Failed, Idle
<1>1. ASSUME NEW n \in Names, SubmitRequirement(n) PROVE Sincere'
    <2>1. flow' \in Flow BY <1>1 DEF SubmitRequirement
    <2>2. n \notin provider.refs BY <1>1 DEF SubmitRequirement, ProviderSound
    <2>3. CoordinatorSound' BY <1>1, <2>2 DEF SubmitRequirement
    <2> QED BY <1>1, <2>1, <2>3, ReadSincere DEF SubmitRequirement
<1>2. CASE LoadOpen
    <2>1. flow' \in Flow BY <1>2 DEF LoadOpen, Open
    <2>3. CoordinatorSound' BY <1>2 DEF LoadOpen, Open
    <2> QED BY <1>2, <2>1, <2>3, ReadSincere DEF LoadOpen
<1>3. CASE LoadForWaiting
    <2>1. flow' \in Flow BY <1>3 DEF LoadForWaiting
    <2>3. CoordinatorSound' BY <1>3 DEF LoadForWaiting
    <2> QED BY <1>3, <2>1, <2>3, ReadSincere DEF LoadForWaiting
<1>4. CASE StartCoordinator
    <2>1. flow' \in Flow BY <1>4 DEF StartCoordinator
    <2>3. CoordinatorSound' BY <1>4 DEF StartCoordinator
    <2> QED BY <1>4, <2>1, <2>3, ReadSincere DEF StartCoordinator
<1> QED BY <1>1, <1>2, <1>3, <1>4

LEMMA ResumeReadSincere ==
    ASSUME Sincere, ExitWaiting \/ ResumeGate \/ LoadSatisfied \/ Recheck
    PROVE  Sincere'
<1> USE NoneAssumption
    DEF Sincere, TypeOK, FilesSound, CoordinatorSound, Flow, Phases, Busy, At, Sound, Exists, Goto,
        Load, Loaded, NotLoaded, FlowReads, FlowFrame, Failed, Idle
<1>1. flow' \in Flow
    <2>1. CASE ExitWaiting BY <2>1 DEF ExitWaiting
    <2>2. CASE ResumeGate BY <2>2 DEF ResumeGate
    <2>3. CASE LoadSatisfied BY <2>3 DEF LoadSatisfied
    <2>4. CASE Recheck BY <2>4 DEF Recheck
    <2> QED BY <2>1, <2>2, <2>3, <2>4
<1>2. CASE ExitWaiting
    <2>1. CoordinatorSound' BY <1>2 DEF ExitWaiting
    <2> QED BY <1>1, <1>2, <2>1, ReadSincere DEF ExitWaiting
<1>3. CASE ResumeGate
    <2>1. CoordinatorSound' BY <1>3 DEF ResumeGate
    <2> QED BY <1>1, <1>3, <2>1, ReadSincere DEF ResumeGate
<1>4. CASE LoadSatisfied
    <2>1. CoordinatorSound' BY <1>4 DEF LoadSatisfied
    <2> QED BY <1>1, <1>4, <2>1, ReadSincere DEF LoadSatisfied
<1>5. CASE Recheck
    <2>1. CoordinatorSound' BY <1>5 DEF Recheck
    <2> QED BY <1>1, <1>5, <2>1, ReadSincere DEF Recheck
<1> QED BY <1>2, <1>3, <1>4, <1>5

\* The dependency is attached once, at a release that the requirement names
\* and that offers its interface, or by a Coordinator that waits for nothing.
LEMMA AttachSincere == ASSUME Sincere, AttachProvider \/ AttachReady PROVE Sincere'
<1> USE NoneAssumption DEF Sincere, AttachProvider, AttachReady
<1>1. flow' \in Flow
    <2>1. \A phase \in Phases : [flow EXCEPT !.phase = phase, !.mem = None] \in Flow
        BY DEF TypeOK, Flow
    <2>2. Failed \in Flow BY DEF Failed, Flow, Phases
    <2>3. flow' = flow \/ flow' = Failed
             \/ \E phase \in Phases : flow' = [flow EXCEPT !.phase = phase, !.mem = None]
        BY DEF Goto, AttachFails, Phases
    <2> QED BY <2>1, <2>2, <2>3 DEF TypeOK
<1>2. dep' \in 0..provider.latest /\ (dep # 0 => dep' = dep)
      /\ (dep' # 0 => provider.status # "absent")
    BY DEF TypeOK, Provider, ProviderSound, CoordinatorSound, Busy, At, FilesSound, Sound
<1>3. TypeOK' BY <1>1, <1>2, BoundAssumption DEF TypeOK, Provider
<1>4. ASSUME NEW n, NEW r, Sound(n, r) PROVE Sound(n, r)'
    BY <1>2, <1>4 DEF Sound, Settled
<1>5. FilesSound' /\ ResumeSound' BY <1>4 DEF FilesSound, ResumeSound, Exists
<1>6. ProviderSound' BY <1>2 DEF ProviderSound, Exists
<1>7. ASSUME NEW c \in Callers PROVE ReconcilerSound(c)'
    BY <1>4 DEF ReconcilerSound, Running, Current
<1>8. SatisfiedByARelease' BY DEF SatisfiedByARelease, Exists
<1>9. CoordinatorSound'
    <2>1. CASE AttachReady BY <2>1, <1>4 DEF CoordinatorSound, Busy, At
    <2>2. CASE AttachProvider
        <3>1. /\ flow.name \in Names /\ Exists(flow.name)
              /\ Sound(flow.name, file[flow.name])
              /\ flow.name \notin raced => file[flow.name].asks
              /\ flow.name \in provider.refs \ raced /\ dep # 0 => flow.name \in offers[dep]
            BY <2>2 DEF At, Busy, CoordinatorSound, FilesSound
        <3>2. CASE flow' = Failed
            BY <2>2, <3>2 DEF Failed, CoordinatorSound, Busy, At
        <3>3. CASE flow' # Failed
            <4>1. /\ Settled(file[flow.name])
                  /\ dep' = IF dep = 0 THEN file[flow.name].release ELSE dep
                  /\ flow' = [flow EXCEPT !.phase = IF file[flow.name].status = "satisfied"
                                                    THEN "handle" ELSE "recheck", !.mem = None]
                BY <2>2, <3>3 DEF AttachFails, Goto
            <4>2. dep' # 0 BY <1>2, <3>1, <4>1 DEF Sound
            <4>3. flow.name \notin raced => flow.name \in offers[dep']
                BY <3>1, <4>1 DEF SatisfiedByARelease, Sound
            <4> QED BY <2>2, <3>1, <4>1, <4>2, <4>3
                DEF TypeOK, Flow, CoordinatorSound, Busy, At, Exists
        <3> QED BY <3>2, <3>3
    <2> QED BY <2>1, <2>2
<1> QED BY <1>3, <1>5, <1>6, <1>7, <1>8, <1>9

\* Whoever saves a record leaves the others alone. The others who have it
\* loaded then save what is still sound.
LEMMA SaveSincere ==
    ASSUME Sincere, NEW n \in Names, NEW seen, NEW new, Save(n, seen, new),
           Sound(n, new), UNCHANGED <<dep, provider, offers, draft, crashes>>,
           n \notin raced /\ file[n] = seen =>
              /\ Exists(n) /\ file[n].asks => new.asks
              /\ Settled(new) /\ new.asks => n \in offers[new.release]
    PROVE  /\ file' \in [Names -> Record \cup {None}] /\ raced' \in SUBSET Names
           /\ \A m : Exists(m) /\ m \in Names => Exists(m)'
           /\ \A m \in Names \ raced' : file[m].asks /\ Exists(m) => file'[m].asks
           /\ raced \subseteq raced'
           /\ FilesSound' /\ ProviderSound' /\ SatisfiedByARelease'
<1>1. new \in Record /\ new # None BY NoneAssumption DEF Sound
<1>2. file' \in [Names -> Record \cup {None}] BY <1>1 DEF Sincere, TypeOK, Save
<1>3. raced \subseteq raced' /\ raced' \in SUBSET Names
      /\ (n \notin raced' => file[n] = seen)
    BY DEF Sincere, TypeOK, Save
<1>4. /\ file'[n] = new
      /\ \A m \in Names : m # n => file'[m] = file[m]
    BY DEF Sincere, TypeOK, Save
<1>5. \A m \in Names : Exists(m) => Exists(m)' BY <1>1, <1>4 DEF Exists
<1>6. FilesSound' BY <1>4 DEF Sincere, FilesSound, Sound, Exists
<1>7. ProviderSound' BY <1>5 DEF Sincere, TypeOK, Provider, Draft, ProviderSound
<1>8. SatisfiedByARelease'
    <2> SUFFICES ASSUME NEW m \in Names \ raced', Exists(m)', Settled(file[m])'
                 PROVE  /\ file'[m].release \in 1..provider.latest
                        /\ file'[m].asks => m \in offers[file'[m].release]
        BY DEF SatisfiedByARelease
    <2>1. CASE m = n BY <2>1, <1>3, <1>4 DEF Sound, Settled
    <2>2. CASE m # n
        BY <2>2, <1>3, <1>4 DEF Sincere, SatisfiedByARelease, Exists, Settled
    <2> QED BY <2>1, <2>2
<1> QED BY <1>2, <1>3, <1>4, <1>5, <1>6, <1>7, <1>8

LEMMA OthersSincere ==
    ASSUME Sincere, UNCHANGED <<dep, provider, offers>>, raced \subseteq raced',
           \A n \in Names : Exists(n) => Exists(n)'
    PROVE  /\ resume' = resume => ResumeSound'
           /\ \A c \in Callers : rec'[c] = rec[c] => ReconcilerSound(c)'
<1>1. ASSUME resume' = resume PROVE ResumeSound'
    BY <1>1 DEF Sincere, TypeOK, ResumeSound, Sound
<1>2. ASSUME NEW c \in Callers, rec'[c] = rec[c] PROVE ReconcilerSound(c)'
    BY <1>2 DEF Sincere, ReconcilerSound, Running, Current, Sound
<1> QED BY <1>1, <1>2

\* The Coordinator saves what it loaded with its own change in it.
LEMMA CoordinatorSaveSincere ==
    ASSUME Sincere, CreateRequirement \/ AddInterface \/ MarkWaiting \/ MarkHandled
    PROVE  Sincere'
<1> DEFINE n == flow.name
<1>1. n \in Names /\ Busy /\ flow \in Flow
    BY DEF Sincere, TypeOK, CoordinatorSound, CreateRequirement, AddInterface, MarkWaiting,
           MarkHandled, Loaded, At, Busy
<1> USE <1>1, NoneAssumption
<1>2. ASSUME CreateRequirement, flow' = Failed, UNCHANGED file PROVE Sincere'
    <2>1. flow' \in Flow /\ CoordinatorSound'
        BY <1>2 DEF Failed, Flow, Phases, CoordinatorSound, Busy, At
    <2> QED BY <1>2, <2>1, ReadSincere DEF CreateRequirement, FlowReads
<1>3. ASSUME NEW seen, NEW new, NEW phase \in Phases \ {"agent", "failed", "create"},
             Save(n, seen, new), FlowFrame,
             flow' = [flow EXCEPT !.phase = phase, !.mem = None],
             Sound(n, new),
             n \notin raced /\ file[n] = seen =>
                /\ Exists(n) /\ file[n].asks => new.asks
                /\ Settled(new) /\ new.asks => n \in offers[new.release]
                /\ phase # "add" => new.asks,
             phase \in {"handle", "recheck"} => dep # 0
      PROVE  Sincere'
    <2> USE <1>3 DEF FlowFrame
    <2>1. flow' \in Flow BY DEF Flow
    <2>2. /\ file' \in [Names -> Record \cup {None}] /\ raced' \in SUBSET Names
          /\ \A m : Exists(m) /\ m \in Names => Exists(m)'
          /\ raced \subseteq raced'
          /\ FilesSound' /\ ProviderSound' /\ SatisfiedByARelease'
        BY SaveSincere
    <2>3. TypeOK' BY <2>1, <2>2 DEF Sincere, TypeOK
    <2>4. ResumeSound' /\ \A c \in Callers : ReconcilerSound(c)' BY <2>2, OthersSincere
    <2>5. file'[n] = new /\ new # None /\ (n \notin raced' => file[n] = seen)
        BY DEF Save, Sound, Sincere, TypeOK
    <2>6. CoordinatorSound'
        BY <2>2, <2>5 DEF Sincere, CoordinatorSound, Busy, At, Exists, Flow
    <2> QED BY <2>2, <2>3, <2>4, <2>6 DEF Sincere
<1> USE DEF Sincere, TypeOK, CoordinatorSound, FilesSound, Flow, Phases, Sound, Settled, Goto,
        At, Loaded, Exists, Record
<1>4. CASE CreateRequirement
    <2>1. CASE Exists(n) BY <1>2, <1>4, <2>1 DEF CreateRequirement
    <2>2. CASE ~Exists(n)
        <3>1. Save(n, None, NewRecord) /\ FlowFrame BY <1>4, <2>2 DEF CreateRequirement, Save
        <3>2. Sound(n, NewRecord) /\ ~Settled(NewRecord)
            BY BoundAssumption DEF NewRecord
        <3>3. flow' = [flow EXCEPT !.phase = "add", !.mem = None] BY <1>4, <2>2 DEF CreateRequirement
        <3> QED BY <1>3, <2>2, <3>1, <3>2, <3>3
    <2> QED BY <2>1, <2>2
<1>5. CASE AddInterface
    <2> DEFINE new == [flow.mem EXCEPT !.asks = TRUE]
    <2>1. Save(n, flow.mem, new) /\ FlowFrame
          /\ flow' = [flow EXCEPT !.phase = "mark", !.mem = None]
        BY <1>5 DEF AddInterface
    <2>2. Sound(n, new) /\ ~Settled(new) /\ new.asks BY <1>5 DEF AddInterface
    <2> HIDE DEF new
    <2> QED BY <1>3, <2>1, <2>2
<1>6. CASE MarkWaiting
    <2> DEFINE new == [flow.mem EXCEPT !.submitted = TRUE, !.observed = FALSE]
    <2>1. Save(n, flow.mem, new) /\ FlowFrame
          /\ flow' = [flow EXCEPT !.phase = "waiting", !.mem = None]
        BY <1>6 DEF MarkWaiting
    <2>2. Sound(n, new) /\ new.asks = flow.mem.asks /\ new.release = flow.mem.release
          /\ new.status = flow.mem.status
        BY <1>6 DEF MarkWaiting, Busy
    <2>3. n \notin raced /\ file[n] = flow.mem =>
             /\ new.asks
             /\ Settled(new) => n \in offers[new.release]
        BY <1>6, <2>2 DEF MarkWaiting, SatisfiedByARelease, Busy
    <2> HIDE DEF new
    <2> QED BY <1>3, <2>1, <2>2, <2>3
<1>7. CASE MarkHandled
    <2> DEFINE new == [flow.mem EXCEPT !.status = "handled"]
    <2>1. Save(n, flow.mem, new) /\ FlowFrame
          /\ flow' = [flow EXCEPT !.phase = "recheck", !.mem = None]
        BY <1>7 DEF MarkHandled
    <2>2. Sound(n, new) /\ new.asks = flow.mem.asks /\ new.release = flow.mem.release
          /\ flow.mem.status = "satisfied" /\ dep # 0
        BY <1>7 DEF MarkHandled, Busy
    <2>3. n \notin raced /\ file[n] = flow.mem =>
             new.asks /\ n \in offers[new.release]
        BY <1>7, <2>2 DEF MarkHandled, SatisfiedByARelease, Busy
    <2> HIDE DEF new
    <2> QED BY <1>3, <2>1, <2>2, <2>3
<1> QED BY <1>4, <1>5, <1>6, <1>7

\* Before there is a provider nothing is answered and nothing reconciled.
LEMMA NothingBefore ==
    ASSUME Sincere, provider.status = "absent"
    PROVE  /\ provider.latest = 0 /\ provider.refs = {} /\ dep = 0
           /\ \A c \in Callers : rec[c] = None
           /\ \A n, r : Sound(n, r) => ~Settled(r) /\ r.status # "handled"
<1> USE DEF Sincere
<1>1. provider.latest = 0 /\ provider.refs = {} /\ dep = 0 BY DEF ProviderSound
<1>2. ASSUME NEW c \in Callers, rec[c] # None PROVE FALSE
    <2>1. rec[c].release \in Releases BY <1>2 DEF TypeOK, Reconciler
    <2>2. rec[c].release = provider.latest BY <1>2 DEF ReconcilerSound, Running
    <2> QED BY <1>1, <2>1, <2>2, BoundAssumption DEF Releases
<1>3. ASSUME NEW n, NEW r, Sound(n, r) PROVE ~Settled(r) /\ r.status # "handled"
    BY <1>1, <1>3 DEF Sound
<1> QED BY <1>1, <1>2, <1>3

\* The provider's preparation: it names requirements there are, and the
\* repository is new when it takes them over.
LEMMA PrepareSincere == ASSUME Sincere, DraftFromGroup \/ PrepareShell PROVE Sincere'
<1> USE NoneAssumption DEF ProviderFrame
<1>1. CASE DraftFromGroup
    <2> USE <1>1 DEF DraftFromGroup, Sincere
    <2>1. TypeOK' BY DEF TypeOK, Draft, Open
    <2>2. ProviderSound' BY DEF ProviderSound, Open, Exists
    <2>3. FilesSound' /\ ResumeSound' BY DEF FilesSound, ResumeSound, Exists, Sound
    <2>4. CoordinatorSound' BY DEF CoordinatorSound, Busy, At, Exists, Sound
    <2>5. ASSUME NEW c \in Callers PROVE ReconcilerSound(c)'
        BY DEF ReconcilerSound, Running, Current, Sound
    <2>6. SatisfiedByARelease' BY DEF SatisfiedByARelease, Exists
    <2> QED BY <2>1, <2>2, <2>3, <2>4, <2>5, <2>6
<1>2. CASE PrepareShell
    <2> USE <1>2 DEF PrepareShell
    <2>0. provider.status = "absent" /\ draft \in Draft
        BY DEF Sincere, TypeOK, ProviderSound
    <2>1. /\ provider.latest = 0 /\ provider.refs = {} /\ dep = 0
          /\ \A c \in Callers : rec[c] = None
          /\ \A n, r : Sound(n, r) => ~Settled(r) /\ r.status # "handled"
        BY <2>0, NothingBefore
    <2>2. ASSUME NEW n, NEW r, Sound(n, r) PROVE Sound(n, r)' BY <2>1, <2>2 DEF Sound
    <2> USE DEF Sincere
    <2>3. provider' \in Provider BY <2>0, BoundAssumption DEF Provider, Draft
    <2>4. TypeOK' BY <2>3 DEF TypeOK
    <2>5. ProviderSound' BY <2>0, <2>1, BoundAssumption DEF ProviderSound, Exists
    <2>6. FilesSound' /\ ResumeSound' BY <2>2 DEF FilesSound, ResumeSound, Exists
    <2>7. CoordinatorSound' BY <2>1, <2>2 DEF CoordinatorSound, Busy, At, Exists
    <2>8. ASSUME NEW c \in Callers PROVE ReconcilerSound(c)'
        BY <2>1 DEF ReconcilerSound, Running
    <2>9. SatisfiedByARelease' BY <2>1 DEF SatisfiedByARelease, FilesSound, Exists
    <2> QED BY <2>4, <2>5, <2>6, <2>7, <2>8, <2>9
<1> QED BY <1>1, <1>2

\* A release offers what every earlier one did, and no reconciliation of an
\* earlier one is left when it is made.
LEMMA ReleaseSincere == ASSUME Sincere, Release PROVE Sincere'
<1> DEFINE r == provider.latest + 1
<1> USE NoneAssumption, BoundAssumption DEF Sincere, ProviderFrame
<1>1. /\ provider.status = "developing" /\ rec["operator"] = None /\ rec["commit"] = None
      /\ provider.latest \in Nat /\ r \in Releases
    BY DEF Release, Locked, ProviderSound, TypeOK, Provider, Releases
<1>2. PICK extra \in SUBSET Names :
          offers' = [offers EXCEPT ![r] = provider.wants \cup Released \cup extra]
    BY DEF Release
<1>3. /\ provider' = [provider EXCEPT !.status = "stable", !.latest = r]
      /\ rec' = [rec EXCEPT !["commit"] = StartOf(r)]
      /\ UNCHANGED <<draft, file, flow, dep, resume, crashes, raced>>
    BY DEF Release
<1>4. \A q \in 1..provider.latest : offers[q] \subseteq Released BY DEF Released
<1>5. offers \in [Releases -> SUBSET Names] /\ provider.wants \subseteq Names
      /\ provider.refs \subseteq Names
    BY DEF TypeOK, Provider
<1>6. Released \subseteq Names BY <1>1, <1>5 DEF Released, Releases
<1>7. /\ offers' \in [Releases -> SUBSET Names] /\ Released \subseteq offers'[r]
      /\ \A q \in 1..provider.latest : offers'[q] = offers[q]
    BY <1>1, <1>2, <1>5, <1>6 DEF Releases
<1>8. StartOf(r) \in Reconciler BY <1>1, <1>5 DEF StartOf, Reconciler
<1>9. TypeOK'
    <2>1. provider' \in Provider
        <3>1. provider \in Provider /\ r \in 0..MaxReleases
            BY <1>1 DEF TypeOK, Releases
        <3> HIDE DEF r
        <3> QED BY <1>3, <3>1 DEF Provider
    <2>2. rec' \in [Callers -> Reconciler \cup {None}] BY <1>3, <1>8 DEF TypeOK, Callers
    <2> QED BY <1>3, <1>7, <2>1, <2>2 DEF TypeOK
<1>10. /\ provider'.latest = r /\ provider'.refs = provider.refs /\ provider'.status = "stable"
    BY <1>3 DEF TypeOK, Provider
<1> HIDE DEF r
<1>11. ASSUME NEW n, NEW rr, Sound(n, rr) PROVE Sound(n, rr)'
    BY <1>1, <1>3, <1>10, <1>11 DEF Sound, Settled, r
<1>12. FilesSound' /\ ResumeSound' BY <1>3, <1>11 DEF FilesSound, ResumeSound, Exists
<1>13. ProviderSound'
    <2>1. draft = None BY <1>1 DEF ProviderSound
    <2>2. ASSUME NEW p \in 1..provider'.latest, NEW q \in 1..p PROVE offers'[q] \subseteq offers'[p]
        <3>1. CASE p = r
            <4>1. CASE q = r BY <3>1, <4>1
            <4>2. CASE q # r BY <1>1, <1>4, <1>7, <1>10, <2>2, <3>1, <4>2 DEF r
            <4> QED BY <4>1, <4>2
        <3>2. CASE p # r
            BY <1>1, <1>7, <1>10, <2>2, <3>2 DEF r, ProviderSound
        <3> QED BY <3>1, <3>2
    <2> QED BY <1>1, <1>3, <1>10, <2>1, <2>2 DEF ProviderSound, Exists, r
<1>14. dep \in 0..provider.latest BY DEF ProviderSound
<1>15. CoordinatorSound'
    BY <1>1, <1>3, <1>7, <1>10, <1>11, <1>14 DEF CoordinatorSound, Busy, At, Exists
<1>16. ASSUME NEW c \in Callers PROVE ReconcilerSound(c)'
    <2>1. CASE c = "commit"
        BY <1>3, <1>10, <2>1 DEF ReconcilerSound, Running, Current, StartOf, TypeOK
    <2>2. CASE c = "operator" BY <1>1, <1>3, <2>2 DEF ReconcilerSound, Running, TypeOK
    <2> QED BY <2>1, <2>2 DEF Callers
<1>17. SatisfiedByARelease'
    BY <1>1, <1>3, <1>7, <1>10 DEF SatisfiedByARelease, Exists, Settled, r
<1> QED BY <1>9, <1>12, <1>13, <1>15, <1>16, <1>17

\* The provider goes on, or the operator reconciles with its last release.
LEMMA ProviderSincere == ASSUME Sincere, ContinueProvider \/ Reconcile PROVE Sincere'
<1> USE NoneAssumption DEF Sincere, ProviderFrame
<1>1. CASE ContinueProvider
    <2> USE <1>1 DEF ContinueProvider
    <2>0. provider \in Provider BY DEF TypeOK
    <2>1. provider' \in Provider /\ provider'.latest = provider.latest
          /\ provider'.refs = provider.refs /\ provider'.status = "developing"
        <3>1. PICK more \in SUBSET Names :
                 provider' = [provider EXCEPT !.status = "developing", !.wants = @ \cup more]
            BY <1>1 DEF ContinueProvider
        <3>2. provider.wants \cup more \in SUBSET Names BY <2>0 DEF Provider
        <3> QED BY <2>0, <3>1, <3>2 DEF Provider
    <2>2. TypeOK' BY <2>1 DEF TypeOK
    <2>3. ASSUME NEW n, NEW r, Sound(n, r) PROVE Sound(n, r)' BY <2>1, <2>3 DEF Sound
    <2>4. ProviderSound' BY <2>1 DEF ProviderSound, Exists
    <2>5. FilesSound' /\ ResumeSound' BY <2>3 DEF FilesSound, ResumeSound, Exists
    <2>6. CoordinatorSound' BY <2>1, <2>3 DEF CoordinatorSound, Busy, At, Exists
    <2>7. ASSUME NEW c \in Callers PROVE ReconcilerSound(c)'
        BY <2>1, <2>3 DEF ReconcilerSound, Running, Current
    <2>8. SatisfiedByARelease' BY <2>1 DEF SatisfiedByARelease, Exists
    <2> QED BY <2>2, <2>4, <2>5, <2>6, <2>7, <2>8
<1>2. CASE Reconcile
    <2> USE <1>2 DEF Reconcile
    <2>0. provider.latest \in Releases /\ provider.refs \subseteq Names
        BY DEF TypeOK, Provider, ProviderSound, Releases
    <2>1. StartOf(provider.latest) \in Reconciler BY <2>0 DEF StartOf, Reconciler
    <2>2. TypeOK' BY <2>1 DEF TypeOK, Callers
    <2>3. ProviderSound' BY DEF ProviderSound, Exists
    <2>4. FilesSound' /\ ResumeSound' BY DEF FilesSound, ResumeSound, Exists, Sound
    <2>5. CoordinatorSound' BY DEF CoordinatorSound, Busy, At, Exists, Sound
    <2>6. ASSUME NEW c \in Callers PROVE ReconcilerSound(c)'
        <3>1. CASE c = "operator"
            BY <3>1 DEF ReconcilerSound, Running, Current, StartOf, TypeOK
        <3>2. CASE c # "operator"
            BY <3>2 DEF ReconcilerSound, Running, Current, Sound, TypeOK
        <3> QED BY <3>1, <3>2
    <2>7. SatisfiedByARelease' BY DEF SatisfiedByARelease, Exists
    <2> QED BY <2>2, <2>3, <2>4, <2>5, <2>6, <2>7
<1> QED BY <1>1, <1>2

\* Steps of a reconciliation that save nothing.
LEMMA ReconcileReadSincere ==
    ASSUME Sincere, NEW c \in Callers, CheckRef(c) \/ LoadRef(c) \/ ReconcileDone(c)
    PROVE  Sincere'
<1> USE NoneAssumption DEF Sincere, RecFrame
<1>1. /\ UNCHANGED <<file, flow, dep, provider, offers, draft, resume, crashes>>
      /\ raced \subseteq raced' /\ raced' \subseteq Names
      /\ rec[c] \in Reconciler /\ ReconcilerSound(c) /\ Running(c)
    BY DEF CheckRef, LoadRef, ReconcileDone, TypeOK, Running, Current, Reconciler
<1>2. ASSUME NEW value \in Reconciler \cup {None}, rec' = [rec EXCEPT ![c] = value],
             ReconcilerSound(c)'
      PROVE  Sincere'
    <2>0. rec' \in [Callers -> Reconciler \cup {None}]
        BY <1>2 DEF TypeOK
    <2>1. TypeOK' BY <1>1, <2>0 DEF TypeOK
    <2>2. ProviderSound' BY <1>1 DEF ProviderSound, Exists
    <2>3. FilesSound' /\ ResumeSound' BY <1>1 DEF FilesSound, ResumeSound, Exists, Sound
    <2>4. CoordinatorSound' BY <1>1 DEF CoordinatorSound, Busy, At, Exists, Sound
    <2>5. ASSUME NEW d \in Callers PROVE ReconcilerSound(d)'
        <3>1. d # c => rec'[d] = rec[d] BY <1>2 DEF TypeOK
        <3> QED BY <1>1, <1>2, <3>1 DEF ReconcilerSound, Running, Current, Sound
    <2>6. SatisfiedByARelease' BY <1>1 DEF SatisfiedByARelease, Exists
    <2> QED BY <2>1, <2>2, <2>3, <2>4, <2>5, <2>6
<1>3. /\ rec \in [Callers -> Reconciler \cup {None}]
      /\ provider.refs \subseteq Names /\ \A n \in provider.refs : Exists(n)
      /\ \A n \in provider.refs : file[n] \in Record /\ Sound(n, file[n])
      /\ \A q \in 1..provider.latest : offers[q] \subseteq offers[provider.latest]
      /\ provider.latest \in Nat
    BY DEF TypeOK, Provider, ProviderSound, FilesSound, Sound
<1>4. CASE CheckRef(c)
    <2> DEFINE n == CHOOSE n \in rec[c].todo : TRUE
    <2>1. n \in rec[c].todo BY <1>4 DEF CheckRef
    <2>2. n \in provider.refs /\ rec[c].release = provider.latest
        BY <1>1, <2>1 DEF ReconcilerSound
    <2> HIDE DEF n
    <2>3. raced' = raced /\ Current(c) = None /\ rec[c].mem = None
        BY <1>1, <1>4 DEF CheckRef, ReconcilerSound
    <2>4. ASSUME NEW call \in {"satisfy", "record"}, Decide(c, n, call),
                 n \notin raced /\ file[n].asks => n \in offers[provider.latest]
          PROVE  Sincere'
        <3> DEFINE value == [rec[c] EXCEPT !.name = n, !.call = call, !.seen = file[n]]
        <3>0. rec' = [rec EXCEPT ![c] = value] BY <2>4 DEF Decide
        <3>1. rec'[c] = value BY <1>3, <3>0
        <3>2. value \in Reconciler BY <1>1, <1>3, <2>2 DEF Reconciler
        <3>3. ReconcilerSound(c)'
            BY <1>1, <1>3, <2>2, <2>3, <2>4, <3>1 DEF ReconcilerSound, Running, Current, Reconciler
        <3> HIDE DEF value
        <3> QED BY <1>2, <3>0, <3>2, <3>3
    <2>5. CASE Decide(c, n, "record") /\ Settled(file[n])
        BY <1>3, <2>2, <2>4, <2>5 DEF SatisfiedByARelease, Sound
    <2>6. CASE Decide(c, n, "satisfy") /\ TruthHolds(n)
        BY <2>4, <2>6 DEF TruthHolds
    <2>7. CASE rec' = [rec EXCEPT ![c].todo = @ \ {n}]
        <3> DEFINE value == [rec[c] EXCEPT !.todo = @ \ {n}]
        <3>0. rec' = [rec EXCEPT ![c] = value] BY <2>7
        <3>1. rec'[c] = value BY <1>3, <3>0
        <3>2. value \in Reconciler BY <1>1 DEF Reconciler
        <3>3. ReconcilerSound(c)'
            BY <1>1, <2>2, <2>3, <3>1 DEF ReconcilerSound, Running, Current, Reconciler
        <3> HIDE DEF value
        <3> QED BY <1>2, <3>0, <3>2, <3>3
    <2> QED BY <1>4, <2>5, <2>6, <2>7 DEF CheckRef, n
<1>5. CASE LoadRef(c)
    <2> DEFINE n == rec[c].name
    <2>1. n \in provider.refs /\ rec[c].mem = None
        BY <1>1, <1>5 DEF LoadRef, ReconcilerSound, Current
    <2>2. raced' = IF file[n] = rec[c].seen THEN raced ELSE raced \cup {n}
        BY <1>5 DEF LoadRef, Current
    <2>3. CASE NextRef(c)
        <3> DEFINE value == [rec[c] EXCEPT !.todo = @ \ {n}, !.name = None, !.mem = None]
        <3>0. rec' = [rec EXCEPT ![c] = value] BY <2>3 DEF NextRef, Current
        <3>1. rec'[c] = value BY <1>3, <3>0
        <3>2. value \in Reconciler BY <1>1 DEF Reconciler
        <3>3. ReconcilerSound(c)'
            BY <1>1, <3>1 DEF ReconcilerSound, Running, Current, Reconciler
        <3> HIDE DEF value
        <3> QED BY <1>2, <3>0, <3>2, <3>3
    <2>4. CASE rec' = [rec EXCEPT ![c].mem = file[n]] /\ file[n].status \in Accepts(rec[c].call)
        <3> DEFINE value == [rec[c] EXCEPT !.mem = file[n]]
        <3>0. rec' = [rec EXCEPT ![c] = value] BY <2>4
        <3>1. /\ rec'[c] = value
              /\ value.mem = file[n] /\ value.name = n /\ value.seen = rec[c].seen
              /\ value.todo = rec[c].todo /\ value.call = rec[c].call
              /\ value.release = rec[c].release
            BY <1>1, <1>3, <3>0 DEF Reconciler
        <3>2. value \in Reconciler BY <1>1, <1>3, <2>1 DEF Reconciler
        <3>3. Sound(n, file[n]) BY <1>3, <2>1
        <3>4. rec[c].release = provider.latest /\ rec[c].todo \subseteq provider.refs
              /\ rec[c].seen \in Record
              /\ (n \notin raced /\ rec[c].seen.asks => n \in offers[rec[c].release])
            BY <1>1, <1>5 DEF ReconcilerSound, Current, LoadRef
        <3>5. file[n] \in Record /\ n # None BY <1>3, <2>1
        <3> HIDE DEF value, n
        <3>6. /\ rec'[c].mem = file[n] /\ rec'[c].name = n
              /\ UNCHANGED <<rec[c].seen, rec[c].todo, rec[c].call, rec[c].release>>
            BY <3>1
        <3>7. Sound(rec[c].name, rec[c].mem)' BY <1>1, <3>3, <3>6 DEF Sound
        <3>8. n \notin raced' => n \notin raced /\ file[n] = rec[c].seen BY <2>2
        <3>9. ReconcilerSound(c)'
            BY <1>1, <2>1, <2>4, <3>4, <3>5, <3>6, <3>7, <3>8
            DEF ReconcilerSound, Running, Current
        <3> QED BY <1>2, <3>0, <3>2, <3>9
    <2> QED BY <1>5, <2>3, <2>4 DEF LoadRef, Current
<1>6. CASE ReconcileDone(c)
    <2>1. rec' = [rec EXCEPT ![c] = None] BY <1>6 DEF ReconcileDone
    <2>2. ReconcilerSound(c)' BY <1>3, <2>1 DEF ReconcilerSound, Running
    <2> QED BY <1>2, <2>1, <2>2
<1> QED BY <1>4, <1>5, <1>6

\* A reconciliation saves the record it loaded with the release it is about.
LEMMA ReconcileSaveSincere ==
    ASSUME Sincere, NEW c \in Callers, SaveRef(c)
    PROVE  Sincere'
<1> DEFINE n == rec[c].name
           mem == rec[c].mem
           new == [mem EXCEPT !.status = IF rec[c].call = "satisfy" THEN "satisfied" ELSE @,
                              !.release = rec[c].release]
<1> USE NoneAssumption, BoundAssumption DEF Sincere
<1>1. /\ rec[c] \in Reconciler /\ ReconcilerSound(c) /\ Running(c) /\ mem # None
      /\ Save(n, mem, new) /\ NextRef(c) /\ RecFrame
      /\ rec \in [Callers -> Reconciler \cup {None}]
    BY DEF SaveRef, TypeOK, Running, Current
<1>2. /\ n \in Names /\ n \in provider.refs /\ Sound(n, mem)
      /\ rec[c].release \in Releases /\ rec[c].release = provider.latest
      /\ mem.status \in Accepts(rec[c].call)
      /\ rec[c].call \in {"satisfy", "record"} /\ provider.latest \in Nat
    BY <1>1 DEF ReconcilerSound, Current, Reconciler, TypeOK, Provider
<1>3. new \in Record /\ new.asks = mem.asks /\ new.release = provider.latest
      /\ new.status \in {"satisfied", mem.status}
    <2>1. mem \in Record /\ provider.latest \in 0..MaxReleases
        BY <1>2 DEF Sound, Releases
    <2> QED BY <1>2, <2>1 DEF Record
<1>4. Sound(n, new)
    BY <1>2, <1>3 DEF Sound, Accepts, Settled, Releases
<1>5. n \notin raced /\ file[n] = mem => (new.asks => n \in offers[new.release])
    BY <1>1, <1>2, <1>3 DEF ReconcilerSound, Current
<1> HIDE DEF new
<1>6. /\ file' \in [Names -> Record \cup {None}] /\ raced' \in SUBSET Names
      /\ \A m : Exists(m) /\ m \in Names => Exists(m)'
      /\ \A m \in Names \ raced' : file[m].asks /\ Exists(m) => file'[m].asks
      /\ raced \subseteq raced'
      /\ FilesSound' /\ ProviderSound' /\ SatisfiedByARelease'
    BY <1>1, <1>2, <1>3, <1>4, <1>5, SaveSincere DEF RecFrame
<1>7. rec'[c] = [rec[c] EXCEPT !.todo = @ \ {n}, !.name = None, !.mem = None]
      /\ \A d \in Callers \ {c} : rec'[d] = rec[d]
    BY <1>1 DEF NextRef, Current
<1>8. rec'[c] \in Reconciler BY <1>1, <1>7 DEF Reconciler
<1>9. TypeOK' BY <1>1, <1>6, <1>8 DEF TypeOK, RecFrame, NextRef
<1>10. ResumeSound' /\ \A d \in Callers \ {c} : ReconcilerSound(d)'
    BY <1>1, <1>6, <1>7, OthersSincere DEF RecFrame
<1>11. ReconcilerSound(c)'
    BY <1>1, <1>7 DEF ReconcilerSound, Running, Current, Reconciler, RecFrame
<1>12. CoordinatorSound'
    BY <1>1, <1>6 DEF CoordinatorSound, Busy, At, Sound, RecFrame
<1> QED BY <1>6, <1>9, <1>10, <1>11, <1>12

\* The operator's resume request: its save of what it loaded is sound, too.
LEMMA ResumeRequestSincere == ASSUME Sincere, ResumeRequest PROVE Sincere'
<1> USE NoneAssumption DEF Sincere
<1>1. ASSUME NEW n \in Names, LoadForResume(n) PROVE Sincere'
    <2> USE <1>1 DEF LoadForResume
    <2>1. Exists(n) /\ Sound(n, file[n])
        BY DEF CoordinatorSound, Busy, At, FilesSound
    <2>2. TypeOK' BY <2>1 DEF TypeOK, Sound
    <2>3. ResumeSound' BY <2>1 DEF ResumeSound, Exists, Sound
    <2>4. ProviderSound' BY DEF ProviderSound, Exists
    <2>5. FilesSound' BY DEF FilesSound, Exists, Sound
    <2>6. CoordinatorSound' BY DEF CoordinatorSound, Busy, At, Exists, Sound
    <2>7. ASSUME NEW c \in Callers PROVE ReconcilerSound(c)'
        BY DEF ReconcilerSound, Running, Current, Sound
    <2>8. SatisfiedByARelease' BY DEF SatisfiedByARelease, Exists
    <2> QED BY <2>2, <2>3, <2>4, <2>5, <2>6, <2>7, <2>8
<1>2. CASE MarkObserved
    <2> DEFINE n == resume.name
               new == [resume.mem EXCEPT !.observed = TRUE]
    <2>1. /\ Save(n, resume.mem, new) /\ resume' = None
          /\ UNCHANGED <<flow, dep, provider, offers, draft, rec, crashes>>
          /\ n \in Names /\ Exists(n) /\ Sound(n, resume.mem)
        BY <1>2 DEF MarkObserved, ResumeSound, TypeOK
    <2>2. Sound(n, new) /\ new.asks = resume.mem.asks /\ new.release = resume.mem.release
          /\ new.status = resume.mem.status
        BY <2>1 DEF Sound, Record, Settled
    <2>3. n \notin raced /\ file[n] = resume.mem =>
             (Settled(new) /\ new.asks => n \in offers[new.release])
        BY <2>1, <2>2 DEF SatisfiedByARelease, Settled
    <2> HIDE DEF new
    <2>4. /\ file' \in [Names -> Record \cup {None}] /\ raced' \in SUBSET Names
          /\ \A m : Exists(m) /\ m \in Names => Exists(m)'
          /\ \A m \in Names \ raced' : file[m].asks /\ Exists(m) => file'[m].asks
          /\ raced \subseteq raced'
          /\ FilesSound' /\ ProviderSound' /\ SatisfiedByARelease'
        BY <2>1, <2>2, <2>3, SaveSincere
    <2>5. TypeOK' BY <2>1, <2>4 DEF TypeOK
    <2>6. \A c \in Callers : ReconcilerSound(c)' BY <2>1, <2>4, OthersSincere
    <2>7. CoordinatorSound' BY <2>1, <2>4 DEF CoordinatorSound, Busy, At, Sound
    <2> QED BY <2>1, <2>4, <2>5, <2>6, <2>7 DEF ResumeSound
<1> QED BY <1>1, <1>2 DEF ResumeRequest

\* The end of the process loses what was loaded, and nothing that was saved.
LEMMA CrashSincere == ASSUME Sincere, Crash PROVE Sincere'
<1> USE NoneAssumption, BoundAssumption DEF Sincere, Crash
<1>1. flow' \in Flow /\ flow'.name = flow.name /\ flow'.mem = None
      /\ flow'.phase \in {flow.phase, "create", "gate"}
      /\ (flow'.phase = "create" => flow.phase \in {"create", "add", "mark"})
      /\ (flow'.phase = "gate" => flow.phase \in {"gate", "attach", "handle", "recheck"})
      /\ flow'.phase \notin {"handle", "recheck"}
    BY DEF TypeOK, Flow, Phases
<1>2. TypeOK' BY <1>1 DEF TypeOK
<1>3. ProviderSound' BY DEF ProviderSound, Exists
<1>4. FilesSound' /\ ResumeSound' BY DEF FilesSound, ResumeSound, Exists, Sound
<1>5. CoordinatorSound' BY <1>1 DEF CoordinatorSound, Busy, At, Exists
<1>6. ASSUME NEW c \in Callers PROVE ReconcilerSound(c)' BY DEF ReconcilerSound, Running
<1>7. SatisfiedByARelease' BY DEF SatisfiedByARelease, Exists
<1> QED BY <1>2, <1>3, <1>4, <1>5, <1>6, <1>7

\* The invariant is inductive.
LEMMA SincereInductive == Spec => []Sincere
<1>1. Sincere /\ [Next]_vars => Sincere'
    <2> SUFFICES ASSUME Sincere, [Next]_vars PROVE Sincere' OBVIOUS
    <2>1. ASSUME NEW n \in Names, SubmitRequirement(n) PROVE Sincere' BY <2>1, AskReadSincere
    <2>2. CASE Ask BY <2>2, AskReadSincere, CoordinatorSaveSincere DEF Ask
    <2>3. CASE Resume
        BY <2>3, ResumeReadSincere, AttachSincere, CoordinatorSaveSincere DEF Resume
    <2>4. CASE AttachReady \/ StartCoordinator BY <2>4, AttachSincere, AskReadSincere
    <2>5. CASE DraftFromGroup \/ PrepareShell \/ Release \/ ContinueProvider \/ Reconcile
        BY <2>5, PrepareSincere, ReleaseSincere, ProviderSincere
    <2>6. ASSUME NEW c \in Callers, ReconcileStep(c) PROVE Sincere'
        BY <2>6, ReconcileReadSincere, ReconcileSaveSincere DEF ReconcileStep
    <2>7. CASE ResumeRequest BY <2>7, ResumeRequestSincere
    <2>8. CASE Crash BY <2>8, CrashSincere
    <2>9. CASE UNCHANGED vars
        <3> USE <2>9 DEF vars
        <3>1. FlowReads /\ flow' \in Flow BY DEF FlowReads, FlowFrame, Sincere, TypeOK
        <3>2. CoordinatorSound' BY DEF Sincere, CoordinatorSound, Busy, At, Exists, Sound
        <3> QED BY <3>1, <3>2, ReadSincere
    <2> QED BY <2>1, <2>2, <2>3, <2>4, <2>5, <2>6, <2>7, <2>8, <2>9 DEF Next
<1> QED BY <1>1, InitSincere, PTL DEF Spec

\* Requirement files, the Coordinator, the provider, the reconciliations and
\* the operator's request keep their types.
THEOREM RequirementTypeCorrect == Spec => []TypeOK
<1>1. Sincere => TypeOK BY DEF Sincere
<1> QED BY <1>1, SincereInductive, PTL

\* An answered requirement names a release that exists and offers what it
\* asks for, unless a save overtook one it had not seen.
THEOREM AnswersAreTrue == Spec => []SatisfiedByARelease
<1>1. Sincere => SatisfiedByARelease BY DEF Sincere
<1> QED BY <1>1, SincereInductive, PTL

\* No save, however stale, makes a requirement handled before its provider
\* is a dependency of the consumer.
THEOREM HandledIsAttached == Spec => []HandledMeansAttached
<1>1. Sincere => HandledMeansAttached
    BY DEF Sincere, FilesSound, Sound, HandledMeansAttached
<1> QED BY <1>1, SincereInductive, PTL

\* A Coordinator goes on from its wait only with a dependency that offers
\* the interface it asked for.
THEOREM ResumeIsAttached == Spec => ResumedOnItsRelease
<1> DEFINE Resumed == At("recheck") /\ At("agent")' /\ flow.name \notin raced
                         => dep # 0 /\ flow.name \in offers[dep]
<1>1. Sincere /\ [Next]_vars => [Resumed]_vars
    <2> SUFFICES ASSUME Sincere, At("recheck"), At("agent")', flow.name \notin raced, Recheck
                 PROVE  dep # 0 /\ flow.name \in offers[dep]
        <3>1. ASSUME Sincere, [Next]_vars, At("recheck"), At("agent")' PROVE Recheck
            <4>1. flow.phase = "recheck" /\ flow'.phase = "agent" BY <3>1 DEF At
            <4>2. flow \in Flow BY <3>1 DEF Sincere, TypeOK
            <4>3. ASSUME NEW phase \in Phases \ {"agent"}, flow' = [flow EXCEPT !.phase = phase, !.mem = None]
                  PROVE FALSE
                BY <4>1, <4>2, <4>3 DEF Flow
            <4> QED
                BY <3>1, <4>1, <4>2, <4>3
                DEF Next, vars, SubmitRequirement, Ask, CreateRequirement, LoadOpen, AddInterface,
                    LoadForWaiting, MarkWaiting, Resume, ExitWaiting, ResumeGate, AttachProvider,
                    LoadSatisfied, MarkHandled, AttachReady, StartCoordinator, DraftFromGroup,
                    PrepareShell, Release, ContinueProvider, Reconcile, ProviderFrame,
                    ReconcileStep, CheckRef, LoadRef, SaveRef, ReconcileDone, RecFrame,
                    ResumeRequest, LoadForResume, MarkObserved, Crash, FlowReads, FlowFrame,
                    At, Loaded, NotLoaded, Flow
        <3> QED BY <3>1
    <2>1. file[flow.name].status = "handled" /\ dep # 0 BY DEF Recheck, Failed, At
    <2>2. flow.name \in Names /\ Exists(flow.name) /\ Busy
        BY DEF Sincere, CoordinatorSound, At, Busy
    <2> QED BY <2>1, <2>2 DEF Sincere, CoordinatorSound, FilesSound, Sound, Settled, At
<1> QED BY <1>1, SincereInductive, PTL DEF Spec, ResumedOnItsRelease
=============================================================================

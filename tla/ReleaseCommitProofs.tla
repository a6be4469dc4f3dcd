------------------------ MODULE ReleaseCommitProofs ------------------------
(***************************************************************************)
(* Proofs about ReleaseCommit, for any number of releases and edits.       *)
(***************************************************************************)
EXTENDS ReleaseCommit, TLAPS

\* The numbers of releases follow the order of their allocation.
CandidateFits(c, last) ==
    /\ c.id \in 1..last /\ c.parent < c.id /\ c.head < c.id
    /\ c.digest.docs = c.id /\ c.digest.content = c.content

NumbersFit ==
    /\ branch <= next /\ detached <= next /\ Latest <= next
    /\ \A r \in refs : r <= next /\ commits[r].parent < r
    /\ \A a \in Committers : prepared[a] # None => CandidateFits(prepared[a], next)

\* Every manifest there is or can be again, and those yet to be written: one
\* id has one record, whose parent is older.
Known == tree.manifests \cup {Record(prepared[a]) : a \in {x \in Committers : prepared[x] # None}}
            \cup UNION {commits[r].tree.manifests : r \in refs}

OneRecordEach ==
    /\ \A m, x \in Known : m.id = x.id => m = x
    /\ \A m \in Known : m.id <= next /\ m.parent < m.id

\* The latest release of a tree descends from every other that it has.
Tidy(t) == IdsOf(t) \subseteq Lineage(t, t.pub.latest)

\* Which of its writes a commit has made, by where it is.
Forward   == {"model", "manifest", "publication", "git"}
Untouched == {"model", "manifest", "publication", "remove manifest", "restore model", "restore docs"}

CommitFits ==
    Locked =>
        /\ Candidate0.parent = txn.found.pub.latest /\ txn.found.pub.latest <= next
        /\ txn.pc \in Forward => /\ Head = Candidate0.head
                                 /\ tree.docs = Candidate0.id /\ tree.content = Candidate0.content
        /\ txn.pc \in Untouched => tree.pub = txn.found.pub
        /\ txn.pc = "git" => tree.pub = Stable(Candidate0.id)
        /\ txn.pc \in {"model", "manifest"} => tree.manifests = txn.found.manifests
        /\ txn.pc \in {"publication", "git"} => LineageResolves(tree, Candidate0.id)
        /\ txn.pc \in {"publication", "git", "restore publication", "remove manifest"} =>
               tree.manifests = txn.found.manifests \cup {Record(Candidate0)}
        /\ txn.pc \in {"restore model", "restore docs"} /\ ~broken => tree.manifests = txn.found.manifests
        /\ txn.pc = "restore docs" => tree.model = txn.found.model

\* Unless a commit was cut short, no tree has a release that its latest one
\* does not descend from, and what was found stable is committed.
OrderKept ==
    ~broken =>
        /\ \A r \in refs : Tidy(commits[r].tree)
        /\ ~Locked => Tidy(tree)
        /\ Locked => /\ Tidy(txn.found)
                     /\ txn.found.pub.status = "stable" => txn.found.pub.latest \in refs

IInv == /\ TypeOK /\ NumbersFit /\ OneRecordEach /\ CommitFits /\ OrderKept
        /\ CommittedTreeIsItsRelease /\ OffersAreCommitted

----------------------------------------------------------------------------
(* Lineages                                                                *)

\* A lineage depends on the manifests only.
LEMMA LineageOfManifests ==
    ASSUME NEW t, NEW u, t.manifests = u.manifests, NEW r
    PROVE  /\ Lineage(t, r) = Lineage(u, r) /\ IdsOf(t) = IdsOf(u)
           /\ LineageResolves(t, r) <=> LineageResolves(u, r)
BY DEF Lineage, HasParents, IdsOf, LineageResolves

\* A release is in its own lineage.
LEMMA LineageHasSelf ==
    ASSUME NEW t, NEW r \in Ids
    PROVE  r \in Lineage(t, r)
BY DEF Lineage

\* With parents older than their children, a lineage goes back in time.
LEMMA LineageIsOlder ==
    ASSUME NEW t \in Worktree, \A m \in t.manifests : m.parent < m.id, NEW r \in 0..MaxReleases
    PROVE  \A i \in Lineage(t, r) : i <= r
<1> DEFINE S == 0..r
<1>1. S \in SUBSET (0..MaxReleases) /\ r \in S BY BoundAssumption
<1>2. ASSUME NEW m \in t.manifests, m.id \in S PROVE m.parent \in S
    BY <1>2, BoundAssumption DEF Worktree, Manifest, Ids
<1>3. HasParents(t, S) BY <1>2 DEF HasParents
<1>4. Lineage(t, r) \subseteq S BY <1>1, <1>3 DEF Lineage
<1> QED BY <1>4

\* u has the manifests of t and that of a release x.
Extends(u, t, x) == /\ u.manifests = t.manifests \cup {x}
                    /\ \A m \in t.manifests : m.id = x.id => m = x

\* The lineage of a new release is its parent's and itself: it resolves when
\* its parent's does ...
LEMMA LineageExtends ==
    ASSUME NEW t \in Worktree, NEW u \in Worktree, NEW x \in Manifest, Extends(u, t, x),
           LineageResolves(t, x.parent)
    PROVE  LineageResolves(u, x.id)
<1> DEFINE old == Lineage(t, x.parent)
           S == old \cup {0, x.id}
<1>1. x.id \in Ids /\ x.parent \in 0..MaxReleases BY DEF Manifest
<1>2. old \subseteq Ids BY DEF Lineage
<1>3. S \in SUBSET (0..MaxReleases) /\ x.id \in S BY <1>1, <1>2, BoundAssumption DEF Ids
<1>4. ASSUME NEW m \in u.manifests, m.id \in S PROVE m.parent \in S
  <2>1. m \in Manifest BY DEF Worktree
  <2>2. m.id \in Ids /\ m.parent \in 0..MaxReleases /\ m.id # 0 BY <2>1, BoundAssumption DEF Manifest, Ids
  <2>3. CASE m = x
    <3>1. x.parent \in Ids => x.parent \in old BY LineageHasSelf
    <3>2. x.parent \notin Ids => x.parent = 0 BY <1>1, BoundAssumption DEF Ids
    <3> QED BY <2>3, <3>1, <3>2
  <2>4. CASE m # x
    <3>1. m \in t.manifests /\ m.id # x.id BY <2>4 DEF Extends
    <3>2. m.id \in old BY <1>4, <2>2, <3>1
    <3>3. ASSUME NEW T \in SUBSET (0..MaxReleases), x.parent \in T, HasParents(t, T) PROVE m.parent \in T
        BY <3>1, <3>2, <3>3 DEF Lineage, HasParents
    <3>4. m.parent \in Ids => m.parent \in old BY <3>3 DEF Lineage
    <3>5. m.parent \notin Ids => m.parent = 0 BY <2>2, BoundAssumption DEF Ids
    <3> QED BY <3>4, <3>5
  <2> QED BY <2>3, <2>4
<1>5. HasParents(u, S) BY <1>4 DEF HasParents
<1>6. Lineage(u, x.id) \subseteq S /\ Lineage(u, x.id) \subseteq Ids BY <1>3, <1>5 DEF Lineage
<1>7. 0 \notin Ids BY BoundAssumption DEF Ids
<1>8. old \subseteq IdsOf(u) /\ x.id \in IdsOf(u) BY DEF Extends, LineageResolves, IdsOf
<1> QED BY <1>6, <1>7, <1>8 DEF LineageResolves

\* ... and has all that its parent's has.
LEMMA LineageGrows ==
    ASSUME NEW t \in Worktree, NEW u \in Worktree, NEW x \in Manifest, Extends(u, t, x)
    PROVE  Lineage(t, x.parent) \subseteq Lineage(u, x.id)
<1> SUFFICES ASSUME NEW i \in Lineage(t, x.parent), NEW S \in SUBSET (0..MaxReleases), x.id \in S, HasParents(u, S)
             PROVE  i \in S
    BY DEF Lineage
<1>1. x.parent \in S BY DEF HasParents, Extends
<1>2. HasParents(t, S) BY DEF HasParents, Extends
<1> QED BY <1>1, <1>2 DEF Lineage

\* A tidy tree with one more release, a child of the latest, is tidy.
LEMMA TidyExtends ==
    ASSUME NEW t \in Worktree, NEW u \in Worktree, NEW x \in Manifest, Extends(u, t, x), Tidy(t),
           x.parent = t.pub.latest, u.pub.latest = x.id
    PROVE  Tidy(u)
<1>1. IdsOf(u) \subseteq IdsOf(t) \cup {x.id} BY DEF IdsOf, Extends
<1>2. x.id \in Lineage(u, x.id) BY LineageHasSelf DEF Manifest
<1> QED BY <1>1, <1>2, LineageGrows DEF Tidy

\* A tidy tree does not know of releases later than its latest.
LEMMA TidyIsOlder ==
    ASSUME NEW t \in Worktree, Tidy(t), \A m \in t.manifests : m.parent < m.id
    PROVE  \A m \in t.manifests : m.id <= t.pub.latest
<1>1. t.pub.latest \in 0..MaxReleases BY DEF Worktree, Publication
<1> QED BY <1>1, LineageIsOlder DEF Tidy, IdsOf
----------------------------------------------------------------------------
(* The invariant after a step                                              *)

\* What the commit of a release has to be.
Committed(t, r) ==
    /\ t.pub = Stable(r) /\ t.docs = r
    /\ LineageResolves(t, r)
    /\ \A m \in t.manifests : m.id = r => m.content = t.content

LEMMA CommittedPrimed ==
    /\ CommittedTreeIsItsRelease <=> \A r \in refs : Committed(commits[r].tree, r)
    /\ CommittedTreeIsItsRelease' <=> \A r \in refs' : Committed(commits'[r].tree, r)
BY DEF CommittedTreeIsItsRelease, Committed, LineageResolves, IdsOf, Lineage, HasParents, Stable

\* The same of the order of releases, and of what is offered.
LEMMA OrderPrimed ==
    OrderKept' <=>
        (~broken' =>
            /\ \A r \in refs' : Tidy(commits'[r].tree)
            /\ ~Locked' => Tidy(tree')
            /\ Locked' => /\ Tidy(txn'.found)
                          /\ txn'.found.pub.status = "stable" => txn'.found.pub.latest \in refs')
BY DEF OrderKept, Tidy, IdsOf, Lineage, HasParents

\* A stable publication of a release that has a ref is its commit's.
LEMMA OffersPrimed ==
    ASSUME CommittedTreeIsItsRelease', TypeOK',
           ~broken' /\ ~Locked' /\ tree'.pub.status = "stable" => tree'.pub.latest \in refs',
           ~broken' /\ told' # 0 => told' \in refs'
    PROVE  OffersAreCommitted'
<1>1. ASSUME tree'.pub.status = "stable", tree'.pub.latest \in refs'
      PROVE  commits'[tree'.pub.latest].tree.pub = tree'.pub
  <2>1. commits'[tree'.pub.latest].tree.pub = Stable(tree'.pub.latest) BY <1>1, CommittedPrimed DEF Committed
  <2>2. tree'.pub \in Publication BY DEF TypeOK, Worktree
  <2> QED BY <1>1, <2>1, <2>2 DEF Publication, Stable
<1> QED BY <1>1 DEF OffersAreCommitted, LatestIsCommittedUnlessBroken, ToldIsCommitted, Latest

\* Git is as it was, and no record is new.
LEMMA GitKept ==
    ASSUME IInv, UNCHANGED git, next' = next, Known' \subseteq Known
    PROVE  /\ OneRecordEach' /\ CommittedTreeIsItsRelease'
           /\ \A r \in refs' : r <= next' /\ commits'[r].parent < r
           /\ \A r \in refs' : commits'[r] = commits[r] /\ (~broken => Tidy(commits'[r].tree))
<1>1. OneRecordEach' BY DEF IInv, OneRecordEach
<1>2. CommittedTreeIsItsRelease' BY CommittedPrimed DEF IInv, git
<1> QED BY <1>1, <1>2 DEF IInv, NumbersFit, OrderKept, git

\* Candidates may go, and manifests.
LEMMA FewerKnown ==
    ASSUME TypeOK, UNCHANGED git, tree'.manifests \subseteq Known,
           \A a \in Committers : prepared'[a] \in {prepared[a], None}
    PROVE  Known' \subseteq Known
BY DEF Known, git, Record

LEMMA NumbersKept ==
    ASSUME IInv, UNCHANGED git, next' = next, tree'.pub.latest <= next,
           \A a \in Committers : prepared'[a] \in {prepared[a], None}
    PROVE  NumbersFit'
<1>1. \A a \in Committers : prepared'[a] # None => CandidateFits(prepared'[a], next)
    BY DEF IInv, NumbersFit
<1> QED BY <1>1 DEF IInv, NumbersFit, CandidateFits, git, Latest

\* A step between commits that leaves publication and manifests as they are.
LEMMA Harmless ==
    ASSUME IInv, TypeOK', UNCHANGED <<git, next, told, broken>>, ~Locked, ~Locked',
           tree'.manifests = tree.manifests, tree'.pub.latest = tree.pub.latest,
           tree'.pub.status = "stable" => tree.pub.status = "stable",
           \A a \in Committers : prepared'[a] \in {prepared[a], None}
    PROVE  IInv'
<1>1. Known' \subseteq Known BY FewerKnown DEF IInv, Known
<1>2. OneRecordEach' /\ CommittedTreeIsItsRelease' BY <1>1, GitKept
<1>3. NumbersFit' BY NumbersKept DEF IInv, NumbersFit, Latest
<1>4. CommitFits' BY DEF CommitFits
<1>5. ~broken => Tidy(tree')
    BY LineageOfManifests DEF IInv, OrderKept, Tidy
<1>6. OrderKept' BY <1>1, <1>5, GitKept, OrderPrimed
<1>7. OffersAreCommitted'
    BY <1>2, OffersPrimed DEF IInv, OffersAreCommitted, LatestIsCommittedUnlessBroken, ToldIsCommitted, Latest, git
<1> QED BY <1>2, <1>3, <1>4, <1>6, <1>7 DEF IInv

\* A failed commit ends: unless it was cut short, with what it found.
LEMMA EndsAsFound ==
    ASSUME IInv, TypeOK', UNCHANGED <<git, next, told, broken>>, Locked, txn' = None,
           tree'.manifests = tree.manifests, tree'.pub = txn.found.pub,
           ~broken => tree.manifests = txn.found.manifests,
           \A a \in Committers : prepared'[a] \in {prepared[a], None}
    PROVE  IInv'
<1>1. Known' \subseteq Known BY FewerKnown DEF IInv, Known
<1>2. OneRecordEach' /\ CommittedTreeIsItsRelease' BY <1>1, GitKept
<1>3. NumbersFit' BY NumbersKept DEF IInv, CommitFits
<1>4. CommitFits' BY DEF CommitFits, Locked
<1>5. ~broken => Tidy(tree')
    BY LineageOfManifests DEF IInv, OrderKept, Tidy
<1>6. OrderKept' BY <1>1, <1>5, GitKept, OrderPrimed DEF Locked
<1>7. OffersAreCommitted'
    BY <1>2, OffersPrimed DEF IInv, OffersAreCommitted, ToldIsCommitted, OrderKept, git
<1> QED BY <1>2, <1>3, <1>4, <1>6, <1>7 DEF IInv

\* A commit is cut short.
LEMMA CutShort ==
    ASSUME IInv, TypeOK', UNCHANGED <<git, next, tree>>, txn' = None, broken',
           \A a \in Committers : prepared'[a] \in {prepared[a], None}
    PROVE  IInv'
<1>1. Known' \subseteq Known BY FewerKnown DEF IInv, Known
<1>2. OneRecordEach' /\ CommittedTreeIsItsRelease' BY <1>1, GitKept
<1>3. NumbersFit' BY NumbersKept DEF IInv, NumbersFit, Latest
<1>4. CommitFits' BY DEF CommitFits, Locked
<1>5. OrderKept' BY DEF OrderKept
<1>6. OffersAreCommitted' BY DEF OffersAreCommitted, LatestIsCommittedUnlessBroken, ToldIsCommitted
<1> QED BY <1>2, <1>3, <1>4, <1>5, <1>6 DEF IInv
\* A commit goes on.
LEMMA GoesOn ==
    ASSUME IInv, TypeOK', UNCHANGED <<git, next, told, broken, prepared>>, Locked, Locked',
           txn'.by = txn.by, txn'.found = txn.found,
           tree'.manifests \subseteq Known, tree'.pub.latest <= next, CommitFits'
    PROVE  IInv'
<1>1. Known' \subseteq Known BY FewerKnown DEF IInv
<1>2. OneRecordEach' /\ CommittedTreeIsItsRelease' BY <1>1, GitKept
<1>3. NumbersFit' BY NumbersKept DEF IInv
<1>4. OrderKept'
    BY <1>1, GitKept, OrderPrimed DEF IInv, OrderKept, git
<1>5. OffersAreCommitted'
    BY <1>2, OffersPrimed DEF IInv, OffersAreCommitted, ToldIsCommitted, git
<1> QED BY <1>2, <1>3, <1>4, <1>5 DEF IInv

----------------------------------------------------------------------------
(* Types                                                                   *)

\* What the documents written again leave alone.
LEMMA RefreshFrame ==
    ASSUME NEW t \in Worktree, NEW u \in RefreshDocs(t)
    PROVE  u \in Worktree /\ u.pub = t.pub /\ u.manifests = t.manifests /\ u.model = t.model
BY DEF RefreshDocs, Worktree, Publication

\* What the answer to a failed commit leaves alone.
LEMMA FailureFrame ==
    ASSUME TypeOK, NEW a \in Committers, prepared[a] # None, NEW t \in Worktree, AfterFailure(a, t)
    PROVE  /\ tree' \in Worktree /\ tree'.pub = t.pub /\ tree'.manifests = t.manifests /\ tree'.model = t.model
           /\ prepared' \in [Committers -> Candidate \cup {None}]
           /\ \A b \in Committers : prepared'[b] \in {prepared[b], None}
<1>1. prepared[a] \in Candidate BY DEF TypeOK
<1>2. prepared[a].deps \in 0..MaxReleases BY <1>1 DEF Candidate
<1>3. tree' \in Worktree /\ tree'.pub = t.pub /\ tree'.manifests = t.manifests /\ tree'.model = t.model
    BY <1>2 DEF AfterFailure, Worktree
<1>4. prepared' \in [Committers -> Candidate \cup {None}] BY DEF AfterFailure, TypeOK
<1>5. \A b \in Committers : prepared'[b] \in {prepared[b], None} BY DEF AfterFailure, TypeOK
<1> QED BY <1>3, <1>4, <1>5

\* The commit in progress has its candidate.
LEMMA CandidateInHand ==
    ASSUME TypeOK, txn # None
    PROVE  /\ txn \in Transaction /\ txn.by \in Committers /\ txn.found \in Worktree /\ txn.pc \in Phases
           /\ Candidate0 \in Candidate /\ Candidate0 = prepared[txn.by] /\ prepared[txn.by] # None
           /\ Record(Candidate0) \in Manifest /\ Candidate0.id \in Ids /\ Candidate0.id \in 0..MaxReleases
<1>1. txn \in Transaction BY DEF TypeOK
<1>2. txn.by \in Committers /\ txn.found \in Worktree /\ txn.pc \in Phases BY <1>1 DEF Transaction
<1>3. Candidate0 \in Candidate /\ Candidate0 # None BY <1>2 DEF TypeOK, Candidate0
<1> QED BY <1>1, <1>2, <1>3, BoundAssumption DEF Candidate0, Candidate, Record, Manifest, Ids

\* A commit that goes on has its candidate still.
LEMMA GotoTypes ==
    ASSUME TypeOK, txn # None, NEW p \in Phases, Goto(p), prepared' = prepared
    PROVE  /\ txn' \in Transaction /\ txn' # None /\ txn'.pc = p /\ txn'.by = txn.by /\ txn'.found = txn.found
           /\ Candidate0' = Candidate0 /\ Candidate0' # None
<1>1. txn \in Transaction BY CandidateInHand
<1>2. txn' \in Transaction /\ txn'.pc = p /\ txn'.by = txn.by /\ txn'.found = txn.found
    BY <1>1 DEF Goto, Transaction
<1> QED BY <1>2, CandidateInHand, NoneAssumption DEF Candidate0

\* The rest of the types, for a step that keeps git.
LEMMA TypesKept ==
    ASSUME TypeOK, UNCHANGED git, tree' \in Worktree, told' \in 0..MaxReleases, next' \in 0..MaxReleases,
           prepared' \in [Committers -> Candidate \cup {None}],
           txn' \in Transaction \cup {None}, txn' # None => Candidate0' # None, broken' \in BOOLEAN
    PROVE  TypeOK'
BY DEF TypeOK, git
----------------------------------------------------------------------------
(* The repository between releases                                         *)

\* A step that holds no commit and only loses candidates.
LEMMA Idle ==
    ASSUME IInv, UNCHANGED <<git, next, told, broken, txn>>, ~Locked,
           tree' \in Worktree, tree'.manifests = tree.manifests, tree'.pub.latest = tree.pub.latest,
           tree'.pub.status = "stable" => tree.pub.status = "stable",
           prepared' \in [Committers -> Candidate \cup {None}],
           \A a \in Committers : prepared'[a] \in {prepared[a], None},
           txn # None => prepared' = prepared
    PROVE  IInv'
<1>1. TypeOK BY DEF IInv
<1>2. txn' # None => Candidate0' # None BY <1>1, CandidateInHand DEF Candidate0
<1>3. TypeOK' BY <1>1, <1>2, TypesKept DEF TypeOK
<1>4. ~Locked' BY DEF Locked
<1> QED BY <1>3, <1>4, Harmless

LEMMA EditKeeps ==
    ASSUME IInv, Edit
    PROVE  IInv'
<1>1. TypeOK BY DEF IInv
<1>2. tree.content + 1 \in 0..MaxEdits BY <1>1, BoundAssumption DEF Edit, TypeOK, Worktree
<1>3. tree' \in Worktree /\ tree'.manifests = tree.manifests /\ tree'.pub = tree.pub
    BY <1>1, <1>2 DEF Edit, TypeOK, Worktree
<1>4. prepared' = prepared /\ ~Locked /\ UNCHANGED <<git, next, told, broken, txn>> BY DEF Edit, Locked
<1> QED BY <1>1, <1>3, <1>4, Idle DEF TypeOK

LEMMA MarkDevelopingKeeps ==
    ASSUME IInv, MarkDeveloping
    PROVE  IInv'
<1>1. TypeOK BY DEF IInv
<1>2. /\ tree' \in Worktree /\ tree'.manifests = tree.manifests
      /\ tree'.pub.latest = tree.pub.latest /\ tree'.pub.status = "developing"
    BY <1>1 DEF MarkDeveloping, TypeOK, Worktree, Publication
<1>3. prepared' = prepared /\ ~Locked /\ UNCHANGED <<git, next, told, broken, txn>> BY DEF MarkDeveloping
<1> QED BY <1>1, <1>2, <1>3, Idle DEF TypeOK

LEMMA PrepareFailsKeeps ==
    ASSUME IInv, PrepareFails
    PROVE  IInv'
<1>1. TypeOK BY DEF IInv
<1>2. tree' \in Worktree /\ tree'.manifests = tree.manifests /\ tree'.pub = tree.pub
    BY <1>1, RefreshFrame DEF PrepareFails, TypeOK
<1>3. prepared' = prepared /\ ~Locked /\ UNCHANGED <<git, next, told, broken, txn>> BY DEF PrepareFails, Locked
<1> QED BY <1>1, <1>2, <1>3, Idle DEF TypeOK

LEMMA RefusalKeeps ==
    ASSUME IInv, NEW a \in Committers, RefuseCommit(a) \/ BusyCommit(a)
    PROVE  IInv'
<1>1. TypeOK /\ tree \in Worktree BY DEF IInv, TypeOK
<1>2. /\ txn = None /\ prepared[a] # None /\ UNCHANGED <<git, next, told, broken, txn>>
      /\ \E t \in RefreshDocs(tree) : AfterFailure(a, t)
    BY DEF RefuseCommit, BusyCommit, RefreshDocs
<1>3. PICK t \in RefreshDocs(tree) : AfterFailure(a, t) BY <1>2
<1>4. t \in Worktree /\ t.pub = tree.pub /\ t.manifests = tree.manifests BY <1>1, RefreshFrame
<1>5. /\ tree' \in Worktree /\ tree'.manifests = tree.manifests /\ tree'.pub = tree.pub
      /\ prepared' \in [Committers -> Candidate \cup {None}]
      /\ \A b \in Committers : prepared'[b] \in {prepared[b], None}
    BY <1>1, <1>2, <1>3, <1>4, FailureFrame
<1> QED BY <1>2, <1>5, Idle DEF Locked

\* A candidate has a number of its own, and documents that carry it.
LEMMA HoldKeeps ==
    ASSUME IInv, txn = None, next < MaxReleases, UNCHANGED <<git, txn, told, broken>>,
           NEW a \in Committers, NEW kind \in {"semantic", "maintenance"}, NEW t \in Worktree, Hold(a, kind, t),
           t.docs = next + 1, t.pub = tree.pub, t.manifests = tree.manifests
    PROVE  IInv'
<1> DEFINE c == MakeCandidate(kind, t)
<1>1. TypeOK /\ NumbersFit BY DEF IInv
<1>2. next \in Nat /\ next + 1 \in Ids /\ next + 1 \in 0..MaxReleases BY <1>1, BoundAssumption DEF TypeOK, Ids
<1>3. Head \in 0..MaxReleases /\ Head <= next BY <1>1 DEF TypeOK, NumbersFit, Head
<1>4. c \in Candidate BY <1>1, <1>2, <1>3 DEF MakeCandidate, Candidate, TypeOK, Worktree, Publication
<1>5. next' = next + 1 /\ tree' = t /\ prepared' = [prepared EXCEPT ![a] = c] BY DEF Hold
<1>6. prepared'[a] = c /\ \A b \in Committers : b # a => prepared'[b] = prepared[b] BY <1>1, <1>5 DEF TypeOK
<1>7. TypeOK'
  <2>1. prepared' \in [Committers -> Candidate \cup {None}] BY <1>1, <1>4, <1>5 DEF TypeOK
  <2> QED BY <1>1, <1>2, <1>5, <2>1, TypesKept DEF TypeOK
<1>8. c.id = next + 1 /\ c.parent = tree.pub.latest /\ c.head = Head /\ c.content = t.content /\ c.digest = t
    BY DEF MakeCandidate
<1>9. tree.pub.latest \in 0..MaxReleases /\ tree.pub.latest <= next BY <1>1 DEF NumbersFit, Latest, TypeOK, Worktree, Publication
<1>10. NumbersFit'
  <2>1. CandidateFits(c, next + 1) BY <1>2, <1>3, <1>8, <1>9, SMT DEF CandidateFits
  <2>2. ASSUME NEW b \in Committers, b # a, prepared'[b] # None PROVE CandidateFits(prepared'[b], next + 1)
    <3>1. CandidateFits(prepared'[b], next) BY <1>1, <1>6, <2>2 DEF NumbersFit
    <3> QED BY <1>2, <3>1 DEF CandidateFits
  <2>3. \A b \in Committers : prepared'[b] # None => CandidateFits(prepared'[b], next')
      BY <1>5, <1>6, <2>1, <2>2
  <2>4. /\ branch <= next + 1 /\ detached <= next + 1 /\ tree'.pub.latest <= next + 1
        /\ \A r \in refs : r <= next + 1 /\ commits[r].parent < r
    <3>1. branch \in Nat /\ detached \in Nat /\ tree.pub.latest \in Nat /\ \A r \in refs : r \in Nat
        BY <1>1, <1>9 DEF TypeOK, Ids
    <3> QED BY <1>1, <1>2, <1>5, <1>9, <3>1 DEF NumbersFit
  <2> QED BY <1>5, <2>3, <2>4 DEF NumbersFit, git, Latest, CandidateFits
<1>11. OneRecordEach'
  <2>1. Known' \subseteq Known \cup {Record(c)} BY <1>5, <1>6 DEF Known, git, Record
  <2>2. Record(c).id = next + 1 /\ Record(c).parent < next + 1 BY <1>2, <1>8, <1>9 DEF Record
  <2>3. \A m \in Known : m.id <= next /\ m.parent < m.id /\ m.id \in Nat
    <3>1. Known \subseteq Manifest
      <4>1. tree.manifests \subseteq Manifest BY <1>1 DEF TypeOK, Worktree
      <4>2. ASSUME NEW r \in refs PROVE commits[r].tree.manifests \subseteq Manifest
          BY <1>1 DEF TypeOK, GitCommit, Worktree
      <4>3. ASSUME NEW b \in Committers, prepared[b] # None PROVE Record(prepared[b]) \in Manifest
        <5>1. prepared[b] \in Candidate BY <1>1, <4>3 DEF TypeOK
        <5> QED BY <5>1 DEF Candidate, Record, Manifest
      <4> QED BY <4>1, <4>2, <4>3 DEF Known
    <3> QED BY <3>1 DEF IInv, OneRecordEach, Manifest, Ids
  <2>4. \A m, x \in Known' : m.id = x.id => m = x
      BY <1>2, <2>1, <2>2, <2>3 DEF IInv, OneRecordEach
  <2>5. \A m \in Known' : m.id <= next + 1 /\ m.parent < m.id BY <1>2, <2>1, <2>2, <2>3
  <2> QED BY <1>5, <2>4, <2>5 DEF OneRecordEach
<1>12. CommitFits' BY DEF CommitFits, Locked
<1>13. CommittedTreeIsItsRelease' BY CommittedPrimed DEF IInv, git
<1>14. ~Locked /\ ~Locked' BY DEF Locked
<1>15. OrderKept'
  <2>1. ~broken => Tidy(tree') BY <1>5, <1>14, LineageOfManifests DEF IInv, OrderKept, Tidy
  <2> QED BY <1>14, <2>1, OrderPrimed DEF IInv, OrderKept, git
<1>16. OffersAreCommitted'
    BY <1>5, <1>7, <1>13, <1>14, OffersPrimed
       DEF IInv, OffersAreCommitted, LatestIsCommittedUnlessBroken, ToldIsCommitted, Latest, git
<1> QED BY <1>7, <1>10, <1>11, <1>12, <1>13, <1>15, <1>16 DEF IInv

LEMMA PrepareKeeps ==
    ASSUME IInv, NEW a \in Committers, Prepare(a) \/ PrepareMaintenance
    PROVE  IInv'
<1>1. TypeOK /\ tree \in Worktree BY DEF IInv, TypeOK
<1>2. next + 1 \in 0..MaxReleases BY <1>1, BoundAssumption DEF Prepare, PrepareMaintenance, TypeOK
<1>3. CASE Prepare(a)
  <2> DEFINE t == [tree EXCEPT !.docs = next + 1]
  <2>1. t \in Worktree /\ t.docs = next + 1 /\ t.pub = tree.pub /\ t.manifests = tree.manifests
      BY <1>1, <1>2 DEF Worktree
  <2>2. txn = None /\ next < MaxReleases /\ UNCHANGED <<git, txn, told, broken>> /\ Hold(a, "semantic", t)
      BY <1>3 DEF Prepare
  <2> HIDE DEF t
  <2> QED BY <2>1, <2>2, HoldKeeps
<1>4. CASE PrepareMaintenance
  <2> DEFINE t == [tree EXCEPT !.docs = next + 1, !.deps = next + 1]
  <2>1. t \in Worktree /\ t.docs = next + 1 /\ t.pub = tree.pub /\ t.manifests = tree.manifests
      BY <1>1, <1>2 DEF Worktree
  <2>2. txn = None /\ next < MaxReleases /\ UNCHANGED <<git, txn, told, broken>> /\ Hold("operator", "maintenance", t)
      BY <1>4 DEF PrepareMaintenance
  <2>3. "operator" \in Committers BY DEF Committers
  <2> HIDE DEF t
  <2> QED BY <2>1, <2>2, <2>3, HoldKeeps
<1> QED BY <1>3, <1>4
----------------------------------------------------------------------------
(* A commit                                                                *)

\* The manifests of the worktree and of the candidates are known.
LEMMA KnownHas ==
    ASSUME TypeOK
    PROVE  /\ tree.manifests \subseteq Known
           /\ txn # None => Record(Candidate0) \in Known
BY CandidateInHand DEF Known

LEMMA BeginCommitKeeps ==
    ASSUME IInv, NEW a \in Committers, BeginCommit(a)
    PROVE  IInv'
<1> DEFINE c == prepared[a]
<1>1. TypeOK /\ NumbersFit BY DEF IInv
<1>2. /\ txn = None /\ c # None /\ NoDrift(c) /\ UNCHANGED <<tree, git, prepared, next, told, broken>>
      /\ txn' = [pc |-> "model", by |-> a, found |-> tree]
    BY DEF BeginCommit
<1>3. txn' \in Transaction /\ txn' # None
  <2>1. txn' \in Transaction BY <1>1, <1>2 DEF Transaction, Phases, TypeOK
  <2> QED BY <2>1, NoneAssumption
<1>4. txn'.pc = "model" /\ txn'.by = a /\ txn'.found = tree /\ Candidate0' = c BY <1>2 DEF Candidate0
<1>5. TypeOK' BY <1>1, <1>2, <1>3, <1>4, TypesKept DEF TypeOK
<1>6. ~Locked /\ Locked' BY <1>2, <1>3, <1>4 DEF Locked
<1>7. OneRecordEach' /\ CommittedTreeIsItsRelease'
  <2>1. Known' \subseteq Known BY <1>1, <1>2, FewerKnown, KnownHas
  <2> QED BY <1>2, <2>1, GitKept
<1>8. NumbersFit' BY <1>1, <1>2, NumbersKept DEF NumbersFit, Latest
<1>9. CommitFits'
  <2>1. CandidateFits(c, next) BY <1>1, <1>2 DEF NumbersFit
  <2>2. tree.pub.latest = c.parent /\ tree = c.digest /\ Head = c.head BY <1>2 DEF NoDrift
  <2>3. Head' = Head BY <1>2 DEF Head, git
  <2>4. tree.docs = c.id /\ tree.content = c.content BY <2>1, <2>2 DEF CandidateFits
  <2>5. tree.pub.latest <= next BY <1>1 DEF NumbersFit, Latest
  <2> QED BY <1>2, <1>4, <2>2, <2>3, <2>4, <2>5 DEF CommitFits
<1>10. OrderKept' BY <1>2, <1>4, <1>6, OrderPrimed
         DEF IInv, OrderKept, OffersAreCommitted, LatestIsCommittedUnlessBroken, Latest, git
<1>11. OffersAreCommitted' BY <1>2, <1>5, <1>6, <1>7, OffersPrimed DEF IInv, OffersAreCommitted, ToldIsCommitted, git
<1> QED BY <1>5, <1>7, <1>8, <1>9, <1>10, <1>11 DEF IInv

LEMMA BeginExistingKeeps ==
    ASSUME IInv, NEW a \in Committers, BeginExisting(a)
    PROVE  IInv'
<1>1. TypeOK BY DEF IInv
<1>2. /\ txn = None /\ prepared[a] # None /\ UNCHANGED <<tree, git, prepared, next, told, broken>>
      /\ txn' = [pc |-> "notify", by |-> a, found |-> tree]
    BY DEF BeginExisting
<1>3. txn' \in Transaction /\ txn' # None
  <2>1. txn' \in Transaction BY <1>1, <1>2 DEF Transaction, Phases, TypeOK
  <2> QED BY <2>1, NoneAssumption
<1>4. txn'.pc = "notify" /\ Candidate0' = prepared[a] BY <1>2 DEF Candidate0
<1>5. TypeOK' BY <1>1, <1>2, <1>3, <1>4, TypesKept DEF TypeOK
<1>6. ~Locked /\ ~Locked' BY <1>2, <1>4 DEF Locked
<1> QED BY <1>2, <1>5, <1>6, Harmless

\* What is known of a commit that holds the lock.
LEMMA LockedFacts ==
    ASSUME IInv, NEW p \in Phases \ {"notify"}, At(p)
    PROVE  /\ TypeOK /\ txn # None /\ Locked /\ txn.pc = p
           /\ Candidate0.parent = txn.found.pub.latest /\ txn.found.pub.latest <= next
           /\ CandidateFits(Candidate0, next)
<1>1. TypeOK /\ txn # None /\ Locked /\ txn.pc = p BY DEF IInv, At, Locked
<1>2. CandidateFits(Candidate0, next) BY <1>1, CandidateInHand DEF IInv, NumbersFit
<1> QED BY <1>1, <1>2 DEF IInv, CommitFits

\* A step of a commit that writes the worktree at most.
LEMMA WritesKeep ==
    ASSUME IInv, NEW p \in Phases \ {"notify"}, At(p), NEW q \in Phases \ {"notify"}, Goto(q),
           UNCHANGED <<git, prepared, next, told, broken>>,
           tree' \in Worktree, tree'.manifests \subseteq Known, tree'.pub.latest <= next, CommitFits'
    PROVE  IInv'
<1>1. TypeOK /\ txn # None /\ Locked BY LockedFacts
<1>2. /\ txn' \in Transaction /\ txn' # None /\ txn'.pc = q /\ txn'.by = txn.by /\ txn'.found = txn.found
      /\ Candidate0' # None
    BY <1>1, GotoTypes
<1>3. TypeOK' BY <1>1, <1>2, TypesKept DEF TypeOK
<1>4. Locked' BY <1>2 DEF Locked
<1> QED BY <1>1, <1>2, <1>3, <1>4, GoesOn

LEMMA SyncSummaryKeeps ==
    ASSUME IInv, SyncSummary
    PROVE  IInv'
<1>1. /\ At("model") /\ Goto("manifest") /\ UNCHANGED <<git, prepared, next, told, broken>>
      /\ tree' = tree \/ tree' = [tree EXCEPT !.model = Candidate0.id]
    BY DEF SyncSummary
<1> DEFINE p == "model"
           q == "manifest"
<1>2. p \in Phases \ {"notify"} /\ q \in Phases \ {"notify"} BY DEF Phases
<1>3. TypeOK /\ txn # None /\ Locked /\ txn.pc = "model" BY <1>1, <1>2, LockedFacts
<1>4. Candidate0' = Candidate0 /\ txn'.pc = "manifest" /\ txn'.found = txn.found BY <1>1, <1>2, <1>3, GotoTypes
<1>5. Candidate0.id \in 0..MaxReleases BY <1>3, CandidateInHand
<1>6. /\ tree' \in Worktree /\ tree'.manifests = tree.manifests /\ tree'.pub = tree.pub
      /\ tree'.docs = tree.docs /\ tree'.content = tree.content
    BY <1>1, <1>3, <1>5 DEF TypeOK, Worktree
<1>7. Head' = Head BY <1>1 DEF Head, git
<1>8. CommitFits' BY <1>1, <1>3, <1>4, <1>6, <1>7 DEF IInv, CommitFits, Forward, Untouched
<1>9. tree'.manifests \subseteq Known /\ tree'.pub.latest <= next
    BY <1>3, <1>6, KnownHas DEF IInv, NumbersFit, Latest
<1> QED BY <1>1, <1>2, <1>6, <1>8, <1>9, WritesKeep

\* The manifest of the candidate on top of those found.
LEMMA CreatedManifest ==
    ASSUME IInv, txn # None, NEW u, u.manifests = tree.manifests \cup {Record(Candidate0)}
    PROVE  Extends(u, tree, Record(Candidate0))
<1>1. \A m \in tree.manifests : m.id = Record(Candidate0).id => m = Record(Candidate0)
    BY KnownHas DEF IInv, OneRecordEach
<1> QED BY <1>1 DEF Extends

LEMMA CreateManifestKeeps ==
    ASSUME IInv, CreateManifest
    PROVE  IInv'
<1> DEFINE p == "manifest"
           q == "publication"
           x == Record(Candidate0)
<1>1. p \in Phases \ {"notify"} /\ q \in Phases \ {"notify"} BY DEF Phases
<1>2. At(p) /\ UNCHANGED <<git, next, told, broken>> BY DEF CreateManifest
<1>3. TypeOK /\ txn # None /\ Locked /\ txn.pc = "manifest" BY <1>1, <1>2, LockedFacts
<1>4. x \in Manifest /\ x.id = Candidate0.id /\ x.parent = Candidate0.parent BY <1>3, CandidateInHand DEF Record
<1>5. tree.manifests = txn.found.manifests /\ tree.pub = txn.found.pub BY <1>3 DEF IInv, CommitFits, Untouched
<1>6. CASE /\ LineageResolves(tree, Candidate0.parent)
           /\ tree' = [tree EXCEPT !.manifests = @ \cup {x}]
           /\ Goto(q) /\ UNCHANGED prepared
  <2>1. Candidate0' = Candidate0 /\ txn'.pc = "publication" /\ txn'.found = txn.found
      BY <1>1, <1>3, <1>6, GotoTypes
  <2>2. /\ tree' \in Worktree /\ tree'.manifests = tree.manifests \cup {x} /\ tree'.pub = tree.pub
        /\ tree'.docs = tree.docs /\ tree'.content = tree.content
      BY <1>3, <1>4, <1>6 DEF TypeOK, Worktree
  <2>3. Extends(tree', tree, x) BY <1>3, <2>2, CreatedManifest
  <2>4. LineageResolves(tree', Candidate0.id)
      BY <1>3, <1>4, <1>6, <2>2, <2>3, LineageExtends DEF TypeOK
  <2>5. LineageResolves(tree, Candidate0.id)'
      BY <2>1, <2>4 DEF LineageResolves, Lineage, HasParents, IdsOf
  <2>6. Record(Candidate0)' = x BY <2>1 DEF Record
  <2>7. Head' = Head BY <1>2 DEF Head, git
  <2>8. CommitFits' BY <1>2, <1>3, <1>5, <2>1, <2>2, <2>5, <2>6, <2>7 DEF IInv, CommitFits, Forward, Untouched
  <2>9. tree'.manifests \subseteq Known /\ tree'.pub.latest <= next
      BY <1>3, <2>2, KnownHas DEF IInv, NumbersFit, Latest
  <2> QED BY <1>1, <1>2, <1>6, <2>2, <2>8, <2>9, WritesKeep
<1>7. CASE txn' = None /\ AfterFailure(txn.by, tree)
  <2>1. /\ tree' \in Worktree /\ tree'.pub = tree.pub /\ tree'.manifests = tree.manifests
        /\ prepared' \in [Committers -> Candidate \cup {None}]
        /\ \A b \in Committers : prepared'[b] \in {prepared[b], None}
      BY <1>3, <1>7, CandidateInHand, FailureFrame DEF TypeOK
  <2>2. TypeOK' BY <1>2, <1>3, <1>7, <2>1, TypesKept DEF TypeOK
  <2> QED BY <1>2, <1>3, <1>5, <1>7, <2>1, <2>2, EndsAsFound
<1> QED BY <1>6, <1>7 DEF CreateManifest
LEMMA WritePublicationKeeps ==
    ASSUME IInv, WritePublication
    PROVE  IInv'
<1> DEFINE p == "publication"
<1>1. p \in Phases \ {"notify"} /\ {"git", "restore publication"} \subseteq Phases \ {"notify"} BY DEF Phases
<1>2. At(p) /\ UNCHANGED <<git, prepared, next, told, broken>> BY DEF WritePublication
<1>3. /\ TypeOK /\ txn # None /\ Locked /\ txn.pc = "publication" /\ CandidateFits(Candidate0, next)
    BY <1>1, <1>2, LockedFacts
<1>4. Candidate0.id \in 0..MaxReleases /\ Candidate0.id <= next BY <1>3, CandidateInHand DEF CandidateFits
<1>5. Head' = Head /\ tree.manifests \subseteq Known BY <1>2, <1>3, KnownHas DEF Head, git
<1>6. CASE tree' = [tree EXCEPT !.pub = Stable(Candidate0.id)] /\ Goto("git")
  <2>1. Candidate0' = Candidate0 /\ txn'.pc = "git" /\ txn'.found = txn.found BY <1>1, <1>2, <1>3, <1>6, GotoTypes
  <2>2. /\ tree' \in Worktree /\ tree'.manifests = tree.manifests /\ tree'.pub = Stable(Candidate0.id)
        /\ tree'.docs = tree.docs /\ tree'.content = tree.content
      BY <1>3, <1>4, <1>6 DEF TypeOK, Worktree, Stable, Publication
  <2>3. LineageResolves(tree, Candidate0.id) BY <1>3 DEF IInv, CommitFits
  <2>4. LineageResolves(tree', Candidate0.id) BY <2>2, <2>3, LineageOfManifests
  <2>5. LineageResolves(tree, Candidate0.id)' BY <2>1, <2>4 DEF LineageResolves, Lineage, HasParents, IdsOf
  <2>6. (tree.pub = Stable(Candidate0.id))' BY <2>1, <2>2 DEF Stable
  <2>7. Record(Candidate0)' = Record(Candidate0) BY <2>1 DEF Record
  <2>8. CommitFits'
      BY <1>2, <1>3, <1>5, <2>1, <2>2, <2>5, <2>6, <2>7 DEF IInv, CommitFits, Forward, Untouched
  <2>9. tree'.pub.latest <= next BY <1>4, <2>2 DEF Stable
  <2> QED BY <1>1, <1>2, <1>5, <1>6, <2>2, <2>8, <2>9, WritesKeep
<1>7. CASE tree' = tree /\ Goto("restore publication")
  <2>1. Candidate0' = Candidate0 /\ txn'.pc = "restore publication" /\ txn'.found = txn.found
      BY <1>1, <1>2, <1>3, <1>7, GotoTypes
  <2>2. Record(Candidate0)' = Record(Candidate0) BY <2>1 DEF Record
  <2>3. CommitFits' BY <1>2, <1>3, <1>7, <2>1, <2>2 DEF IInv, CommitFits, Forward, Untouched
  <2> QED BY <1>1, <1>2, <1>3, <1>5, <1>7, <2>3, WritesKeep DEF IInv, NumbersFit, Latest, TypeOK
<1> QED BY <1>6, <1>7 DEF WritePublication

\* The commit and its ref: what the worktree holds is the release.
LEMMA CommitGitKeeps ==
    ASSUME IInv, CommitGit
    PROVE  IInv'
<1> DEFINE p == "git"
           c == Candidate0
           x == Record(c)
<1>1. p \in Phases \ {"notify"} /\ "restore publication" \in Phases \ {"notify"} /\ "notify" \in Phases BY DEF Phases
<1>2. At(p) /\ UNCHANGED <<tree, prepared, next, told, broken>> BY DEF CommitGit
<1>3. /\ TypeOK /\ txn # None /\ Locked /\ txn.pc = "git" /\ CandidateFits(c, next)
      /\ c.parent = txn.found.pub.latest
    BY <1>1, <1>2, LockedFacts
<1>4. /\ Head = c.head /\ tree.docs = c.id /\ tree.content = c.content /\ tree.pub = Stable(c.id)
      /\ LineageResolves(tree, c.id) /\ tree.manifests = txn.found.manifests \cup {x}
    BY <1>3 DEF IInv, CommitFits, Forward
<1>5. c \in Candidate /\ c.id \in Ids /\ x \in Manifest /\ x.id = c.id /\ x.parent = c.parent
    BY <1>3, CandidateInHand DEF Record
<1>6. tree.manifests \subseteq Known /\ x \in Known BY <1>3, KnownHas
<1>7. CASE Goto("restore publication") /\ UNCHANGED git
  <2>1. Candidate0' = c /\ txn'.pc = "restore publication" /\ txn'.found = txn.found
      BY <1>1, <1>2, <1>3, <1>7, GotoTypes
  <2>2. Record(Candidate0)' = x BY <2>1 DEF Record
  <2>3. CommitFits' BY <1>2, <1>3, <1>7, <2>1, <2>2 DEF IInv, CommitFits, Forward, Untouched
  <2> QED BY <1>1, <1>2, <1>3, <1>6, <1>7, <2>3, WritesKeep DEF IInv, NumbersFit, Latest, TypeOK
<1>8. CASE /\ detached = 0 /\ c.id \notin refs
           /\ commits' = [commits EXCEPT ![c.id] = [tree |-> tree, parent |-> Head]]
           /\ refs' = refs \cup {c.id}
           /\ branch' = c.id
           /\ Goto("notify") \/ Goto("restore publication")
           /\ UNCHANGED detached
  <2> DEFINE new == [tree |-> tree, parent |-> Head]
  <2>a. refs' = refs \cup {c.id} /\ branch' = c.id /\ detached' = detached BY <1>8
  <2>1. Head \in 0..MaxReleases /\ Head < c.id BY <1>3, <1>4 DEF TypeOK, Head, CandidateFits
  <2>2. new \in GitCommit /\ new # None
    <3>1. new \in GitCommit BY <1>3, <2>1 DEF GitCommit, TypeOK
    <3> QED BY <3>1, NoneAssumption
  <2>3. commits'[c.id] = new /\ \A r \in refs : commits'[r] = commits[r]
      BY <1>3, <1>5, <1>8 DEF TypeOK
  <2>4. /\ txn' \in Transaction /\ txn' # None /\ txn'.pc \in {"notify", "restore publication"}
        /\ txn'.by = txn.by /\ txn'.found = txn.found /\ Candidate0' = c /\ c # None
      BY <1>1, <1>2, <1>3, <1>8, GotoTypes, CandidateInHand
  <2>5. TypeOK'
    <3>1. commits' \in [Ids -> GitCommit \cup {None}] BY <1>3, <1>8, <2>2 DEF TypeOK
    <3>2. \A r \in refs' : commits'[r] # None BY <1>3, <2>a, <2>2, <2>3 DEF TypeOK
    <3>3. refs' \subseteq Ids /\ c.id \in 0..MaxReleases BY <1>3, <1>5, <2>a, CandidateInHand DEF TypeOK
    <3>4. {branch', detached', told', next'} \subseteq 0..MaxReleases BY <1>2, <1>3, <2>a, <3>3 DEF TypeOK
    <3> QED BY <1>2, <1>3, <2>4, <3>1, <3>2, <3>3, <3>4 DEF TypeOK
  <2>6. Committed(tree, c.id)
    <3>1. \A m \in tree.manifests : m.id = c.id => m.content = tree.content
      <4>1. \A m \in tree.manifests : m.id = c.id => m = x BY <1>5, <1>6 DEF IInv, OneRecordEach
      <4> QED BY <1>4, <4>1 DEF Record
    <3> QED BY <1>4, <3>1 DEF Committed
  <2>7. CommittedTreeIsItsRelease' BY <2>a, <2>3, <2>6, CommittedPrimed DEF IInv
  <2>8. OneRecordEach'
    <3>1. Known' \subseteq Known BY <1>2, <1>6, <2>a, <2>3 DEF Known, Record
    <3> QED BY <1>2, <3>1 DEF IInv, OneRecordEach
  <2>9. NumbersFit'
    <3>1. c.id <= next BY <1>3 DEF CandidateFits
    <3> QED BY <1>2, <2>a, <2>1, <2>3, <3>1 DEF IInv, NumbersFit, Latest, CandidateFits
  <2>10. CommitFits'
    <3>1. CASE txn'.pc = "notify" BY <3>1 DEF CommitFits, Locked
    <3>2. CASE txn'.pc = "restore publication"
      <4>1. Record(Candidate0)' = x BY <2>4 DEF Record
      <4>2. txn.found.pub.latest <= next BY <1>3 DEF IInv, CommitFits
      <4> QED BY <1>2, <1>3, <1>4, <2>4, <3>2, <4>1, <4>2 DEF CommitFits, Forward, Untouched
    <3> QED BY <2>4, <3>1, <3>2
  <2>11. ~broken => Tidy(tree)
    <3>1. ASSUME ~broken PROVE Tidy(tree)
      <4>1. Tidy(txn.found) /\ txn.found \in Worktree /\ tree \in Worktree
          BY <1>3, <3>1, CandidateInHand DEF IInv, OrderKept, TypeOK
      <4>2. \A m \in txn.found.manifests : m.id = x.id => m = x
          BY <1>4, <1>6 DEF IInv, OneRecordEach
      <4>3. Extends(tree, txn.found, x) BY <1>4, <4>2 DEF Extends
      <4>4. tree.pub.latest = x.id BY <1>4, <1>5 DEF Stable
      <4> QED BY <1>3, <1>5, <4>1, <4>3, <4>4, TidyExtends
    <3> QED BY <3>1
  <2>12. OrderKept'
    <3>1. \A r \in refs' : ~broken => Tidy(commits'[r].tree) BY <2>a, <2>3, <2>11 DEF IInv, OrderKept
    <3> QED BY <1>2, <1>3, <2>a, <2>4, <2>11, <3>1, OrderPrimed DEF IInv, OrderKept
  <2>13. OffersAreCommitted'
    <3>1. tree'.pub.latest \in refs' BY <1>2, <1>4, <2>a DEF Stable
    <3> QED BY <1>2, <2>a, <2>5, <2>7, <3>1, OffersPrimed DEF IInv, OffersAreCommitted, ToldIsCommitted
  <2> QED BY <2>5, <2>7, <2>8, <2>9, <2>10, <2>12, <2>13 DEF IInv
<1> QED BY <1>7, <1>8 DEF CommitGit
----------------------------------------------------------------------------
(* A commit undone                                                         *)

LEMMA RestorePublicationKeeps ==
    ASSUME IInv, RestorePublication
    PROVE  IInv'
<1> DEFINE p == "restore publication"
           q == "remove manifest"
<1>1. p \in Phases \ {"notify"} /\ q \in Phases \ {"notify"} BY DEF Phases
<1>2. /\ At(p) /\ Goto(q) /\ UNCHANGED <<git, prepared, next, told, broken>>
      /\ tree' = [tree EXCEPT !.pub = txn.found.pub]
    BY DEF RestorePublication
<1>3. TypeOK /\ txn # None /\ Locked /\ txn.pc = "restore publication" /\ txn.found.pub.latest <= next
    BY <1>1, <1>2, LockedFacts
<1>4. Candidate0' = Candidate0 /\ txn'.pc = "remove manifest" /\ txn'.found = txn.found BY <1>1, <1>2, <1>3, GotoTypes
<1>5. tree' \in Worktree /\ tree'.manifests = tree.manifests /\ tree'.pub = txn.found.pub
  <2>1. txn.found.pub \in Publication BY <1>3, CandidateInHand DEF Worktree
  <2> QED BY <1>2, <1>3, <2>1 DEF TypeOK, Worktree
<1>6. Record(Candidate0)' = Record(Candidate0) BY <1>4 DEF Record
<1>7. CommitFits' BY <1>2, <1>3, <1>4, <1>5, <1>6 DEF IInv, CommitFits, Forward, Untouched
<1> QED BY <1>1, <1>2, <1>3, <1>5, <1>7, KnownHas, WritesKeep

LEMMA RemoveManifestKeeps ==
    ASSUME IInv, RemoveManifest
    PROVE  IInv'
<1> DEFINE p == "remove manifest"
           q == "restore model"
           c == Candidate0
<1>1. p \in Phases \ {"notify"} /\ q \in Phases \ {"notify"} BY DEF Phases
<1>2. /\ At(p) /\ Goto(q) /\ UNCHANGED <<git, prepared, next, told, broken>>
      /\ tree' = [tree EXCEPT !.manifests = {m \in @ : m.id # c.id}]
    BY DEF RemoveManifest
<1>3. /\ TypeOK /\ txn # None /\ Locked /\ txn.pc = "remove manifest" /\ txn.found.pub.latest <= next
      /\ c.parent = txn.found.pub.latest /\ CandidateFits(c, next)
    BY <1>1, <1>2, LockedFacts
<1>4. Candidate0' = c /\ txn'.pc = "restore model" /\ txn'.found = txn.found BY <1>1, <1>2, <1>3, GotoTypes
<1>5. /\ tree' \in Worktree /\ tree'.manifests = {m \in tree.manifests : m.id # c.id}
      /\ tree'.pub = txn.found.pub
  <2>1. tree.pub = txn.found.pub BY <1>3 DEF IInv, CommitFits, Untouched
  <2> QED BY <1>2, <1>3, <2>1 DEF TypeOK, Worktree
<1>6. tree.manifests = txn.found.manifests \cup {Record(c)} BY <1>3 DEF IInv, CommitFits
<1>7. tree.manifests \subseteq Known BY <1>3, KnownHas
<1>8. ASSUME ~broken PROVE tree'.manifests = txn.found.manifests
  <2>1. txn.found \in Worktree /\ Tidy(txn.found) BY <1>3, <1>8, CandidateInHand DEF IInv, OrderKept
  <2>2. \A m \in txn.found.manifests : m.parent < m.id BY <1>6, <1>7 DEF IInv, OneRecordEach
  <2>3. \A m \in txn.found.manifests : m.id <= c.parent BY <1>3, <2>1, <2>2, TidyIsOlder
  <2>4. c.parent < c.id /\ c.parent \in Nat /\ c.id \in Nat
    <3>1. c \in Candidate BY <1>3, CandidateInHand
    <3>2. c.parent \in 0..MaxReleases /\ c.id \in 1..MaxReleases BY <3>1 DEF Candidate, Ids
    <3>3. c.parent < c.id BY <1>3 DEF CandidateFits
    <3> HIDE DEF c
    <3> QED BY <3>2, <3>3, BoundAssumption
  <2>5. \A m \in txn.found.manifests : m.id \in Nat BY <2>1 DEF Worktree, Manifest, Ids
  <2>6. \A m \in txn.found.manifests : m.id # c.id BY <2>3, <2>4, <2>5
  <2>7. Record(c).id = c.id BY DEF Record
  <2> QED BY <1>5, <1>6, <2>6, <2>7
<1>9. CommitFits' BY <1>2, <1>3, <1>4, <1>5, <1>8 DEF IInv, CommitFits, Forward, Untouched
<1> QED BY <1>1, <1>2, <1>3, <1>5, <1>7, <1>9, WritesKeep

LEMMA RestoreModelKeeps ==
    ASSUME IInv, RestoreModel
    PROVE  IInv'
<1> DEFINE p == "restore model"
           q == "restore docs"
<1>1. p \in Phases \ {"notify"} /\ q \in Phases \ {"notify"} BY DEF Phases
<1>2. /\ At(p) /\ Goto(q) /\ UNCHANGED <<git, prepared, next, told, broken>>
      /\ tree' = [tree EXCEPT !.model = txn.found.model]
    BY DEF RestoreModel
<1>3. TypeOK /\ txn # None /\ Locked /\ txn.pc = "restore model" BY <1>1, <1>2, LockedFacts
<1>4. Candidate0' = Candidate0 /\ txn'.pc = "restore docs" /\ txn'.found = txn.found BY <1>1, <1>2, <1>3, GotoTypes
<1>5. /\ tree' \in Worktree /\ tree'.manifests = tree.manifests /\ tree'.pub = tree.pub
      /\ tree'.model = txn.found.model
  <2>1. txn.found.model \in 0..MaxReleases BY <1>3, CandidateInHand DEF Worktree
  <2> QED BY <1>2, <1>3, <2>1 DEF TypeOK, Worktree
<1>6. CommitFits' BY <1>2, <1>3, <1>4, <1>5 DEF IInv, CommitFits, Forward, Untouched
<1>7. tree'.manifests \subseteq Known /\ tree'.pub.latest <= next
    BY <1>3, <1>5, KnownHas DEF IInv, NumbersFit, Latest
<1> QED BY <1>1, <1>2, <1>5, <1>6, <1>7, WritesKeep

\* The end of a rollback that went through.
LEMMA RestoreDocsEnds ==
    ASSUME IInv, RestoreDocs
    PROVE  /\ TypeOK /\ Locked /\ txn # None /\ txn' = None /\ UNCHANGED <<git, next, told, broken>>
           /\ tree' \in Worktree /\ tree'.manifests = tree.manifests /\ tree'.pub = txn.found.pub
           /\ tree'.model = txn.found.model
           /\ ~broken => tree.manifests = txn.found.manifests
           /\ prepared' \in [Committers -> Candidate \cup {None}]
           /\ \A b \in Committers : prepared'[b] \in {prepared[b], None}
<1> DEFINE p == "restore docs"
<1>1. p \in Phases \ {"notify"} BY DEF Phases
<1>2. At(p) /\ txn' = None /\ UNCHANGED <<git, next, told, broken>> BY DEF RestoreDocs
<1>3. TypeOK /\ txn # None /\ Locked /\ txn.pc = "restore docs" BY <1>1, <1>2, LockedFacts
<1>4. tree.pub = txn.found.pub /\ tree.model = txn.found.model /\ (~broken => tree.manifests = txn.found.manifests)
    BY <1>3 DEF IInv, CommitFits, Untouched
<1>5. PICK t \in RefreshDocs(tree) : AfterFailure(txn.by, t) BY DEF RestoreDocs
<1>6. t \in Worktree /\ t.pub = tree.pub /\ t.manifests = tree.manifests /\ t.model = tree.model
    BY <1>3, RefreshFrame DEF TypeOK
<1>7. txn.by \in Committers /\ prepared[txn.by] # None BY <1>3, CandidateInHand
<1>8. /\ tree' \in Worktree /\ tree'.pub = t.pub /\ tree'.manifests = t.manifests /\ tree'.model = t.model
      /\ prepared' \in [Committers -> Candidate \cup {None}]
      /\ \A b \in Committers : prepared'[b] \in {prepared[b], None}
    BY <1>3, <1>5, <1>6, <1>7, FailureFrame
<1> QED BY <1>2, <1>3, <1>4, <1>6, <1>8

LEMMA RestoreDocsKeeps ==
    ASSUME IInv, RestoreDocs
    PROVE  IInv'
<1>1. TypeOK' BY RestoreDocsEnds, TypesKept DEF TypeOK
<1> QED BY <1>1, RestoreDocsEnds, EndsAsFound

LEMMA RollbackFailsKeeps ==
    ASSUME IInv, RollbackFails
    PROVE  IInv'
<1>1. txn' = None /\ broken' = TRUE /\ UNCHANGED <<tree, git, prepared, next, told>> BY DEF RollbackFails
<1>2. TypeOK' BY <1>1, TypesKept DEF IInv, TypeOK
<1> QED BY <1>1, <1>2, CutShort

LEMMA CrashKeeps ==
    ASSUME IInv, Crash
    PROVE  IInv'
<1>1. /\ txn' = None /\ UNCHANGED <<tree, git, next, told>> /\ broken' = (broken \/ Locked)
      /\ prepared' = [prepared EXCEPT !["operator"] = None]
    BY DEF Crash
<1>2. TypeOK BY DEF IInv
<1>3. /\ prepared' \in [Committers -> Candidate \cup {None}]
      /\ \A b \in Committers : prepared'[b] \in {prepared[b], None}
    BY <1>1, <1>2 DEF TypeOK
<1>4. TypeOK' BY <1>1, <1>2, <1>3, TypesKept DEF TypeOK
<1>5. CASE broken \/ Locked BY <1>1, <1>3, <1>4, <1>5, CutShort
<1>6. CASE ~broken /\ ~Locked
  <2>1. ~Locked' BY <1>1 DEF Locked
  <2>2. broken = FALSE /\ broken' = FALSE BY <1>1, <1>2, <1>6 DEF TypeOK
  <2> QED BY <1>1, <1>3, <1>4, <1>6, <2>1, <2>2, Harmless
<1> QED BY <1>5, <1>6

----------------------------------------------------------------------------
(* What consumers are told, and the operator's repairs                     *)

\* An answer names a release that has a ref, or is the old one.
LEMMA ReconcileTells ==
    ASSUME NEW r, told' \in Reconcile(r)
    PROVE  told' = told \/ (told' = r /\ r \in refs)
BY DEF Reconcile, Available, Stable, Latest

LEMMA RefsAreNumbers ==
    ASSUME TypeOK
    PROVE  refs \subseteq 0..MaxReleases
<1>1. refs \subseteq 1..MaxReleases BY DEF TypeOK, Ids
<1> QED BY <1>1, BoundAssumption

LEMMA ToldKeeps ==
    ASSUME IInv, TypeOK', UNCHANGED <<tree, git, next, broken>>, told' = told \/ told' \in refs, ~Locked, ~Locked',
           \A a \in Committers : prepared'[a] \in {prepared[a], None}
    PROVE  IInv'
<1>1. Known' \subseteq Known BY FewerKnown DEF IInv, Known
<1>2. OneRecordEach' /\ CommittedTreeIsItsRelease' BY <1>1, GitKept
<1>3. NumbersFit' BY NumbersKept DEF IInv, NumbersFit, Latest
<1>4. CommitFits' BY DEF CommitFits
<1>5. OrderKept' BY <1>1, GitKept, OrderPrimed DEF IInv, OrderKept
<1>6. OffersAreCommitted'
    BY <1>2, OffersPrimed DEF IInv, OffersAreCommitted, LatestIsCommittedUnlessBroken, ToldIsCommitted, Latest, git
<1> QED BY <1>2, <1>3, <1>4, <1>5, <1>6 DEF IInv

LEMMA NotifyKeeps ==
    ASSUME IInv, Notify
    PROVE  IInv'
<1>1. /\ At("notify") /\ told' \in Reconcile(Candidate0.id) /\ txn' = None /\ UNCHANGED <<tree, git, next, broken>>
      /\ prepared' = IF txn.by = "operator" THEN [prepared EXCEPT !["operator"] = None] ELSE prepared
    BY DEF Notify
<1>2. TypeOK BY DEF IInv
<1>3. /\ prepared' \in [Committers -> Candidate \cup {None}]
      /\ \A b \in Committers : prepared'[b] \in {prepared[b], None}
    BY <1>1, <1>2 DEF TypeOK
<1>4. told' = told \/ told' \in refs BY <1>1, ReconcileTells
<1>5. told' \in 0..MaxReleases BY <1>2, <1>4, RefsAreNumbers DEF TypeOK
<1>6. TypeOK' BY <1>1, <1>2, <1>3, <1>5, TypesKept DEF TypeOK
<1>7. ~Locked /\ ~Locked' BY <1>1 DEF At, Locked
<1> QED BY <1>1, <1>3, <1>4, <1>6, <1>7, ToldKeeps

LEMMA ReconcileAgainKeeps ==
    ASSUME IInv, ReconcileAgain
    PROVE  IInv'
<1>1. ~Locked /\ UNCHANGED <<tree, git, prepared, next, txn, broken>> BY DEF ReconcileAgain
<1>2. told' = told \/ told' \in refs BY ReconcileTells DEF ReconcileAgain
<1>3. TypeOK BY DEF IInv
<1>4. told' \in 0..MaxReleases BY <1>2, <1>3, RefsAreNumbers DEF TypeOK
<1>5. TypeOK' BY <1>1, <1>3, <1>4, TypesKept DEF TypeOK, Candidate0
<1>6. ~Locked' BY <1>1 DEF Locked
<1> QED BY <1>1, <1>2, <1>5, <1>6, ToldKeeps
\* Unless a commit was cut short there is nothing to clean up.
LEMMA CleanUpKeeps ==
    ASSUME IInv, NEW i \in Ids, CleanUpRelease(i)
    PROVE  IInv'
<1>1. /\ txn = None /\ i \in IdsOf(tree) /\ IsOrphan(i) /\ refs' = refs \ {i}
      /\ tree' = tree \/ tree' = [tree EXCEPT !.manifests = {m \in @ : m.id # i}]
      /\ UNCHANGED <<commits, branch, detached, prepared, next, txn, told, broken>>
    BY DEF CleanUpRelease
<1>2. TypeOK BY DEF IInv
<1>3. tree' \in Worktree /\ tree'.manifests \subseteq tree.manifests /\ tree'.pub = tree.pub
    BY <1>1, <1>2 DEF TypeOK, Worktree
<1>4. TypeOK' BY <1>1, <1>2, <1>3 DEF TypeOK, Candidate0
<1>5. ~Locked /\ ~Locked' BY <1>1 DEF Locked
<1>6. broken /\ broken'
  <2>1. i \notin Lineage(tree, Latest) BY <1>1 DEF IsOrphan
  <2>2. ~Tidy(tree) BY <1>1, <2>1 DEF Tidy, Latest
  <2> QED BY <1>1, <1>5, <2>2 DEF IInv, OrderKept
<1>7. CommittedTreeIsItsRelease' BY <1>1, CommittedPrimed DEF IInv
<1>8. OneRecordEach'
  <2>1. Known' \subseteq Known BY <1>1, <1>3 DEF Known, Record
  <2> QED BY <1>1, <2>1 DEF IInv, OneRecordEach
<1>9. NumbersFit' BY <1>1, <1>3 DEF IInv, NumbersFit, Latest, CandidateFits
<1>10. CommitFits' BY <1>5 DEF CommitFits
<1>11. OrderKept' BY <1>6 DEF OrderKept
<1>12. OffersAreCommitted' BY <1>6 DEF OffersAreCommitted, LatestIsCommittedUnlessBroken, ToldIsCommitted
<1> QED BY <1>4, <1>7, <1>8, <1>9, <1>10, <1>11, <1>12 DEF IInv

\* What is checked out is a release that was committed.
LEMMA RestoreReleaseKeeps ==
    ASSUME IInv, NEW i \in Ids, RestoreRelease(i)
    PROVE  IInv'
<1>1. /\ txn = None /\ i \in refs /\ tree' = commits[i].tree /\ detached' = i
      /\ UNCHANGED <<commits, refs, branch, prepared, next, txn, told, broken>>
    BY DEF RestoreRelease
<1>2. TypeOK BY DEF IInv
<1>3. tree' \in Worktree
  <2>1. commits[i] \in GitCommit BY <1>1, <1>2 DEF TypeOK
  <2> QED BY <1>1, <2>1 DEF GitCommit
<1>4. TypeOK' BY <1>1, <1>2, <1>3, RefsAreNumbers DEF TypeOK, Candidate0
<1>5. ~Locked /\ ~Locked' BY <1>1 DEF Locked
<1>6. tree'.pub = Stable(i) /\ tree'.pub.latest = i
  <2>1. Committed(commits[i].tree, i) BY <1>1, CommittedPrimed DEF IInv
  <2> QED BY <1>1, <2>1 DEF Committed, Stable
<1>7. CommittedTreeIsItsRelease' BY <1>1, CommittedPrimed DEF IInv
<1>8. OneRecordEach'
  <2>1. Known' \subseteq Known BY <1>1 DEF Known, Record
  <2> QED BY <1>1, <2>1 DEF IInv, OneRecordEach
<1>9. NumbersFit' BY <1>1, <1>6 DEF IInv, NumbersFit, Latest, CandidateFits
<1>10. CommitFits' BY <1>5 DEF CommitFits
<1>11. OrderKept' BY <1>1, <1>5, OrderPrimed DEF IInv, OrderKept
<1>12. OffersAreCommitted'
    BY <1>1, <1>4, <1>6, <1>7, OffersPrimed DEF IInv, OffersAreCommitted, ToldIsCommitted
<1> QED BY <1>4, <1>7, <1>8, <1>9, <1>10, <1>11, <1>12 DEF IInv

----------------------------------------------------------------------------
(* The theorems                                                            *)

LEMMA InitKeeps == Init => IInv
<1> SUFFICES ASSUME Init PROVE IInv OBVIOUS
<1>1. tree \in Worktree /\ tree.manifests = {} /\ tree.pub.latest = 0 /\ tree.pub.status = "developing"
    BY BoundAssumption DEF Init, Worktree, Publication
<1>2. refs = {} /\ txn = None /\ ~Locked /\ \A a \in Committers : prepared[a] = None BY DEF Init, Locked
<1>3. TypeOK
  <2>1. {branch, detached, told, next} \subseteq 0..MaxReleases BY BoundAssumption DEF Init
  <2> QED BY <1>1, <2>1 DEF Init, TypeOK
<1>4. NumbersFit BY <1>1, <1>2 DEF Init, NumbersFit, Latest
<1>5. Known = {} BY <1>1, <1>2 DEF Known
<1>6. OneRecordEach BY <1>5 DEF OneRecordEach
<1>7. CommitFits BY <1>2 DEF CommitFits
<1>8. OrderKept BY <1>1, <1>2 DEF OrderKept, Tidy, IdsOf
<1>9. CommittedTreeIsItsRelease BY <1>2 DEF CommittedTreeIsItsRelease
<1>10. OffersAreCommitted
    BY <1>1 DEF Init, OffersAreCommitted, LatestIsCommittedUnlessBroken, ToldIsCommitted
<1> QED BY <1>3, <1>4, <1>6, <1>7, <1>8, <1>9, <1>10 DEF IInv

LEMMA NextKeeps == IInv /\ [Next]_vars => IInv'
<1> SUFFICES ASSUME IInv, [Next]_vars PROVE IInv' OBVIOUS
<1>1. ASSUME Commit PROVE IInv'
    BY <1>1, RefusalKeeps, BeginCommitKeeps, BeginExistingKeeps, SyncSummaryKeeps, CreateManifestKeeps,
       WritePublicationKeeps, CommitGitKeeps, NotifyKeeps DEF Commit
<1>2. ASSUME Rollback PROVE IInv'
    BY <1>2, RestorePublicationKeeps, RemoveManifestKeeps, RestoreModelKeeps, RestoreDocsKeeps,
       RollbackFailsKeeps DEF Rollback
<1>3. ASSUME PrepareMaintenance PROVE IInv' BY <1>3, PrepareKeeps DEF Committers
<1>4. CASE UNCHANGED vars
  <2>1. UNCHANGED <<tree, commits, refs, branch, detached, prepared, next, txn, told, broken>>
      BY <1>4 DEF vars, git
  <2>2. TypeOK' BY <2>1 DEF IInv, TypeOK, Candidate0
  <2>3. CommittedTreeIsItsRelease' BY <2>1, CommittedPrimed DEF IInv
  <2>4. Known' = Known BY <2>1 DEF Known
  <2>5. OneRecordEach' BY <2>1, <2>4 DEF IInv, OneRecordEach
  <2>6. NumbersFit' BY <2>1 DEF IInv, NumbersFit, Latest, CandidateFits
  <2>7. Locked' <=> Locked BY <2>1 DEF Locked
  <2>8. Candidate0' = Candidate0 /\ Head' = Head BY <2>1 DEF Candidate0, Head
  <2>9. LineageResolves(tree, Candidate0.id)' <=> LineageResolves(tree, Candidate0.id)
      BY <2>1, <2>8 DEF LineageResolves, Lineage, HasParents, IdsOf
  <2>10. Record(Candidate0)' = Record(Candidate0) /\ (Stable(Candidate0.id))' = Stable(Candidate0.id)
      BY <2>8 DEF Record, Stable
  <2>11. CommitFits' BY <2>1, <2>7, <2>8, <2>9, <2>10 DEF IInv, CommitFits
  <2>12. OrderKept' BY <2>1, <2>7, OrderPrimed DEF IInv, OrderKept
  <2>13. OffersAreCommitted'
      BY <2>1, <2>2, <2>3, <2>7, OffersPrimed
         DEF IInv, OffersAreCommitted, LatestIsCommittedUnlessBroken, ToldIsCommitted, Latest
  <2> QED BY <2>2, <2>3, <2>5, <2>6, <2>11, <2>12, <2>13 DEF IInv
<1> QED BY <1>1, <1>2, <1>3, <1>4, EditKeeps, MarkDevelopingKeeps, PrepareKeeps, PrepareFailsKeeps,
           ReconcileAgainKeeps, CleanUpKeeps, RestoreReleaseKeeps, CrashKeeps DEF Next

\* Variables keep their types; a ref has its commit, a commit in progress its
\* candidate (release_finalizer.py, git_release.py).
THEOREM ReleaseTypeCorrect == Spec => []TypeOK
<1>1. IInv => TypeOK BY DEF IInv
<1> QED BY <1>1, InitKeeps, NextKeeps, PTL DEF Spec

\* What a release's commit holds is that release, with its documents, its
\* lineage and the content that was validated, for ever.
THEOREM CommitsHoldTheirRelease == Spec => []CommittedTreeIsItsRelease
<1>1. IInv => CommittedTreeIsItsRelease BY DEF IInv
<1> QED BY <1>1, InitKeeps, NextKeeps, PTL DEF Spec

\* What a repository offers, as its latest release or to a consumer, has a
\* commit with a ref, unless a commit was cut short.
THEOREM OffersExist == Spec => []OffersAreCommitted
<1>1. IInv => OffersAreCommitted BY DEF IInv
<1> QED BY <1>1, InitKeeps, NextKeeps, PTL DEF Spec

\* A commit that fails leaves publication, manifests and summary as it found
\* them (_rollback_release_worktree).
THEOREM FailureLeavesNoTrace == Spec => FailedCommitLeavesNoTrace
<1> DEFINE Traceless == /\ tree'.pub = txn.found.pub /\ tree'.manifests = txn.found.manifests
                        /\ txn.pc # "manifest" => tree'.model = txn.found.model
<1>1. ASSUME IInv, [Next]_vars, Locked, txn' = None, ~broken' PROVE Traceless
  <2>1. TypeOK /\ txn # None /\ txn.pc # "notify" BY <1>1 DEF IInv, Locked
  <2>2. ASSUME NEW p \in Phases, Goto(p), prepared' = prepared PROVE FALSE BY <1>1, <2>1, <2>2, GotoTypes
  <2>3. ASSUME CreateManifest PROVE Traceless
    <3> DEFINE p == "manifest"
    <3>1. p \in Phases \ {"notify"} BY DEF Phases
    <3>2. txn.pc = "manifest" BY <1>1, <2>3, <3>1, LockedFacts DEF CreateManifest
    <3>3. tree.manifests = txn.found.manifests /\ tree.pub = txn.found.pub
        BY <1>1, <3>2 DEF IInv, CommitFits, Untouched
    <3>4. ASSUME Goto("publication"), prepared' = prepared PROVE FALSE BY <2>2, <3>4 DEF Phases
    <3>5. AfterFailure(txn.by, tree) BY <2>3, <3>4 DEF CreateManifest
    <3>6. tree'.pub = tree.pub /\ tree'.manifests = tree.manifests
        BY <2>1, <3>5, CandidateInHand, FailureFrame DEF TypeOK
    <3> QED BY <3>2, <3>3, <3>6
  <2>4. ASSUME RestoreDocs PROVE Traceless BY <1>1, <2>4, RestoreDocsEnds
  <2>5. ASSUME SyncSummary \/ WritePublication \/ CommitGit \/ RestorePublication \/ RemoveManifest \/ RestoreModel
        PROVE  FALSE
    BY <2>2, <2>5 DEF SyncSummary, WritePublication, CommitGit, RestorePublication, RemoveManifest, RestoreModel, Phases
  <2>6. ASSUME RollbackFails \/ Crash PROVE FALSE BY <1>1, <2>6 DEF RollbackFails, Crash
  <2>7. ASSUME Notify PROVE FALSE BY <2>1, <2>7 DEF Notify, At
  <2>8. ASSUME MarkDeveloping \/ ReconcileAgain PROVE FALSE BY <1>1, <2>8 DEF MarkDeveloping, ReconcileAgain
  <2>9. ASSUME Edit \/ PrepareMaintenance \/ PrepareFails \/ (\E a \in Committers : Prepare(a))
               \/ (\E a \in Committers : RefuseCommit(a) \/ BusyCommit(a) \/ BeginCommit(a) \/ BeginExisting(a))
               \/ (\E r \in Ids : CleanUpRelease(r) \/ RestoreRelease(r))
        PROVE  FALSE
    BY <2>1, <2>9 DEF Edit, PrepareMaintenance, PrepareFails, Prepare, RefuseCommit, BusyCommit, BeginCommit,
                      BeginExisting, CleanUpRelease, RestoreRelease
  <2>10. CASE UNCHANGED vars BY <1>1, <2>1, <2>10 DEF vars
  <2> QED BY <1>1, <2>3, <2>4, <2>5, <2>6, <2>7, <2>8, <2>9, <2>10 DEF Next, Commit, Rollback
<1>2. IInv /\ [Next]_vars => [Locked /\ txn' = None /\ ~broken' => Traceless]_vars BY <1>1
<1> QED BY <1>2, InitKeeps, NextKeeps, PTL DEF Spec, FailedCommitLeavesNoTrace

\* A published release's commit never changes, and its ref goes only when the
\* latest release does not descend from it
\* (cleanup_unpublished_release_artifacts).
THEOREM PublishedForEver == Spec => PublishedIsImmutable
<1> DEFINE Kept == \A r \in refs : /\ commits'[r] = commits[r]
                                   /\ r \notin refs' => r \notin Lineage(tree, Latest)
<1>1. ASSUME IInv, [Next]_vars PROVE Kept
  <2>1. ASSUME CommitGit PROVE Kept
    <3>1. CASE UNCHANGED git BY <3>1 DEF git
    <3>2. CASE /\ Candidate0.id \notin refs /\ refs' = refs \cup {Candidate0.id}
               /\ commits' = [commits EXCEPT ![Candidate0.id] = [tree |-> tree, parent |-> Head]]
        BY <1>1, <3>2 DEF IInv, TypeOK
    <3> QED BY <2>1, <3>1, <3>2 DEF CommitGit
  <2>2. ASSUME NEW i \in Ids, CleanUpRelease(i) PROVE Kept BY <2>2 DEF CleanUpRelease, IsOrphan
  <2>3. ASSUME NEW i \in Ids, RestoreRelease(i) PROVE Kept BY <2>3 DEF RestoreRelease
  <2>4. CASE UNCHANGED git BY <2>4 DEF git
  <2>5. ASSUME Next PROVE \/ UNCHANGED git \/ CommitGit \/ \E i \in Ids : CleanUpRelease(i) \/ RestoreRelease(i)
    BY <2>5 DEF Next, Commit, Rollback, Edit, MarkDeveloping, Prepare, PrepareMaintenance, PrepareFails,
                RefuseCommit, BusyCommit, BeginCommit, BeginExisting, SyncSummary, CreateManifest,
                WritePublication, Notify, RestorePublication, RemoveManifest, RestoreModel, RestoreDocs,
                RollbackFails, ReconcileAgain, Crash
  <2>6. UNCHANGED vars => UNCHANGED git BY DEF vars
  <2> QED BY <1>1, <2>1, <2>2, <2>3, <2>4, <2>5, <2>6
<1>2. IInv /\ [Next]_vars => [Kept]_vars BY <1>1
<1> QED BY <1>2, InitKeeps, NextKeeps, PTL DEF Spec, PublishedIsImmutable
=============================================================================

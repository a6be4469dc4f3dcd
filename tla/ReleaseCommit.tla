--------------------------- MODULE ReleaseCommit ---------------------------
(***************************************************************************)
(* Publishing a release of one repository:                                 *)
(* services/validation_snapshot/release_finalizer.py over                  *)
(* repo_workspace/git_release.py, repo_release.py, repo_metadata.py and    *)
(* dependency_release.py.                                                  *)
(*                                                                         *)
(* A candidate is prepared, and committed later: its manifest, then the    *)
(* publication that names it, then a git commit of the worktree with a ref *)
(* of its own, one after the other, each able to fail, and the process may *)
(* end between any two of them.  A digest of the whole worktree ties the   *)
(* commit to what was prepared.                                            *)
(*                                                                         *)
(* Releases are numbered in the order their ids are allocated; 0 stands    *)
(* for none.  A git commit has the number of the release it was made for.  *)
(***************************************************************************)
EXTENDS Naturals

CONSTANTS
    MaxReleases,  \* bound: release ids allocated
    MaxEdits,     \* bound: edits of the repository's content
    None

ASSUME BoundAssumption == MaxReleases \in Nat /\ MaxEdits \in Nat

VARIABLES
    tree,      \* the worktree: what a release candidate consists of
    commits,   \* the git commits of releases
    refs,      \* the releases that have a ref
    branch,    \* the commit of the current branch
    detached,  \* the commit HEAD is detached at
    prepared,  \* the candidate each committer holds
    next,      \* ids allocated so far
    txn,       \* the commit in progress
    told,      \* the release recorded in a consumer's requirement
    broken     \* ghost: a commit was cut short, or its rollback failed

git  == <<commits, refs, branch, detached>>
vars == <<tree, git, prepared, next, txn, told, broken>>

\* The coordinator's hook holds its candidate in the persisted result of a
\* step; an operator's request prepares and commits.
Committers == {"coordinator", "operator"}

Ids         == 1..MaxReleases
Publication == [status : {"developing", "stable"}, latest : 0..MaxReleases]
Manifest    == [id : Ids, parent : 0..MaxReleases, content : 0..MaxEdits]
Worktree    == [content : 0..MaxEdits, deps : 0..MaxReleases, docs : 0..MaxReleases,
                model : 0..MaxReleases, pub : Publication, manifests : SUBSET Manifest]
Candidate   == [id : Ids, parent : 0..MaxReleases, content : 0..MaxEdits, deps : 0..MaxReleases,
                kind : {"semantic", "maintenance"}, digest : Worktree, head : 0..MaxReleases]
GitCommit   == [tree : Worktree, parent : 0..MaxReleases]
Phases      == {"model", "manifest", "publication", "git", "notify", "restore publication",
                "remove manifest", "restore model", "restore docs"}
Transaction == [pc : Phases, by : Committers, found : Worktree]

ASSUME NoneAssumption == None \notin Transaction \cup GitCommit \cup Candidate

Stable(r)  == [status |-> "stable", latest |-> r]
Head       == IF detached # 0 THEN detached ELSE branch
Latest     == tree.pub.latest
IdsOf(t)   == {m.id : m \in t.manifests}
Record(c)  == [id |-> c.id, parent |-> c.parent, content |-> c.content]

\* resolve_release_lineage: the manifests from r back to the first release are
\* the least set of releases with r in it that no parent link leaves.
HasParents(t, S) == \A m \in t.manifests : m.id \in S => m.parent \in S
Lineage(t, r) ==
    {i \in Ids : \A S \in SUBSET (0..MaxReleases) : r \in S /\ HasParents(t, S) => i \in S}

LineageResolves(t, r) == Lineage(t, r) \subseteq IdsOf(t)

Init ==
    /\ tree = [content |-> 0, deps |-> 0, docs |-> 0, model |-> 0,
               pub |-> [status |-> "developing", latest |-> 0], manifests |-> {}]
    /\ commits = [r \in Ids |-> None] /\ refs = {} /\ branch = 0 /\ detached = 0
    /\ prepared = [a \in Committers |-> None]
    /\ next = 0 /\ txn = None /\ told = 0 /\ broken = FALSE

\* bound: one commit is cut short.
MayBreak == ~broken

At(pc) == txn # None /\ txn.pc = pc
\* lifecycle_lock is held until the git commit is made.
Locked == txn # None /\ txn.pc # "notify"

----------------------------------------------------------------------------
(* The repository between releases                                         *)

Edit ==
    /\ txn = None /\ tree.content < MaxEdits
    /\ tree' = [tree EXCEPT !.content = @ + 1]
    /\ UNCHANGED <<git, prepared, next, txn, told, broken>>

\* A continuation run: mark_repo_developing keeps the latest release.
MarkDeveloping ==
    /\ ~Locked /\ tree.pub.status = "stable"
    /\ tree' = [tree EXCEPT !.pub.status = "developing"]
    /\ UNCHANGED <<git, prepared, next, txn, told, broken>>

----------------------------------------------------------------------------
(* prepare_candidate_release, and _commit_dependency_release up to the     *)
(* call that commits                                                       *)

\* The candidate of a worktree whose publication files are already its own.
MakeCandidate(kind, t) ==
    [id |-> next + 1, parent |-> t.pub.latest, content |-> t.content, deps |-> tree.deps,
     kind |-> kind, digest |-> t, head |-> Head]

Hold(a, kind, t) ==
    /\ next' = next + 1
    /\ tree' = t
    /\ prepared' = [prepared EXCEPT ![a] = MakeCandidate(kind, t)]

\* The base of a candidate is a release with a valid commit (_check_base).
BaseIsValid(r) == r = 0 \/ (r \in refs /\ LineageResolves(tree, r))

Prepare(a) ==
    /\ txn = None /\ next < MaxReleases
    /\ tree.pub.status = "developing" /\ BaseIsValid(Latest)
    /\ Hold(a, "semantic", [tree EXCEPT !.docs = next + 1])
    /\ UNCHANGED <<git, txn, told, broken>>

\* A clean worktree at a stable release, with one dependency replaced.
PrepareMaintenance ==
    /\ txn = None /\ next < MaxReleases
    /\ tree.pub.status = "stable" /\ Latest \in IdsOf(tree)
    /\ Head # 0 /\ tree = commits[Head].tree
    /\ Hold("operator", "maintenance", [tree EXCEPT !.docs = next + 1, !.deps = next + 1])
    /\ UNCHANGED <<git, txn, told, broken>>

\* The publication files of the current release are written again.
RefreshDocs(t) == {t, [t EXCEPT !.docs = t.pub.latest]}

PrepareFails ==
    /\ txn = None
    /\ tree' \in RefreshDocs(tree)
    /\ UNCHANGED <<git, prepared, next, txn, told, broken>>

----------------------------------------------------------------------------
(* commit_prepared_release                                                 *)

Goto(pc) == txn' = [txn EXCEPT !.pc = pc]

\* The caller's answer to a failed commit: the operator's request is over, and
\* a dependency change is undone.
AfterFailure(a, t) ==
    /\ tree' = IF prepared[a].kind = "maintenance" THEN [t EXCEPT !.deps = prepared[a].deps] ELSE t
    /\ prepared' = IF a = "operator" THEN [prepared EXCEPT ![a] = None] ELSE prepared

\* A check fails, the release runtime is not closed, git is not usable.
RefuseCommit(a) ==
    /\ txn = None /\ prepared[a] # None
    /\ AfterFailure(a, tree)
    /\ UNCHANGED <<git, next, txn, told, broken>>

\* Another holder of the lock, such as an audit: what this commit found is
\* put back all the same.
BusyCommit(a) ==
    /\ txn = None /\ prepared[a] # None
    /\ \E t \in RefreshDocs(tree) : AfterFailure(a, t)
    /\ UNCHANGED <<git, next, txn, told, broken>>

\* Mutant: the worktree is not compared with the prepared one.
IgnoreDrift(c) ==
    /\ tree.pub = [status |-> IF c.kind = "maintenance" THEN "stable" ELSE "developing", latest |-> c.parent]
    /\ Head = c.head

\* The publication baseline, the candidate digest and the git head.
NoDrift(c) ==
    /\ tree.pub = [status |-> IF c.kind = "maintenance" THEN "stable" ELSE "developing", latest |-> c.parent]
    /\ tree = c.digest
    /\ Head = c.head

BeginCommit(a) ==
    /\ txn = None /\ prepared[a] # None
    /\ NoDrift(prepared[a])
    /\ txn' = [pc |-> "model", by |-> a, found |-> tree]
    /\ UNCHANGED <<tree, git, prepared, next, told, broken>>

\* _finalize_existing_release: the release is already published.
BeginExisting(a) ==
    /\ txn = None /\ prepared[a] # None
    /\ LET c == prepared[a]
       IN tree.pub = Stable(c.id) /\ c.id \in refs /\ Record(c) \in tree.manifests
    /\ txn' = [pc |-> "notify", by |-> a, found |-> tree]
    /\ UNCHANGED <<tree, git, prepared, next, told, broken>>

Candidate0 == prepared[txn.by]

\* set_repo_summary; a dependency release keeps the summary, and a failure is
\* only a warning.
SyncSummary ==
    /\ At("model") /\ Goto("manifest")
    /\ \/ UNCHANGED tree
       \/ Candidate0.kind = "semantic" /\ tree' = [tree EXCEPT !.model = Candidate0.id]
    /\ UNCHANGED <<git, prepared, next, told, broken>>

\* create_release. A file that a failed write left is removed again; nothing
\* else is undone.
CreateManifest ==
    /\ At("manifest")
    /\ \/ /\ LineageResolves(tree, Candidate0.parent)
          /\ tree' = [tree EXCEPT !.manifests = @ \cup {Record(Candidate0)}]
          /\ Goto("publication") /\ UNCHANGED prepared
       \/ txn' = None /\ AfterFailure(txn.by, tree)
    /\ UNCHANGED <<git, next, told, broken>>

WritePublication ==
    /\ At("publication")
    /\ \/ tree' = [tree EXCEPT !.pub = Stable(Candidate0.id)] /\ Goto("git")
       \/ UNCHANGED tree /\ Goto("restore publication")
    /\ UNCHANGED <<git, prepared, next, told, broken>>

\* commit_release: the ref and the branch move in one git transaction. A
\* command that ran out of time may have had its effect.
CommitGit ==
    /\ At("git")
    /\ \/ Goto("restore publication") /\ UNCHANGED git
       \/ /\ detached = 0 /\ Candidate0.id \notin refs
          /\ commits' = [commits EXCEPT ![Candidate0.id] = [tree |-> tree, parent |-> Head]]
          /\ refs' = refs \cup {Candidate0.id}
          /\ branch' = Candidate0.id
          /\ Goto("notify") \/ Goto("restore publication")
          /\ UNCHANGED detached
    /\ UNCHANGED <<tree, prepared, next, told, broken>>

\* check_provider_available
Available == tree.pub.status = "stable" /\ Latest \in IdsOf(tree) /\ Latest \in refs

\* reconcile_provider_requirements: the requirement is brought up to date, or
\* stays pending.
Reconcile(r) == IF tree.pub = Stable(r) /\ Available THEN {told, r} ELSE {told}

Notify ==
    /\ At("notify")
    /\ told' \in Reconcile(Candidate0.id)
    /\ txn' = None
    /\ prepared' = IF txn.by = "operator" THEN [prepared EXCEPT !["operator"] = None] ELSE prepared
    /\ UNCHANGED <<tree, git, next, broken>>

\* reconcile_repo_requirements, the operator's retry
ReconcileAgain ==
    /\ ~Locked
    /\ \E r \in Ids : told' \in Reconcile(r)
    /\ UNCHANGED <<tree, git, prepared, next, txn, broken>>

----------------------------------------------------------------------------
(* _rollback_release_worktree                                              *)

\* Mutant: the publication stays as the failed commit wrote it.
LeavePublication ==
    /\ At("restore publication") /\ Goto("remove manifest")
    /\ UNCHANGED <<tree, git, prepared, next, told, broken>>

RestorePublication ==
    /\ At("restore publication") /\ Goto("remove manifest")
    /\ tree' = [tree EXCEPT !.pub = txn.found.pub]
    /\ UNCHANGED <<git, prepared, next, told, broken>>

RemoveManifest ==
    /\ At("remove manifest") /\ Goto("restore model")
    /\ tree' = [tree EXCEPT !.manifests = {m \in @ : m.id # Candidate0.id}]
    /\ UNCHANGED <<git, prepared, next, told, broken>>

\* Mutant: the display summary is not put back.
LeaveModel ==
    /\ At("restore model") /\ Goto("restore docs")
    /\ UNCHANGED <<tree, git, prepared, next, told, broken>>

RestoreModel ==
    /\ At("restore model") /\ Goto("restore docs")
    /\ tree' = [tree EXCEPT !.model = txn.found.model]
    /\ UNCHANGED <<git, prepared, next, told, broken>>

RestoreDocs ==
    /\ At("restore docs") /\ txn' = None
    /\ \E t \in RefreshDocs(tree) : AfterFailure(txn.by, t)
    /\ UNCHANGED <<git, next, told, broken>>

\* A write of the rollback fails too, and the call ends with the exception.
RollbackFails ==
    /\ MayBreak
    /\ At("restore publication") \/ At("remove manifest") \/ At("restore model")
    /\ txn' = None /\ broken' = TRUE
    /\ UNCHANGED <<tree, git, prepared, next, told>>

----------------------------------------------------------------------------
(* The operator's repairs                                                  *)

\* Mutant: a release that the latest one descends from can be cleaned up.
IsChildless(r) == \A m \in tree.manifests : m.parent # r

\* cleanup_unpublished_release_artifacts: neither reachable nor a parent.
IsOrphan(r) == /\ LineageResolves(tree, Latest) /\ r \notin Lineage(tree, Latest)
               /\ \A m \in tree.manifests : m.parent # r

\* The ref goes before the manifest; the process may end between the two.
CleanUpRelease(r) ==
    /\ txn = None /\ r \in IdsOf(tree) /\ IsOrphan(r)
    /\ refs' = refs \ {r}
    /\ tree' \in {tree, [tree EXCEPT !.manifests = {m \in @ : m.id # r}]}
    /\ UNCHANGED <<commits, branch, detached, prepared, next, txn, told, broken>>

\* apply_repo_release_restore: a clean worktree is checked out at the commit.
RestoreRelease(r) ==
    /\ txn = None /\ r \in refs
    /\ Head # 0 /\ tree = commits[Head].tree
    /\ tree' = commits[r].tree
    /\ detached' = r
    /\ UNCHANGED <<commits, refs, branch, prepared, next, txn, told, broken>>

----------------------------------------------------------------------------
Crash ==
    /\ Locked => MayBreak
    /\ txn' = None
    /\ prepared' = [prepared EXCEPT !["operator"] = None]
    /\ broken' = (broken \/ Locked)
    /\ UNCHANGED <<tree, git, next, told>>

Commit == \/ \E a \in Committers : RefuseCommit(a) \/ BusyCommit(a) \/ BeginCommit(a) \/ BeginExisting(a)
          \/ SyncSummary \/ CreateManifest \/ WritePublication \/ CommitGit \/ Notify

Rollback == RestorePublication \/ RemoveManifest \/ RestoreModel \/ RestoreDocs \/ RollbackFails

Next == \/ Edit \/ MarkDeveloping
        \/ \E a \in Committers : Prepare(a)
        \/ PrepareMaintenance \/ PrepareFails
        \/ Commit \/ Rollback \/ ReconcileAgain
        \/ \E r \in Ids : CleanUpRelease(r) \/ RestoreRelease(r)
        \/ Crash

Spec == Init /\ [][Next]_vars

----------------------------------------------------------------------------
\* Variables keep their types; a release that has a ref has a commit, and a
\* commit in progress has its candidate.
TypeOK ==
    /\ tree \in Worktree
    /\ commits \in [Ids -> GitCommit \cup {None}]
    /\ refs \subseteq Ids /\ \A r \in refs : commits[r] # None
    /\ {branch, detached, told, next} \subseteq 0..MaxReleases
    /\ prepared \in [Committers -> Candidate \cup {None}]
    /\ txn \in Transaction \cup {None} /\ (txn # None => Candidate0 # None)
    /\ broken \in BOOLEAN

\* What a release's commit holds can be released from again: it publishes that
\* very release, with its documents and all the manifests it descends from, and
\* its content is the one that was validated, whatever was edited, retried or
\* rolled back between the validation and the commit.
CommittedTreeIsItsRelease ==
    \A r \in refs : LET t == commits[r].tree IN
        /\ t.pub = Stable(r) /\ t.docs = r
        /\ LineageResolves(t, r)
        /\ \A m \in t.manifests : m.id = r => m.content = t.content

\* A stable publication between two commits names a committed release, unless
\* a commit was cut short.
LatestIsCommittedUnlessBroken ==
    ~broken /\ ~Locked /\ tree.pub.status = "stable" =>
        Latest \in refs /\ commits[Latest].tree.pub = tree.pub

\* A consumer's requirement names a release it can fetch, also after the
\* provider's clean-ups and restores, unless a commit was cut short.
ToldIsCommitted == told # 0 /\ ~broken => told \in refs

\* What a repository offers, as its latest release or to a consumer, exists.
OffersAreCommitted == LatestIsCommittedUnlessBroken /\ ToldIsCommitted

\* A commit that fails leaves publication and manifests as it found them, and
\* the display summary unless the manifest could not be written.
FailedCommitLeavesNoTrace ==
    [][Locked /\ txn' = None /\ ~broken' =>
         /\ tree'.pub = txn.found.pub /\ tree'.manifests = txn.found.manifests
         /\ txn.pc # "manifest" => tree'.model = txn.found.model]_vars

\* A published release is for ever: its commit never changes, and its ref goes
\* only when the latest release does not descend from it.
PublishedIsImmutable ==
    [][\A r \in refs : /\ commits'[r] = commits[r]
                       /\ r \notin refs' => r \notin Lineage(tree, Latest)]_vars
=============================================================================

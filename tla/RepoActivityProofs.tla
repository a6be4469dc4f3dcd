------------------------- MODULE RepoActivityProofs -------------------------
(***************************************************************************)
(* Proofs about RepoActivity, for any number of threads, locks, nodes,     *)
(* batches and programs, and about BatchTopology, which fills the bodies   *)
(* of its callers in, for any dependency graph as well.                    *)
(***************************************************************************)
EXTENDS BatchTopology, Integers, FiniteSetTheorems, SequenceTheorems, TLAPS

Pcs == {"idle", "call", "rehydrate", "act", "admit", "leave", "unlock"}

\* What TypeOK says, except that the two counters are not negative: that
\* follows only once they are known to count something.
Types ==
    /\ lockOwner \in [Locks -> Threads \cup {NoThread}]
    /\ lockDepth \in [Locks -> Int]
    /\ batches \subseteq Batches
    /\ nodeOwner \in [Nodes -> Batches \cup {NoBatch}]
    /\ persistedKeys \subseteq Batches
    /\ maintOwner \in Threads \cup {NoThread}
    /\ maintDepth \in Nat
    /\ activeTx \in Int
    /\ prog \in [Threads -> Seq(Request)]
    /\ k \in [Threads -> Nat]
    /\ pc \in [Threads -> Pcs]
    /\ seen \in [Threads -> Batches \cup {NoBatch}]
    /\ frontier \in Batches \cup {NoBatch}
    /\ held \subseteq Batches
    /\ calls \in [Threads -> Nat]

\* Where a thread can be in its program.
Frame(t) ==
    /\ prog[t] \in Programs \cup {<<>>}
    /\ k[t] \in 0..Len(prog[t])
    /\ pc[t] \in {"call", "rehydrate", "act", "admit"} => k[t] < Len(prog[t])
    /\ pc[t] = "rehydrate" => Rehydrates(Current(t))
    /\ pc[t] = "admit" => Current(t).op = "write"
    /\ pc[t] = "unlock" => k[t] > 0 /\ Top(t).op = "write"
    /\ pc[t] = "idle" => k[t] = 0

Shape == Types /\ \A t \in Threads : Frame(t)

\* The requests of a program carry the argument their operation needs.
LEMMA RequestArguments ==
    ASSUME NEW t \in Threads, Types, Frame(t), NEW i \in 1..Len(prog[t])
    PROVE  /\ prog[t][i] \in Request
           /\ prog[t][i].op = "write" => prog[t][i].lock \in Locks
           /\ prog[t][i].op = "reserve" => prog[t][i].batch \in Batches
<1>1. prog[t] \in Seq(Request) BY DEF Types
<1>2. prog[t] \in Programs BY <1>1 DEF Frame
<1> QED BY <1>1, <1>2, ProgramAssumption

\* The initial state is well typed, and no thread has a frame.
LEMMA InitShape == Init => Shape
<1> SUFFICES ASSUME Init PROVE Shape OBVIOUS
<1>1. Types BY ThreadAssumption DEF Init, Types, Pcs
<1>2. ASSUME NEW t \in Threads PROVE Frame(t) BY DEF Init, Frame
<1> QED BY <1>1, <1>2 DEF Shape

\* The three ways a request ends keep the thread inside its program.
LEMMA AdvanceFrame ==
    ASSUME NEW t \in Threads, Shape, k[t] < Len(prog[t]), Advance(t)
    PROVE  Frame(t)' /\ k' \in [Threads -> Nat] /\ pc' \in [Threads -> Pcs]
<1>1. k \in [Threads -> Nat] /\ pc \in [Threads -> Pcs] /\ prog[t] \in Seq(Request) /\ Frame(t)
    BY DEF Shape, Types
<1>2. k'[t] = k[t] + 1 /\ pc'[t] = (IF k[t] + 1 = Len(prog[t]) THEN "leave" ELSE "call") /\ prog' = prog
    BY <1>1 DEF Advance
<1>3. k' \in [Threads -> Nat] /\ pc' \in [Threads -> Pcs] BY <1>1 DEF Advance, Pcs
<1>4. Len(prog[t]) \in Nat BY <1>1
<1> QED BY <1>1, <1>2, <1>3, <1>4 DEF Frame

\* An exception leaves the thread inside its program.
LEMMA RaiseFrame ==
    ASSUME NEW t \in Threads, Shape, Raise(t)
    PROVE  Frame(t)' /\ pc' \in [Threads -> Pcs]
<1>1. k \in [Threads -> Nat] /\ pc \in [Threads -> Pcs] /\ prog[t] \in Seq(Request) /\ Frame(t)
    BY DEF Shape, Types
<1>2. pc'[t] = "leave" /\ k' = k /\ prog' = prog BY <1>1 DEF Raise
<1>3. pc' \in [Threads -> Pcs] BY <1>1 DEF Raise, Pcs
<1> QED BY <1>1, <1>2, <1>3 DEF Frame

\* So does leaving a context.
LEMMA PopFrame ==
    ASSUME NEW t \in Threads, Shape, k[t] > 0, Pop(t)
    PROVE  Frame(t)' /\ k' \in [Threads -> Nat] /\ pc' \in [Threads -> Pcs]
<1>1. k \in [Threads -> Nat] /\ pc \in [Threads -> Pcs] /\ prog[t] \in Seq(Request) /\ Frame(t)
    BY DEF Shape, Types
<1>2. pc'[t] = "leave" /\ k'[t] = k[t] - 1 /\ prog' = prog BY <1>1 DEF Pop
<1>3. k' \in [Threads -> Nat]
    <2>1. k[t] - 1 \in Nat BY <1>1
    <2> QED BY <1>1, <2>1 DEF Pop
<1>4. pc' \in [Threads -> Pcs] BY <1>1 DEF Pop, Pcs
<1>5. k'[t] \in 0..Len(prog[t]) BY <1>1, <1>2 DEF Frame
<1> QED BY <1>1, <1>2, <1>3, <1>4, <1>5 DEF Frame

\* A step of one thread leaves the frames of the others alone.
LEMMA OtherFrames ==
    ASSUME NEW t \in Threads, Shape, Frame(t)',
           \A u \in Threads \ {t} : prog'[u] = prog[u] /\ k'[u] = k[u] /\ pc'[u] = pc[u]
    PROVE  \A u \in Threads : Frame(u)'
<1> SUFFICES ASSUME NEW u \in Threads \ {t} PROVE Frame(u)' OBVIOUS
<1> QED BY DEF Shape, Frame, Current, Top

\* Giving a lock back keeps the owners typed; that its depth stays a natural
\* number is what the counted lock frames show.
LEMMA ReleaseLockTypes ==
    ASSUME NEW l, Types, ReleaseLock(l)
    PROVE  lockOwner' \in [Locks -> Threads \cup {NoThread}] /\ lockDepth' \in [Locks -> Int]
<1>1. ASSUME l \in Locks PROVE lockDepth[l] - 1 \in Int BY <1>1 DEF Types
<1>2. lockDepth' \in [Locks -> Int] BY <1>1 DEF Types, ReleaseLock
<1>3. ASSUME l \in Locks PROVE lockOwner[l] \in Threads \cup {NoThread} BY <1>3 DEF Types
<1>4. lockOwner' \in [Locks -> Threads \cup {NoThread}] BY <1>3 DEF Types, ReleaseLock
<1> QED BY <1>2, <1>4

\* Every step, of a thread or of the environment, keeps types and frames.
LEMMA NextShape == Shape /\ [Next]_vars => Shape'
<1> SUFFICES ASSUME Shape, [Next]_vars PROVE Shape' OBVIOUS
<1> USE DEF locking, tables, maint, thread
<1>a. Types /\ \A t \in Threads : Frame(t) BY DEF Shape
<1>f. ASSUME NEW t \in Threads, Frame(t)', Types',
             \A u \in Threads \ {t} : prog'[u] = prog[u] /\ k'[u] = k[u] /\ pc'[u] = pc[u]
      PROVE  Shape'
    BY <1>f, OtherFrames DEF Shape
<1>1. ASSUME NEW t \in Threads, NEW p \in Programs, Start(t, p) PROVE Shape'
  <2>1. p \in Seq(Request) /\ Len(p) > 0 BY <1>1, ProgramAssumption DEF Start
  <2>2. Types' BY <1>1, <1>a, <2>1 DEF Start, Types, Pcs
  <2>3. prog'[t] = p /\ pc'[t] = "call" /\ k'[t] = 0 BY <1>1, <1>a DEF Start, Types, Frame
  <2>4. Frame(t)' BY <2>1, <2>3 DEF Frame
  <2> QED BY <1>1, <1>a, <2>2, <2>4, <1>f DEF Start, Types
<1>2. ASSUME NEW t \in Threads, ReadFrontier(t) PROVE Shape'
  <2>1. Types' BY <1>2, <1>a DEF ReadFrontier, Types, Pcs
  <2>2. pc'[t] = "rehydrate" /\ k' = k /\ prog' = prog BY <1>2, <1>a DEF ReadFrontier, Types
  <2>3. Frame(t)' BY <1>a, <1>2, <2>2 DEF Frame, ReadFrontier, Current
  <2> QED BY <1>2, <1>a, <2>1, <2>3, <1>f DEF ReadFrontier, Types
<1>3. ASSUME NEW t \in Threads, RecoveryRequired(t) PROVE Shape'
  <2>1. Frame(t)' /\ pc' \in [Threads -> Pcs] BY <1>3, RaiseFrame DEF RecoveryRequired
  <2>2. Types' BY <1>3, <1>a, <2>1 DEF RecoveryRequired, Raise, Types
  <2> QED BY <1>3, <1>a, <2>1, <2>2, <1>f DEF RecoveryRequired, Raise, Types
<1>4. ASSUME NEW t \in Threads, Rehydrate(t) PROVE Shape'
  <2>1. Types' BY <1>4, <1>a DEF Rehydrate, OwnersWithout, Types, Pcs
  <2>2. pc'[t] = "act" /\ k' = k /\ prog' = prog BY <1>4, <1>a DEF Rehydrate, Types
  <2>3. Frame(t)' BY <1>a, <1>4, <2>2 DEF Frame, Rehydrate, Current
  <2> QED BY <1>4, <1>a, <2>1, <2>3, <1>f DEF Rehydrate, Types
<1>5. ASSUME NEW t \in Threads, Acquire(t) PROVE Shape'
  <2>1. k[t] < Len(prog[t]) /\ Current(t).op = "write" BY <1>5, <1>a DEF Acquire, Ready, Frame
  <2>2. k[t] + 1 \in 1..Len(prog[t]) BY <2>1, <1>a DEF Types
  <2>3. Current(t).lock \in Locks BY <2>1, <2>2, <1>a, RequestArguments DEF Current
  <2>4. Types' BY <1>5, <1>a, <2>3 DEF Acquire, Types, Pcs
  <2>5. pc'[t] = "admit" /\ k' = k /\ prog' = prog BY <1>5, <1>a DEF Acquire, Types
  <2>6. Frame(t)' BY <1>a, <2>1, <2>5 DEF Frame, Current
  <2> QED BY <1>5, <1>a, <2>4, <2>6, <1>f DEF Acquire, Types
<1>6. ASSUME NEW t \in Threads, Admit(t) PROVE Shape'
  <2>1. k[t] < Len(prog[t]) BY <1>6, <1>a DEF Admit, Frame
  <2>2. Frame(t)' /\ k' \in [Threads -> Nat] /\ pc' \in [Threads -> Pcs] BY <1>6, <2>1, AdvanceFrame DEF Admit
  <2>3. Types' BY <1>6, <1>a, <2>2 DEF Admit, Advance, Types
  <2> QED BY <1>6, <1>a, <2>2, <2>3, <1>f DEF Admit, Advance, Types
<1>7. ASSUME NEW t \in Threads, RefuseTransaction(t) PROVE Shape'
  <2>1. Frame(t)' /\ pc' \in [Threads -> Pcs] BY <1>7, RaiseFrame DEF RefuseTransaction
  <2>2. Types' BY <1>7, <1>a, <2>1, ReleaseLockTypes DEF RefuseTransaction, Raise, Types
  <2> QED BY <1>7, <1>a, <2>1, <2>2, <1>f DEF RefuseTransaction, Raise, Types
<1>8. ASSUME NEW t \in Threads, NestMaintenance(t) PROVE Shape'
  <2>1. k[t] < Len(prog[t]) BY <1>8, <1>a DEF NestMaintenance, Ready, Frame
  <2>2. Frame(t)' /\ k' \in [Threads -> Nat] /\ pc' \in [Threads -> Pcs] BY <1>8, <2>1, AdvanceFrame DEF NestMaintenance
  <2>3. Types' BY <1>8, <1>a, <2>2 DEF NestMaintenance, Advance, Types
  <2> QED BY <1>8, <1>a, <2>2, <2>3, <1>f DEF NestMaintenance, Advance, Types
<1>9. ASSUME NEW t \in Threads, GrantMaintenance(t) PROVE Shape'
  <2>1. k[t] < Len(prog[t]) BY <1>9, <1>a DEF GrantMaintenance, Ready, Frame
  <2>2. Frame(t)' /\ k' \in [Threads -> Nat] /\ pc' \in [Threads -> Pcs] BY <1>9, <2>1, AdvanceFrame DEF GrantMaintenance
  <2>3. Types' BY <1>9, <1>a, <2>2 DEF GrantMaintenance, Advance, Types
  <2> QED BY <1>9, <1>a, <2>2, <2>3, <1>f DEF GrantMaintenance, Advance, Types
<1>10. ASSUME NEW t \in Threads, RefuseMaintenance(t) PROVE Shape'
  <2>1. Frame(t)' /\ pc' \in [Threads -> Pcs] BY <1>10, RaiseFrame DEF RefuseMaintenance
  <2>2. Types' BY <1>10, <1>a, <2>1 DEF RefuseMaintenance, Raise, Types
  <2> QED BY <1>10, <1>a, <2>1, <2>2, <1>f DEF RefuseMaintenance, Raise, Types
<1>r. ASSUME NEW t \in Threads, Ready(t, "reserve")
      PROVE  k[t] < Len(prog[t]) /\ Current(t).batch \in Batches
  <2>1. k[t] < Len(prog[t]) BY <1>r, <1>a DEF Ready, Frame
  <2>2. k[t] + 1 \in 1..Len(prog[t]) BY <2>1, <1>a DEF Types
  <2> QED BY <1>r, <2>1, <2>2, <1>a, RequestArguments DEF Current, Ready
<1>11. ASSUME NEW t \in Threads, ReserveExisting(t) PROVE Shape'
  <2>1. k[t] < Len(prog[t]) /\ Current(t).batch \in Batches BY <1>11, <1>r DEF ReserveExisting
  <2>2. Frame(t)' /\ k' \in [Threads -> Nat] /\ pc' \in [Threads -> Pcs] BY <1>11, <2>1, AdvanceFrame DEF ReserveExisting
  <2>3. Types' BY <1>11, <1>a, <2>1, <2>2 DEF ReserveExisting, Advance, Types
  <2> QED BY <1>11, <1>a, <2>2, <2>3, <1>f DEF ReserveExisting, Advance, Types
<1>12. ASSUME NEW t \in Threads, ReserveNew(t) PROVE Shape'
  <2>1. k[t] < Len(prog[t]) /\ Current(t).batch \in Batches BY <1>12, <1>r DEF ReserveNew
  <2>2. Frame(t)' /\ k' \in [Threads -> Nat] /\ pc' \in [Threads -> Pcs] BY <1>12, <2>1, AdvanceFrame DEF ReserveNew
  <2>3. Types' BY <1>12, <1>a, <2>1, <2>2 DEF ReserveNew, Advance, Types
  <2> QED BY <1>12, <1>a, <2>2, <2>3, <1>f DEF ReserveNew, Advance, Types
<1>13. ASSUME NEW t \in Threads, RefuseReservation(t) PROVE Shape'
  <2>1. Frame(t)' /\ pc' \in [Threads -> Pcs] BY <1>13, RaiseFrame DEF RefuseReservation
  <2>2. Types' BY <1>13, <1>a, <2>1 DEF RefuseReservation, Raise, Types
  <2> QED BY <1>13, <1>a, <2>1, <2>2, <1>f DEF RefuseReservation, Raise, Types
<1>14. ASSUME NEW t \in Threads, ActiveBatches(t) PROVE Shape'
  <2>1. k[t] < Len(prog[t]) BY <1>14, <1>a DEF ActiveBatches, Ready, Frame
  <2>2. Frame(t)' /\ k' \in [Threads -> Nat] /\ pc' \in [Threads -> Pcs] BY <1>14, <2>1, AdvanceFrame DEF ActiveBatches
  <2>3. Types' BY <1>14, <1>a, <2>2 DEF ActiveBatches, Advance, Types
  <2> QED BY <1>14, <1>a, <2>2, <2>3, <1>f DEF ActiveBatches, Advance, Types
<1>14b. ASSUME NEW t \in Threads, BodyReturns(t) PROVE Shape'
  <2>1. k[t] < Len(prog[t]) BY <1>14b, <1>a DEF BodyReturns, Ready, Frame
  <2>2. Frame(t)' /\ k' \in [Threads -> Nat] /\ pc' \in [Threads -> Pcs] BY <1>14b, <2>1, AdvanceFrame DEF BodyReturns
  <2>3. Types' BY <1>14b, <1>a, <2>2 DEF BodyReturns, Advance, Types
  <2> QED BY <1>14b, <1>a, <2>2, <2>3, <1>f DEF BodyReturns, Advance, Types
<1>14c. ASSUME NEW t \in Threads, BodyRaises(t) PROVE Shape'
  <2>1. Frame(t)' /\ pc' \in [Threads -> Pcs] BY <1>14c, RaiseFrame DEF BodyRaises
  <2>2. Types' BY <1>14c, <1>a, <2>1 DEF BodyRaises, Raise, Types
  <2> QED BY <1>14c, <1>a, <2>1, <2>2, <1>f DEF BodyRaises, Raise, Types
<1>15. ASSUME NEW t \in Threads, EndTransaction(t) PROVE Shape'
  <2>1. Types' BY <1>15, <1>a DEF EndTransaction, Types, Pcs
  <2>2. pc'[t] = "unlock" /\ k' = k /\ prog' = prog BY <1>15, <1>a DEF EndTransaction, Types
  <2>3. Frame(t)' BY <1>15, <1>a, <2>2 DEF EndTransaction, Frame, Top
  <2> QED BY <1>15, <1>a, <2>1, <2>3, <1>f DEF EndTransaction, Types
<1>16. ASSUME NEW t \in Threads, Unlock(t) PROVE Shape'
  <2>1. k[t] > 0 BY <1>16, <1>a DEF Unlock, Frame
  <2>2. Frame(t)' /\ k' \in [Threads -> Nat] /\ pc' \in [Threads -> Pcs] BY <1>16, <2>1, PopFrame DEF Unlock
  <2>3. Types' BY <1>16, <1>a, <2>2, ReleaseLockTypes DEF Unlock, Pop, Types
  <2> QED BY <1>16, <1>a, <2>2, <2>3, <1>f DEF Unlock, Pop, Types
<1>17. ASSUME NEW t \in Threads, ExitMaintenance(t) PROVE Shape'
  <2>1. k[t] > 0 BY <1>17 DEF ExitMaintenance
  <2>2. Frame(t)' /\ k' \in [Threads -> Nat] /\ pc' \in [Threads -> Pcs] BY <1>17, <2>1, PopFrame DEF ExitMaintenance
  <2>3. Types' BY <1>17, <1>a, <2>2 DEF ExitMaintenance, Pop, Types
  <2> QED BY <1>17, <1>a, <2>2, <2>3, <1>f DEF ExitMaintenance, Pop, Types
<1>18. ASSUME NEW t \in Threads, SkipCall(t) PROVE Shape'
  <2>1. k[t] > 0 BY <1>18 DEF SkipCall
  <2>2. Frame(t)' /\ k' \in [Threads -> Nat] /\ pc' \in [Threads -> Pcs] BY <1>18, <2>1, PopFrame DEF SkipCall
  <2>3. Types' BY <1>18, <1>a, <2>2 DEF SkipCall, Pop, Types
  <2> QED BY <1>18, <1>a, <2>2, <2>3, <1>f DEF SkipCall, Pop, Types
<1>19. ASSUME NEW t \in Threads, Finish(t) PROVE Shape'
  <2>1. Types' BY <1>19, <1>a DEF Finish, Types, Pcs
  <2>2. pc'[t] = "idle" /\ k'[t] = 0 /\ prog'[t] = <<>> BY <1>19, <1>a DEF Finish, Types
  <2>3. Frame(t)' BY <2>2 DEF Frame
  <2> QED BY <1>19, <1>a, <2>1, <2>3, <1>f DEF Finish, Types
<1>s. ASSUME UNCHANGED thread, Types' PROVE Shape'
    BY <1>s, <1>a DEF Shape, Frame, Current, Top
<1>20. ASSUME NEW b \in Batches, ReleaseContentBatch(b) PROVE Shape'
    BY <1>20, <1>a, <1>s DEF ReleaseContentBatch, OwnersWithout, Types
<1>21. CASE ReleaseAllContentBatches
    BY <1>21, <1>a, <1>s DEF ReleaseAllContentBatches, Types
<1>22. ASSUME NEW b \in Batches \cup {NoBatch}, CommitFrontier(b) PROVE Shape'
    BY <1>22, <1>a, <1>s DEF CommitFrontier, Types
<1>23. CASE Restart
  <2>1. Types' BY <1>23, <1>a DEF Restart, Types, Pcs
  <2> QED BY <1>23, <2>1 DEF Restart, Shape, Frame
<1>24. CASE UNCHANGED vars
    BY <1>24, <1>a, <1>s DEF vars, Types
<1> QED BY <1>1, <1>2, <1>3, <1>4, <1>5, <1>6, <1>7, <1>8, <1>9, <1>10, <1>11, <1>12, <1>13, <1>14, <1>14b, <1>14c,
           <1>15, <1>16, <1>17, <1>18, <1>19, <1>20, <1>21, <1>22, <1>23, <1>24 DEF Next, Step, Protocol, Environment, Protocol, Environment


----------------------------------------------------------------------------
(* The counter counts: how each kind of step changes the open transactions. *)

\* A granted request opens a transaction exactly when it is a write.
LEMMA AdvanceOpen ==
    ASSUME NEW t \in Threads, Shape, pc[t] # "unlock", Advance(t)
    PROVE  /\ Current(t).op = "write" => OpenAt(t)' = OpenAt(t) \cup {k[t] + 1}
           /\ Current(t).op # "write" => OpenAt(t)' = OpenAt(t)
<1>1. k[t] \in Nat /\ k'[t] = k[t] + 1 /\ prog' = prog /\ pc'[t] # "unlock" BY DEF Shape, Types, Advance
<1>2. OpenAt(t) = {i \in 1..k[t] : prog[t][i].op = "write"} BY DEF OpenAt
<1>3. OpenAt(t)' = {i \in 1..(k[t] + 1) : prog[t][i].op = "write"} BY <1>1 DEF OpenAt
<1> QED BY <1>1, <1>2, <1>3 DEF Current

\* A refused request opens none.
LEMMA RaiseOpen ==
    ASSUME NEW t \in Threads, Shape, pc[t] # "unlock", Raise(t)
    PROVE  OpenAt(t)' = OpenAt(t)
<1>1. k' = k /\ prog' = prog /\ pc'[t] # "unlock" BY DEF Shape, Types, Raise
<1> QED BY <1>1 DEF OpenAt

\* Leaving a frame that is not an open transaction closes none.
LEMMA PopOpen ==
    ASSUME NEW t \in Threads, Shape, k[t] > 0, Pop(t), pc[t] = "unlock" \/ Top(t).op # "write"
    PROVE  OpenAt(t)' = OpenAt(t)
<1>1. k[t] \in Nat /\ k'[t] = k[t] - 1 /\ prog' = prog /\ pc'[t] # "unlock" BY DEF Shape, Types, Pop
<1>2. OpenAt(t)' = {i \in 1..(k[t] - 1) : prog[t][i].op = "write"} BY <1>1 DEF OpenAt
<1>3. OpenAt(t) = {i \in 1..(k[t] - 1) : prog[t][i].op = "write"} BY <1>1 DEF OpenAt, Top
<1> QED BY <1>2, <1>3

\* Membership in OpenTransactions, thread by thread.
LEMMA OpenMember ==
    \A u, i : <<u, i>> \in OpenTransactions <=> u \in Threads /\ i \in OpenAt(u)
BY DEF OpenTransactions

\* One thread steps, the rest keep their frames.
OthersKeep(t) == \A u \in Threads \ {t} : prog'[u] = prog[u] /\ k'[u] = k[u] /\ pc'[u] = pc[u]

\* A step of one thread leaves the open transactions of the others alone.
LEMMA OthersOpen ==
    ASSUME NEW t \in Threads, OthersKeep(t)
    PROVE  \A u \in Threads \ {t} : OpenAt(u)' = OpenAt(u)
BY DEF OthersKeep, OpenAt

\* The set of open transactions after a step that moves none ...
LEMMA SameOpen ==
    ASSUME NEW t \in Threads, OthersKeep(t), OpenAt(t)' = OpenAt(t)
    PROVE  OpenTransactions' = OpenTransactions
<1>1. \A u \in Threads : OpenAt(u)' = OpenAt(u) BY OthersOpen
<1> QED BY <1>1 DEF OpenTransactions

\* ... after one that opens one ...
LEMMA AddedOpen ==
    ASSUME NEW t \in Threads, NEW i, OthersKeep(t), OpenAt(t)' = OpenAt(t) \cup {i}
    PROVE  OpenTransactions' = OpenTransactions \cup {<<t, i>>}
<1>1. \A u \in Threads \ {t} : OpenAt(u)' = OpenAt(u) BY OthersOpen
<1> QED BY <1>1 DEF OpenTransactions

\* ... and after one that closes one.
LEMMA RemovedOpen ==
    ASSUME NEW t \in Threads, NEW i, OthersKeep(t), OpenAt(t)' = OpenAt(t) \ {i}
    PROVE  OpenTransactions' = OpenTransactions \ {<<t, i>>}
<1>1. \A u \in Threads \ {t} : OpenAt(u)' = OpenAt(u) BY OthersOpen
<1> QED BY <1>1 DEF OpenTransactions

Counted == IsFiniteSet(OpenTransactions) /\ CountsTransactions

\* Every step but Admit, EndTransaction and Restart leaves both sides alone.
NeutralOpen == OpenTransactions' = OpenTransactions /\ activeTx' = activeTx

\* Admit opens one new transaction.
LEMMA AdmitOpen ==
    ASSUME NEW t \in Threads, Shape, Admit(t)
    PROVE  OpenTransactions' = OpenTransactions \cup {<<t, k[t] + 1>>} /\ <<t, k[t] + 1>> \notin OpenTransactions
<1>1. pc[t] = "admit" /\ Current(t).op = "write" /\ k[t] \in Nat BY DEF Admit, Shape, Frame, Types
<1>2. OpenAt(t)' = OpenAt(t) \cup {k[t] + 1} BY <1>1, AdvanceOpen DEF Admit
<1>3. OthersKeep(t) BY DEF OthersKeep, Admit, Advance, Shape, Types
<1>4. k[t] + 1 \notin OpenAt(t) BY <1>1 DEF OpenAt
<1> QED BY <1>2, <1>3, <1>4, AddedOpen, OpenMember

\* EndTransaction closes one that was open.
LEMMA EndTransactionOpen ==
    ASSUME NEW t \in Threads, Shape, EndTransaction(t)
    PROVE  OpenTransactions' = OpenTransactions \ {<<t, k[t]>>} /\ <<t, k[t]>> \in OpenTransactions
<1>1. pc[t] = "leave" /\ pc'[t] = "unlock" /\ prog' = prog /\ k' = k /\ k[t] \in Nat /\ k[t] > 0
      /\ prog[t][k[t]].op = "write"
    BY DEF EndTransaction, Shape, Types, Top
<1>2. OpenAt(t)' = OpenAt(t) \ {k[t]} /\ k[t] \in OpenAt(t) BY <1>1 DEF OpenAt
<1>3. OthersKeep(t) BY DEF OthersKeep, EndTransaction, Shape, Types
<1> QED BY <1>2, <1>3, RemovedOpen, OpenMember


\* No step but these two, and a restart, changes the open transactions.
LEMMA StepOpen ==
    ASSUME Shape, [Next]_vars
    PROVE  NeutralOpen \/ (\E t \in Threads : Admit(t) \/ EndTransaction(t)) \/ Restart
<1> USE DEF NeutralOpen
<1>a. Types /\ \A t \in Threads : Frame(t) BY DEF Shape
<1>r. ASSUME NEW t \in Threads, pc[t] # "unlock", Raise(t), activeTx' = activeTx PROVE NeutralOpen
  <2>1. OthersKeep(t) BY <1>r, <1>a DEF OthersKeep, Raise, Types
  <2> QED BY <1>r, <2>1, RaiseOpen, SameOpen
<1>d. ASSUME NEW t \in Threads, pc[t] # "unlock", Current(t).op # "write", Advance(t), activeTx' = activeTx
      PROVE  NeutralOpen
  <2>1. OthersKeep(t) BY <1>d, <1>a DEF OthersKeep, Advance, Types
  <2> QED BY <1>d, <2>1, AdvanceOpen, SameOpen
<1>p. ASSUME NEW t \in Threads, k[t] > 0, pc[t] = "unlock" \/ Top(t).op # "write", Pop(t), activeTx' = activeTx
      PROVE  NeutralOpen
  <2>1. OthersKeep(t) BY <1>p, <1>a DEF OthersKeep, Pop, Types
  <2> QED BY <1>p, <2>1, PopOpen, SameOpen
<1>k. ASSUME NEW t \in Threads, pc[t] # "unlock", pc'[t] # "unlock", k' = k, prog' = prog,
             OthersKeep(t), activeTx' = activeTx
      PROVE  NeutralOpen
  <2>1. OpenAt(t)' = OpenAt(t) BY <1>k DEF OpenAt
  <2> QED BY <1>k, <2>1, SameOpen
<1>u. ASSUME UNCHANGED thread, activeTx' = activeTx PROVE NeutralOpen
    BY <1>u DEF thread, OpenTransactions, OpenAt
<1>1. ASSUME NEW t \in Threads, NEW p \in Programs, Start(t, p) PROVE NeutralOpen
  <2>1. pc[t] = "idle" /\ k[t] = 0 /\ k' = k BY <1>1, <1>a DEF Start, Frame
  <2>2. OpenAt(t)' = {} /\ OpenAt(t) = {} BY <2>1 DEF OpenAt
  <2>3. OthersKeep(t) BY <1>1, <1>a DEF OthersKeep, Start, Types
  <2> QED BY <1>1, <2>2, <2>3, SameOpen DEF Start
<1>2. ASSUME NEW t \in Threads, ReadFrontier(t) PROVE NeutralOpen
  <2>1. pc'[t] # "unlock" /\ OthersKeep(t) BY <1>2, <1>a DEF ReadFrontier, OthersKeep, Types
  <2> QED BY <1>2, <2>1, <1>k DEF ReadFrontier
<1>3. ASSUME NEW t \in Threads, RecoveryRequired(t) PROVE NeutralOpen
    BY <1>3, <1>r DEF RecoveryRequired
<1>4. ASSUME NEW t \in Threads, Rehydrate(t) PROVE NeutralOpen
  <2>1. pc'[t] # "unlock" /\ OthersKeep(t) BY <1>4, <1>a DEF Rehydrate, OthersKeep, Types
  <2> QED BY <1>4, <2>1, <1>k DEF Rehydrate
<1>5. ASSUME NEW t \in Threads, Acquire(t) PROVE NeutralOpen
  <2>1. pc[t] # "unlock" BY <1>5 DEF Acquire, Ready
  <2>2. pc'[t] # "unlock" /\ OthersKeep(t) BY <1>5, <1>a DEF Acquire, OthersKeep, Types
  <2> QED BY <1>5, <2>1, <2>2, <1>k DEF Acquire
<1>6. ASSUME NEW t \in Threads, RefuseTransaction(t) PROVE NeutralOpen
    BY <1>6, <1>r DEF RefuseTransaction
<1>7. ASSUME NEW t \in Threads, NestMaintenance(t) PROVE NeutralOpen
    BY <1>7, <1>d DEF NestMaintenance, Ready
<1>8. ASSUME NEW t \in Threads, GrantMaintenance(t) PROVE NeutralOpen
    BY <1>8, <1>d DEF GrantMaintenance, Ready
<1>9. ASSUME NEW t \in Threads, RefuseMaintenance(t) PROVE NeutralOpen
    BY <1>9, <1>r DEF RefuseMaintenance, Ready
<1>10. ASSUME NEW t \in Threads, ReserveExisting(t) PROVE NeutralOpen
    BY <1>10, <1>d DEF ReserveExisting, Ready
<1>11. ASSUME NEW t \in Threads, ReserveNew(t) PROVE NeutralOpen
    BY <1>11, <1>d DEF ReserveNew, Ready
<1>12. ASSUME NEW t \in Threads, RefuseReservation(t) PROVE NeutralOpen
    BY <1>12, <1>r DEF RefuseReservation, Ready
<1>13. ASSUME NEW t \in Threads, ActiveBatches(t) \/ BodyReturns(t) PROVE NeutralOpen
    BY <1>13, <1>d DEF ActiveBatches, BodyReturns, Ready
<1>13b. ASSUME NEW t \in Threads, BodyRaises(t) PROVE NeutralOpen
    BY <1>13b, <1>r DEF BodyRaises, Ready
<1>14. ASSUME NEW t \in Threads, Unlock(t) PROVE NeutralOpen
  <2>1. k[t] > 0 BY <1>14, <1>a DEF Unlock, Frame
  <2> QED BY <1>14, <2>1, <1>p DEF Unlock
<1>15. ASSUME NEW t \in Threads, ExitMaintenance(t) PROVE NeutralOpen
    BY <1>15, <1>p DEF ExitMaintenance
<1>16. ASSUME NEW t \in Threads, SkipCall(t) PROVE NeutralOpen
    BY <1>16, <1>p DEF SkipCall, IsContext
<1>17. ASSUME NEW t \in Threads, Finish(t) PROVE NeutralOpen
  <2>1. k[t] = 0 /\ k' = k BY <1>17 DEF Finish
  <2>2. OpenAt(t)' = {} /\ OpenAt(t) = {} BY <2>1 DEF OpenAt
  <2>3. OthersKeep(t) BY <1>17, <1>a DEF OthersKeep, Finish, Types
  <2> QED BY <1>17, <2>2, <2>3, SameOpen DEF Finish
<1>18. ASSUME NEW b, ReleaseContentBatch(b) \/ CommitFrontier(b) PROVE NeutralOpen
    BY <1>18, <1>u DEF ReleaseContentBatch, CommitFrontier
<1>19. CASE ReleaseAllContentBatches BY <1>19, <1>u DEF ReleaseAllContentBatches
<1>20. CASE UNCHANGED vars BY <1>20, <1>u DEF vars
<1> QED BY <1>1, <1>2, <1>3, <1>4, <1>5, <1>6, <1>7, <1>8, <1>9, <1>10, <1>11, <1>12, <1>13, <1>13b, <1>14,
           <1>15, <1>16, <1>17, <1>18, <1>19, <1>20 DEF Next, Step, Protocol, Environment, Protocol, Environment

\* Nothing is open at first, and the counter is zero.
LEMMA InitCounted == Init => Counted
<1> SUFFICES ASSUME Init PROVE Counted OBVIOUS
<1>1. \A t \in Threads : OpenAt(t) = {} BY DEF Init, OpenAt
<1>2. OpenTransactions = {} BY <1>1 DEF OpenTransactions
<1> QED BY <1>2, FS_EmptySet DEF Init, Counted, CountsTransactions

\* The counter follows the set of open transactions through every step.
LEMMA NextCounted == Shape /\ Counted /\ [Next]_vars => Counted'
<1> SUFFICES ASSUME Shape, Counted, [Next]_vars PROVE Counted' OBVIOUS
<1> USE DEF Counted, CountsTransactions
<1>1. CASE NeutralOpen BY <1>1 DEF NeutralOpen
<1>2. ASSUME NEW t \in Threads, Admit(t) PROVE Counted'
  <2>1. PICK x : OpenTransactions' = OpenTransactions \cup {x} /\ x \notin OpenTransactions BY <1>2, AdmitOpen
  <2>2. IsFiniteSet(OpenTransactions \cup {x})
        /\ Cardinality(OpenTransactions \cup {x}) = Cardinality(OpenTransactions) + 1
      BY <2>1, FS_AddElement
  <2>3. activeTx' = activeTx + 1 BY <1>2 DEF Admit
  <2> QED BY <2>1, <2>2, <2>3
<1>3. ASSUME NEW t \in Threads, EndTransaction(t) PROVE Counted'
    BY <1>3, EndTransactionOpen, FS_RemoveElement DEF EndTransaction
<1>4. CASE Restart
  <2>1. \A t \in Threads : OpenAt(t)' = {} BY <1>4 DEF Restart, OpenAt
  <2>2. OpenTransactions' = {} BY <2>1 DEF OpenTransactions
  <2> QED BY <1>4, <2>2, FS_EmptySet DEF Restart
<1> QED BY <1>1, <1>2, <1>3, <1>4, StepOpen

\* The maintenance decision rests on the counter of _active_transactions: it
\* is zero only when no transaction is open, whatever refusals, exceptions
\* and restarts came before.
THEOREM TransactionsAreCounted == Spec => []CountsTransactions
<1>1. Init => Shape /\ Counted BY InitShape, InitCounted
<1>2. Shape /\ Counted /\ [Next]_vars => (Shape /\ Counted)' BY NextShape, NextCounted
<1>3. Shape /\ Counted => CountsTransactions BY DEF Counted
<1> QED BY <1>1, <1>2, <1>3, PTL DEF Spec

----------------------------------------------------------------------------
(* Maintenance and transactions exclude one another.                       *)

\* A step never leaves a transaction open under the maintenance of another
\* thread: Admit looks at the owner, GrantMaintenance at the counter.
LEMMA NextExcludes ==
    Shape /\ Counted /\ MaintenanceExcludesTransactions /\ [Next]_vars => MaintenanceExcludesTransactions'
<1> SUFFICES ASSUME Shape, Counted, MaintenanceExcludesTransactions, [Next]_vars
             PROVE  MaintenanceExcludesTransactions'
    OBVIOUS
<1> USE DEF MaintenanceExcludesTransactions
<1>1. ASSUME NEW t \in Threads, Admit(t) PROVE MaintenanceExcludesTransactions'
  <2>1. OpenTransactions' = OpenTransactions \cup {<<t, k[t] + 1>>} BY <1>1, AdmitOpen
  <2>2. maintOwner \in {NoThread, t} /\ maintOwner' = maintOwner BY <1>1 DEF Admit, maint
  <2>3. ASSUME NEW x \in OpenTransactions' PROVE maintOwner' \in {NoThread, x[1]}
    <3>1. CASE x \in OpenTransactions BY <3>1, <2>2
    <3>2. CASE x = <<t, k[t] + 1>> BY <3>2, <2>2
    <3> QED BY <2>1, <3>1, <3>2
  <2> QED BY <2>3
<1>2. ASSUME NEW t \in Threads, EndTransaction(t) PROVE MaintenanceExcludesTransactions'
    BY <1>2, EndTransactionOpen DEF EndTransaction, maint
<1>3. CASE Restart
  <2>1. \A t \in Threads : OpenAt(t)' = {} BY <1>3 DEF Restart, OpenAt
  <2> QED BY <2>1 DEF OpenTransactions
<1>4. ASSUME NEW t \in Threads, GrantMaintenance(t) PROVE MaintenanceExcludesTransactions'
  <2>1. activeTx = 0 /\ activeTx' = activeTx BY <1>4 DEF GrantMaintenance, MaintenanceFree
  <2>2. OpenTransactions = {} BY <2>1, FS_EmptySet DEF Counted, CountsTransactions
  <2>3. Current(t).op # "write" /\ pc[t] # "unlock" BY <1>4 DEF GrantMaintenance, Ready
  <2>4. OpenAt(t)' = OpenAt(t) /\ OthersKeep(t)
      BY <1>4, <2>3, AdvanceOpen DEF GrantMaintenance, OthersKeep, Advance, Shape, Types
  <2> QED BY <2>2, <2>4, SameOpen
<1>5. CASE NeutralOpen /\ maintOwner' \in {maintOwner, NoThread}
    BY <1>5 DEF NeutralOpen
<1>6. ASSUME ~(\E t \in Threads : GrantMaintenance(t)), ~Restart PROVE maintOwner' \in {maintOwner, NoThread}
    BY <1>6 DEF Next, Step, Protocol, Environment, vars, maint, Start, ReadFrontier, RecoveryRequired, Rehydrate, Acquire, Admit,
        RefuseTransaction, NestMaintenance, RefuseMaintenance, ReserveExisting, ReserveNew, RefuseReservation,
        ActiveBatches, BodyReturns, BodyRaises, EndTransaction, Unlock, ExitMaintenance, SkipCall, Finish, ReleaseContentBatch,
        ReleaseAllContentBatches, CommitFrontier
<1> QED BY <1>1, <1>2, <1>3, <1>4, <1>5, <1>6, StepOpen

\* No thread is inside a transaction while another is inside maintenance().
THEOREM MaintenanceExclusion == Spec => []MaintenanceExcludesTransactions
<1>1. Init => Shape /\ Counted BY InitShape, InitCounted
<1>2. Init => MaintenanceExcludesTransactions BY DEF Init, MaintenanceExcludesTransactions
<1>3. Shape /\ Counted /\ MaintenanceExcludesTransactions /\ [Next]_vars
      => (Shape /\ Counted /\ MaintenanceExcludesTransactions)'
    BY NextShape, NextCounted, NextExcludes
<1> QED BY <1>1, <1>2, <1>3, PTL DEF Spec


----------------------------------------------------------------------------
(* Locks: the recursion count of a lock is the number of frames that hold  *)
(* it, and they all belong to its owner.                                   *)

Depth(t) == IF pc[t] = "admit" THEN k[t] + 1 ELSE k[t]
LockAt(t, l) == {i \in 1..Depth(t) : prog[t][i].op = "write" /\ prog[t][i].lock = l}
LockFrames(l) == UNION {{t} \X LockAt(t, l) : t \in Threads}

LocksCounted ==
    \A l \in Locks :
        /\ IsFiniteSet(LockFrames(l))
        /\ lockDepth[l] = Cardinality(LockFrames(l))
        /\ \A x \in LockFrames(l) : lockOwner[l] = x[1]

\* Membership in the frames of a lock, thread by thread.
LEMMA LockMember ==
    \A l, u, i : <<u, i>> \in LockFrames(l) <=> u \in Threads /\ i \in LockAt(u, l)
BY DEF LockFrames

\* A step of one thread leaves the lock frames of the others alone.
LEMMA OthersLock ==
    ASSUME NEW t \in Threads, OthersKeep(t), NEW l
    PROVE  \A u \in Threads \ {t} : LockAt(u, l)' = LockAt(u, l)
BY DEF OthersKeep, LockAt, Depth

\* The frames of a lock after a step that does not touch it ...
LEMMA SameLock ==
    ASSUME NEW t \in Threads, NEW l, OthersKeep(t), LockAt(t, l)' = LockAt(t, l)
    PROVE  LockFrames(l)' = LockFrames(l)
<1>1. \A u \in Threads : LockAt(u, l)' = LockAt(u, l) BY OthersLock
<1> QED BY <1>1 DEF LockFrames

\* ... after one that acquires it ...
LEMMA AddedLock ==
    ASSUME NEW t \in Threads, NEW l, NEW i, OthersKeep(t), LockAt(t, l)' = LockAt(t, l) \cup {i}
    PROVE  LockFrames(l)' = LockFrames(l) \cup {<<t, i>>}
<1>1. \A u \in Threads \ {t} : LockAt(u, l)' = LockAt(u, l) BY OthersLock
<1> QED BY <1>1 DEF LockFrames

\* ... and after one that gives it back.
LEMMA RemovedLock ==
    ASSUME NEW t \in Threads, NEW l, NEW i, OthersKeep(t), LockAt(t, l)' = LockAt(t, l) \ {i}
    PROVE  LockFrames(l)' = LockFrames(l) \ {<<t, i>>}
<1>1. \A u \in Threads \ {t} : LockAt(u, l)' = LockAt(u, l) BY OthersLock
<1> QED BY <1>1 DEF LockFrames

\* Every step but Acquire, RefuseTransaction, Unlock and Restart.
NeutralLocks == (\A l \in Locks : LockFrames(l)' = LockFrames(l)) /\ UNCHANGED locking

\* No step but these three, and a restart, touches a lock.
LEMMA StepLocks ==
    ASSUME Shape, [Next]_vars
    PROVE  NeutralLocks \/ (\E t \in Threads : Acquire(t) \/ RefuseTransaction(t) \/ Unlock(t)) \/ Restart
<1> USE DEF NeutralLocks
<1>a. Types /\ \A t \in Threads : Frame(t) BY DEF Shape
<1>r. ASSUME NEW t \in Threads, pc[t] # "admit", Raise(t), UNCHANGED locking PROVE NeutralLocks
  <2>1. OthersKeep(t) /\ k' = k /\ prog' = prog /\ pc'[t] = "leave"
      BY <1>r, <1>a DEF OthersKeep, Raise, Types
  <2>2. \A l : LockAt(t, l)' = LockAt(t, l) BY <1>r, <2>1 DEF LockAt, Depth
  <2> QED BY <1>r, <2>1, <2>2, SameLock
<1>d. ASSUME NEW t \in Threads, pc[t] # "admit", Current(t).op # "write", Advance(t), UNCHANGED locking
      PROVE  NeutralLocks
  <2>1. OthersKeep(t) /\ prog' = prog /\ k'[t] = k[t] + 1 /\ pc'[t] # "admit" /\ k[t] \in Nat
      BY <1>d, <1>a DEF OthersKeep, Advance, Types
  <2>2. \A l : LockAt(t, l)' = LockAt(t, l) BY <1>d, <2>1 DEF LockAt, Depth, Current
  <2> QED BY <1>d, <2>1, <2>2, SameLock
<1>p. ASSUME NEW t \in Threads, k[t] > 0, pc[t] = "leave", Top(t).op # "write", Pop(t), UNCHANGED locking
      PROVE  NeutralLocks
  <2>1. OthersKeep(t) /\ prog' = prog /\ k'[t] = k[t] - 1 /\ pc'[t] # "admit" /\ k[t] \in Nat
      BY <1>p, <1>a DEF OthersKeep, Pop, Types
  <2>2. \A l : LockAt(t, l)' = LockAt(t, l) BY <1>p, <2>1 DEF LockAt, Depth, Top
  <2> QED BY <1>p, <2>1, <2>2, SameLock
<1>k. ASSUME NEW t \in Threads, pc[t] # "admit", pc'[t] # "admit", k' = k, prog' = prog,
             OthersKeep(t), UNCHANGED locking
      PROVE  NeutralLocks
  <2>1. \A l : LockAt(t, l)' = LockAt(t, l) BY <1>k DEF LockAt, Depth
  <2> QED BY <1>k, <2>1, SameLock
<1>u. ASSUME UNCHANGED thread, UNCHANGED locking PROVE NeutralLocks
    BY <1>u DEF thread, LockFrames, LockAt, Depth
<1>1. ASSUME NEW t \in Threads, NEW p \in Programs, Start(t, p) PROVE NeutralLocks
  <2>1. pc[t] = "idle" /\ pc'[t] = "call" /\ k[t] = 0 /\ k' = k BY <1>1, <1>a DEF Start, Frame, Types
  <2>2. \A l : LockAt(t, l)' = {} /\ LockAt(t, l) = {} BY <2>1 DEF LockAt, Depth
  <2>3. OthersKeep(t) BY <1>1, <1>a DEF OthersKeep, Start, Types
  <2> QED BY <1>1, <2>2, <2>3, SameLock DEF Start
<1>2. ASSUME NEW t \in Threads, ReadFrontier(t) PROVE NeutralLocks
  <2>1. pc'[t] # "admit" /\ OthersKeep(t) BY <1>2, <1>a DEF ReadFrontier, OthersKeep, Types
  <2> QED BY <1>2, <2>1, <1>k DEF ReadFrontier
<1>3. ASSUME NEW t \in Threads, RecoveryRequired(t) PROVE NeutralLocks
    BY <1>3, <1>r DEF RecoveryRequired
<1>4. ASSUME NEW t \in Threads, Rehydrate(t) PROVE NeutralLocks
  <2>1. pc'[t] # "admit" /\ OthersKeep(t) BY <1>4, <1>a DEF Rehydrate, OthersKeep, Types
  <2> QED BY <1>4, <2>1, <1>k DEF Rehydrate
<1>5. ASSUME NEW t \in Threads, Admit(t) PROVE NeutralLocks
  <2>1. OthersKeep(t) /\ prog' = prog /\ k'[t] = k[t] + 1 /\ pc[t] = "admit" /\ pc'[t] # "admit"
      BY <1>5, <1>a DEF OthersKeep, Admit, Advance, Types
  <2>2. \A l : LockAt(t, l)' = LockAt(t, l) BY <2>1 DEF LockAt, Depth
  <2> QED BY <1>5, <2>1, <2>2, SameLock DEF Admit
<1>7. ASSUME NEW t \in Threads, NestMaintenance(t) PROVE NeutralLocks
    BY <1>7, <1>d DEF NestMaintenance, Ready
<1>8. ASSUME NEW t \in Threads, GrantMaintenance(t) PROVE NeutralLocks
    BY <1>8, <1>d DEF GrantMaintenance, Ready
<1>9. ASSUME NEW t \in Threads, RefuseMaintenance(t) PROVE NeutralLocks
    BY <1>9, <1>r DEF RefuseMaintenance, Ready
<1>10. ASSUME NEW t \in Threads, ReserveExisting(t) PROVE NeutralLocks
    BY <1>10, <1>d DEF ReserveExisting, Ready
<1>11. ASSUME NEW t \in Threads, ReserveNew(t) PROVE NeutralLocks
    BY <1>11, <1>d DEF ReserveNew, Ready
<1>12. ASSUME NEW t \in Threads, RefuseReservation(t) PROVE NeutralLocks
    BY <1>12, <1>r DEF RefuseReservation, Ready
<1>13. ASSUME NEW t \in Threads, ActiveBatches(t) \/ BodyReturns(t) PROVE NeutralLocks
    BY <1>13, <1>d DEF ActiveBatches, BodyReturns, Ready
<1>13b. ASSUME NEW t \in Threads, BodyRaises(t) PROVE NeutralLocks
    BY <1>13b, <1>r DEF BodyRaises, Ready
<1>14. ASSUME NEW t \in Threads, EndTransaction(t) PROVE NeutralLocks
  <2>1. pc'[t] # "admit" /\ OthersKeep(t) BY <1>14, <1>a DEF EndTransaction, OthersKeep, Types
  <2> QED BY <1>14, <2>1, <1>k DEF EndTransaction
<1>15. ASSUME NEW t \in Threads, ExitMaintenance(t) PROVE NeutralLocks
    BY <1>15, <1>p DEF ExitMaintenance
<1>16. ASSUME NEW t \in Threads, SkipCall(t) PROVE NeutralLocks
    BY <1>16, <1>p DEF SkipCall, IsContext
<1>17. ASSUME NEW t \in Threads, Finish(t) PROVE NeutralLocks
  <2>1. k[t] = 0 /\ k' = k /\ pc[t] = "leave" /\ pc'[t] = "idle" BY <1>17, <1>a DEF Finish, Types
  <2>2. \A l : LockAt(t, l)' = {} /\ LockAt(t, l) = {} BY <2>1 DEF LockAt, Depth
  <2>3. OthersKeep(t) BY <1>17, <1>a DEF OthersKeep, Finish, Types
  <2> QED BY <1>17, <2>2, <2>3, SameLock DEF Finish
<1>18. ASSUME NEW b, ReleaseContentBatch(b) \/ CommitFrontier(b) PROVE NeutralLocks
    BY <1>18, <1>u DEF ReleaseContentBatch, CommitFrontier
<1>19. CASE ReleaseAllContentBatches BY <1>19, <1>u DEF ReleaseAllContentBatches
<1>20. CASE UNCHANGED vars BY <1>20, <1>u DEF vars
<1> QED BY <1>1, <1>2, <1>3, <1>4, <1>5, <1>7, <1>8, <1>9, <1>10, <1>11, <1>12, <1>13, <1>13b, <1>14,
           <1>15, <1>16, <1>17, <1>18, <1>19, <1>20 DEF Next, Step, Protocol, Environment, Protocol, Environment


\* Acquire adds one frame, of the thread that now owns the lock.
LEMMA AcquireLocks ==
    ASSUME NEW t \in Threads, Shape, LocksCounted, Acquire(t)
    PROVE  LocksCounted'
<1>m. PICK m : m = Current(t).lock OBVIOUS
<1>1. pc[t] # "admit" /\ k[t] \in Nat /\ k[t] < Len(prog[t]) /\ prog[t] \in Seq(Request)
    BY DEF Acquire, Ready, Shape, Frame, Types
<1>2. pc'[t] = "admit" /\ prog' = prog /\ k' = k /\ OthersKeep(t)
    BY DEF Acquire, OthersKeep, Shape, Types
<1>3. Current(t).op = "write" /\ m \in Locks
  <2>1. k[t] + 1 \in 1..Len(prog[t]) BY <1>1
  <2> QED BY <1>m, <2>1, RequestArguments DEF Acquire, Ready, Current, Shape
<1>4. lockDepth'[m] = lockDepth[m] + 1 /\ lockOwner'[m] = t
      /\ \A l \in Locks \ {m} : lockDepth'[l] = lockDepth[l] /\ lockOwner'[l] = lockOwner[l]
    BY <1>m, <1>3 DEF Acquire, Shape, Types
<1>5. LockFrames(m)' = LockFrames(m) \cup {<<t, k[t] + 1>>} /\ <<t, k[t] + 1>> \notin LockFrames(m)
  <2>1. LockAt(t, m)' = LockAt(t, m) \cup {k[t] + 1} /\ k[t] + 1 \notin LockAt(t, m)
      BY <1>m, <1>1, <1>2, <1>3 DEF LockAt, Depth, Current
  <2> QED BY <1>2, <2>1, AddedLock, LockMember
<1>6. ASSUME NEW l \in Locks, l # m PROVE LockFrames(l)' = LockFrames(l)
  <2>1. LockAt(t, l)' = LockAt(t, l) BY <1>m, <1>1, <1>2, <1>6 DEF LockAt, Depth, Current
  <2> QED BY <1>2, <2>1, SameLock
<1>7. IsFiniteSet(LockFrames(m)') /\ lockDepth'[m] = Cardinality(LockFrames(m)')
  <2>1. IsFiniteSet(LockFrames(m)) /\ lockDepth[m] = Cardinality(LockFrames(m)) BY <1>3 DEF LocksCounted
  <2>2. IsFiniteSet(LockFrames(m) \cup {<<t, k[t] + 1>>})
        /\ Cardinality(LockFrames(m) \cup {<<t, k[t] + 1>>}) = Cardinality(LockFrames(m)) + 1
      BY <1>5, <2>1, FS_AddElement
  <2> QED BY <1>4, <1>5, <2>1, <2>2
<1>8. \A x \in LockFrames(m)' : lockOwner'[m] = x[1]
  <2> SUFFICES ASSUME NEW x \in LockFrames(m)' PROVE t = x[1] BY <1>4
  <2>1. CASE x = <<t, k[t] + 1>> BY <2>1
  <2>2. CASE x \in LockFrames(m)
    <3>1. lockOwner[m] = x[1] /\ lockOwner[m] \in {NoThread, t} BY <1>m, <1>3, <2>2 DEF LocksCounted, Acquire
    <3>2. x[1] \in Threads BY <2>2 DEF LockFrames
    <3> QED BY <3>1, <3>2, ThreadAssumption
  <2> QED BY <1>5, <2>1, <2>2
<1> QED BY <1>3, <1>4, <1>6, <1>7, <1>8 DEF LocksCounted

\* Giving a lock back removes one frame, and the owner with the last one.
LEMMA ReleaseLocks ==
    ASSUME NEW t \in Threads, NEW i, NEW m \in Locks, Shape, LocksCounted, OthersKeep(t), ReleaseLock(m),
           i \in LockAt(t, m), LockAt(t, m)' = LockAt(t, m) \ {i},
           \A l \in Locks \ {m} : LockAt(t, l)' = LockAt(t, l)
    PROVE  LocksCounted'
<1>1. LockFrames(m)' = LockFrames(m) \ {<<t, i>>} /\ <<t, i>> \in LockFrames(m) BY RemovedLock, LockMember
<1>2. \A l \in Locks \ {m} : LockFrames(l)' = LockFrames(l) BY SameLock
<1>3. lockDepth'[m] = lockDepth[m] - 1
      /\ lockOwner'[m] = (IF lockDepth[m] = 1 THEN NoThread ELSE lockOwner[m])
      /\ \A l \in Locks \ {m} : lockDepth'[l] = lockDepth[l] /\ lockOwner'[l] = lockOwner[l]
    BY DEF ReleaseLock, Shape, Types
<1>4. IsFiniteSet(LockFrames(m)) /\ lockDepth[m] = Cardinality(LockFrames(m))
      /\ \A x \in LockFrames(m) : lockOwner[m] = x[1]
    BY DEF LocksCounted
<1>5. IsFiniteSet(LockFrames(m)') /\ Cardinality(LockFrames(m)') = lockDepth[m] - 1
  <2>1. /\ IsFiniteSet(LockFrames(m) \ {<<t, i>>})
        /\ Cardinality(LockFrames(m) \ {<<t, i>>}) = Cardinality(LockFrames(m)) - 1
      BY <1>1, <1>4, FS_RemoveElement
  <2> QED BY <1>1, <1>4, <2>1
<1>6. ASSUME NEW x \in LockFrames(m)' PROVE lockOwner'[m] = x[1]
  <2>1. LockFrames(m)' # {} BY <1>6
  <2>2. Cardinality(LockFrames(m)') # 0 BY <1>5, <2>1, FS_EmptySet
  <2>3. lockDepth[m] # 1 BY <1>5, <2>2
  <2> QED BY <1>1, <1>3, <1>4, <1>6, <2>3
<1> QED BY <1>2, <1>3, <1>5, <1>6 DEF LocksCounted

\* Owner and depth of every lock follow its frames through every step.
LEMMA NextLocks == Shape /\ LocksCounted /\ [Next]_vars => LocksCounted'
<1> SUFFICES ASSUME Shape, LocksCounted, [Next]_vars PROVE LocksCounted' OBVIOUS
<1>a. Types /\ \A t \in Threads : Frame(t) BY DEF Shape
<1>1. CASE NeutralLocks BY <1>1 DEF NeutralLocks, LocksCounted, locking
<1>2. ASSUME NEW t \in Threads, Acquire(t) PROVE LocksCounted' BY <1>2, AcquireLocks
<1>3. ASSUME NEW t \in Threads, RefuseTransaction(t) PROVE LocksCounted'
  <2>m. PICK m : m = Current(t).lock OBVIOUS
  <2>1. pc[t] = "admit" /\ Current(t).op = "write" /\ k[t] \in Nat /\ k[t] < Len(prog[t]) /\ prog[t] \in Seq(Request)
      BY <1>3, <1>a DEF RefuseTransaction, Frame, Types
  <2>2. k[t] + 1 \in 1..Len(prog[t]) BY <2>1
  <2>3. m \in Locks BY <2>m, <2>1, <2>2, <1>a, RequestArguments DEF Current
  <2>4. OthersKeep(t) /\ k' = k /\ prog' = prog /\ pc'[t] = "leave"
      BY <1>3, <1>a DEF RefuseTransaction, Raise, OthersKeep, Types
  <2>5. k[t] + 1 \in LockAt(t, m) /\ LockAt(t, m)' = LockAt(t, m) \ {k[t] + 1}
      BY <2>m, <2>1, <2>4 DEF LockAt, Depth, Current
  <2>6. \A l \in Locks \ {m} : LockAt(t, l)' = LockAt(t, l)
      BY <2>m, <2>1, <2>4 DEF LockAt, Depth, Current
  <2>7. ReleaseLock(m) BY <1>3, <2>m DEF RefuseTransaction
  <2> QED BY <2>3, <2>4, <2>5, <2>6, <2>7, ReleaseLocks
<1>4. ASSUME NEW t \in Threads, Unlock(t) PROVE LocksCounted'
  <2>m. PICK m : m = Top(t).lock OBVIOUS
  <2>1. pc[t] = "unlock" /\ k[t] > 0 /\ Top(t).op = "write" /\ k[t] \in Nat /\ prog[t] \in Seq(Request)
        /\ k[t] \in 1..Len(prog[t])
      BY <1>4, <1>a DEF Unlock, Frame, Types
  <2>2. m \in Locks BY <2>m, <2>1, <1>a, RequestArguments DEF Top
  <2>3. OthersKeep(t) /\ k'[t] = k[t] - 1 /\ prog' = prog /\ pc'[t] = "leave"
      BY <1>4, <1>a DEF Unlock, Pop, OthersKeep, Types
  <2>4. k[t] \in LockAt(t, m) /\ LockAt(t, m)' = LockAt(t, m) \ {k[t]}
      BY <2>m, <2>1, <2>3 DEF LockAt, Depth, Top
  <2>5. \A l \in Locks \ {m} : LockAt(t, l)' = LockAt(t, l)
      BY <2>m, <2>1, <2>3 DEF LockAt, Depth, Top
  <2>6. ReleaseLock(m) BY <1>4, <2>m DEF Unlock
  <2> QED BY <2>2, <2>3, <2>4, <2>5, <2>6, ReleaseLocks
<1>5. CASE Restart
  <2>1. \A l, t : t \in Threads => LockAt(t, l)' = {} BY <1>5 DEF Restart, LockAt, Depth
  <2>2. \A l : LockFrames(l)' = {} BY <2>1 DEF LockFrames
  <2>3. \A l \in Locks : lockDepth'[l] = 0 BY <1>5 DEF Restart
  <2> QED BY <2>2, <2>3, FS_EmptySet DEF LocksCounted
<1> QED BY <1>1, <1>2, <1>3, <1>4, <1>5, StepLocks

\* No lock has a frame at first.
LEMMA InitLocks == Init => LocksCounted
<1> SUFFICES ASSUME Init PROVE LocksCounted OBVIOUS
<1>1. \A l, t : t \in Threads => LockAt(t, l) = {} BY DEF Init, LockAt, Depth
<1>2. \A l : LockFrames(l) = {} BY <1>1 DEF LockFrames
<1>3. \A l \in Locks : lockDepth[l] = 0 BY DEF Init
<1> QED BY <1>2, <1>3, FS_EmptySet DEF LocksCounted

\* A thread with a frame of a lock owns it.
LEMMA HoldingFrames ==
    ASSUME Shape, LocksCounted
    PROVE  HoldsItsLocks
<1> SUFFICES ASSUME NEW t \in Threads, NEW l \in Holding(t) PROVE lockOwner[l] = t BY DEF HoldsItsLocks
<1>1. Types /\ Frame(t) BY DEF Shape
<1>2. k[t] \in Nat /\ prog[t] \in Seq(Request) /\ k[t] \in 0..Len(prog[t]) BY <1>1 DEF Types, Frame
<1>3. PICK i \in 1..Depth(t) : prog[t][i].op = "write" /\ prog[t][i].lock = l
    BY <1>1, <1>2 DEF Holding, Depth, Current, Frame
<1>4. i \in 1..Len(prog[t]) BY <1>1, <1>2, <1>3 DEF Depth, Frame
<1>5. l \in Locks BY <1>1, <1>3, <1>4, RequestArguments
<1>6. <<t, i>> \in LockFrames(l) BY <1>3, LockMember DEF LockAt
<1> QED BY <1>5, <1>6 DEF LocksCounted

\* Two threads are never inside transactions of the same lock, re-entered,
\* refused and abandoned ones included.
THEOREM LocksAreHeld == Spec => []HoldsItsLocks
<1>1. Init => Shape /\ LocksCounted BY InitShape, InitLocks
<1>2. Shape /\ LocksCounted /\ [Next]_vars => (Shape /\ LocksCounted)' BY NextShape, NextLocks
<1>3. Shape /\ LocksCounted => HoldsItsLocks BY HoldingFrames
<1> QED BY <1>1, <1>2, <1>3, PTL DEF Spec

\* Type correctness, the counters being natural numbers included: neither
\* finally clause of a transaction can take its counter below zero.
THEOREM TypeCorrect == Spec => []TypeOK
<1>1. Init => Shape /\ Counted /\ LocksCounted BY InitShape, InitCounted, InitLocks
<1>2. Shape /\ Counted /\ LocksCounted /\ [Next]_vars => (Shape /\ Counted /\ LocksCounted)'
    BY NextShape, NextCounted, NextLocks
<1>3. Shape /\ Counted /\ LocksCounted => TypeOK
  <2> SUFFICES ASSUME Shape, Counted, LocksCounted PROVE TypeOK OBVIOUS
  <2>1. activeTx \in Nat BY FS_CardinalityType DEF Counted, CountsTransactions
  <2>2. \A l \in Locks : lockDepth[l] \in Nat BY FS_CardinalityType DEF LocksCounted
  <2>3. lockDepth \in [Locks -> Nat] BY <2>2 DEF Shape, Types
  <2> QED BY <2>1, <2>3 DEF Shape, Types, TypeOK, Pcs
<1> QED BY <1>1, <1>2, <1>3, PTL DEF Spec


----------------------------------------------------------------------------
(* The two ownership tables agree.                                         *)

\* Dropping any set of batches with their owners keeps the tables in step.
LEMMA DropBatches ==
    ASSUME Shape, OwnersMatchBatches, NEW gone
    PROVE  /\ \A n \in Nodes : OwnersWithout(gone)[n] # NoBatch =>
                 /\ OwnersWithout(gone)[n] \in batches \ gone
                 /\ n \in BatchNodes[OwnersWithout(gone)[n]]
           /\ \A b \in batches \ gone : \A n \in BatchNodes[b] : OwnersWithout(gone)[n] = b
<1>1. \A n \in Nodes : OwnersWithout(gone)[n] = IF nodeOwner[n] \in gone THEN NoBatch ELSE nodeOwner[n]
    BY DEF OwnersWithout
<1>2. \A b \in batches : BatchNodes[b] \subseteq Nodes BY BatchAssumption DEF Shape, Types
<1> QED BY <1>1, <1>2 DEF OwnersMatchBatches

\* Every step keeps the two tables of the batches in agreement.
LEMMA NextOwners == Shape /\ OwnersMatchBatches /\ [Next]_vars => OwnersMatchBatches'
<1> SUFFICES ASSUME Shape, OwnersMatchBatches, [Next]_vars PROVE OwnersMatchBatches' OBVIOUS
<1>a. Types /\ \A t \in Threads : Frame(t) BY DEF Shape
<1>b. \A b \in Batches : BatchNodes[b] \subseteq Nodes BY BatchAssumption
<1>1. CASE UNCHANGED tables BY <1>1 DEF OwnersMatchBatches, tables
<1>2. ASSUME NEW b \in Batches, ReleaseContentBatch(b) PROVE OwnersMatchBatches'
    BY <1>2, DropBatches DEF ReleaseContentBatch, OwnersMatchBatches
<1>3. CASE ReleaseAllContentBatches \/ Restart
    BY <1>3 DEF ReleaseAllContentBatches, Restart, OwnersMatchBatches
<1>4. ASSUME NEW t \in Threads, ReserveNew(t) PROVE OwnersMatchBatches'
  <2>m. PICK b : b = Current(t).batch OBVIOUS
  <2>1. k[t] < Len(prog[t]) /\ k[t] \in Nat /\ prog[t] \in Seq(Request) /\ Current(t).op = "reserve"
      BY <1>4, <1>a DEF ReserveNew, Ready, Frame, Types
  <2>2. k[t] + 1 \in 1..Len(prog[t]) BY <2>1
  <2>3. b \in Batches BY <2>m, <2>1, <2>2, <1>a, RequestArguments DEF Current
  <2>4. b \notin batches /\ \A n \in BatchNodes[b] : nodeOwner[n] = NoBatch
      BY <1>4, <2>m DEF ReserveNew, Reservable
  <2>5. batches' = batches \cup {b} BY <1>4, <2>m DEF ReserveNew
  <2>6. \A n \in Nodes : nodeOwner'[n] = IF n \in BatchNodes[b] THEN b ELSE nodeOwner[n]
      BY <1>4, <2>m DEF ReserveNew
  <2>7. \A c \in batches : BatchNodes[c] \subseteq Nodes BY <1>a, <1>b DEF Types
  <2>8. NoBatch \notin batches BY <1>a, BatchAssumption DEF Types
  <2>9. \A c \in batches : \A n \in BatchNodes[c] : n \notin BatchNodes[b]
      BY <2>4, <2>8 DEF OwnersMatchBatches
  <2> QED BY <1>b, <2>3, <2>5, <2>6, <2>7, <2>9 DEF OwnersMatchBatches
<1>5. ASSUME NEW t \in Threads, Rehydrate(t) PROVE OwnersMatchBatches'
  <2> DEFINE current == {seen[t]} \cap Batches
             stale   == persistedKeys \ current
             owners  == OwnersWithout(stale)
             new     == {b \in current \ batches : \A n \in BatchNodes[b] : owners[n] \in {NoBatch, b}}
  <2>1. batches' = (batches \ stale) \cup new BY <1>5 DEF Rehydrate
  <2>2. \A n \in Nodes : nodeOwner'[n] = IF \E b \in new : n \in BatchNodes[b] THEN seen[t] ELSE owners[n]
      BY <1>5 DEF Rehydrate
  <2>3. \A b \in new : b = seen[t] /\ b \in Batches /\ b \notin batches OBVIOUS
  <2>4. \A n \in Nodes : owners[n] # NoBatch => owners[n] \in batches \ stale /\ n \in BatchNodes[owners[n]]
      BY DropBatches
  <2>5. \A b \in batches \ stale : \A n \in BatchNodes[b] : owners[n] = b BY DropBatches
  <2>6. \A b \in new : \A n \in BatchNodes[b] : owners[n] = NoBatch
    <3> SUFFICES ASSUME NEW b \in new, NEW n \in BatchNodes[b] PROVE owners[n] = NoBatch OBVIOUS
    <3>1. owners[n] \in {NoBatch, b} /\ b \notin batches /\ n \in Nodes BY <1>b
    <3> QED BY <3>1, <2>4
  <2>7. \A b \in batches \ stale : b \in Batches /\ b # NoBatch /\ BatchNodes[b] \subseteq Nodes
      BY <1>a, <1>b, BatchAssumption DEF Types
  <2> HIDE DEF current, stale, owners, new
  <2>8. ASSUME NEW n \in Nodes, nodeOwner'[n] # NoBatch
        PROVE  nodeOwner'[n] \in batches' /\ n \in BatchNodes[nodeOwner'[n]]
      BY <2>1, <2>2, <2>3, <2>4, <2>8
  <2>9. ASSUME NEW b \in batches', NEW n \in BatchNodes[b] PROVE nodeOwner'[n] = b
    <3>1. CASE b \in new BY <1>b, <2>2, <2>3, <3>1
    <3>2. CASE b \in batches \ stale
      <4>1. n \in Nodes /\ owners[n] = b /\ b # NoBatch BY <2>5, <2>7, <3>2
      <4>2. ~\E c \in new : n \in BatchNodes[c] BY <2>6, <4>1
      <4> QED BY <2>2, <4>1, <4>2
    <3> QED BY <2>1, <3>1, <3>2
  <2> QED BY <2>8, <2>9 DEF OwnersMatchBatches
<1>6. ASSUME ~(\E t \in Threads : ReserveNew(t) \/ Rehydrate(t)), ~(\E b \in Batches : ReleaseContentBatch(b)),
             ~ReleaseAllContentBatches, ~Restart
      PROVE  UNCHANGED tables
    BY <1>6 DEF Next, Step, Protocol, Environment, vars, Start, ReadFrontier, RecoveryRequired, Acquire, Admit,
        RefuseTransaction, NestMaintenance, GrantMaintenance, RefuseMaintenance, ReserveExisting,
        RefuseReservation, ActiveBatches, BodyReturns, BodyRaises, EndTransaction, Unlock, ExitMaintenance, SkipCall, Finish, CommitFrontier
<1> QED BY <1>1, <1>2, <1>3, <1>4, <1>5, <1>6

\* The owner of a node is the active batch that holds it and the nodes of an
\* active batch are all its own, whatever stale frontier a thread applies.
THEOREM OwnershipConsistent == Spec => []OwnersMatchBatches
<1>1. Init => Shape BY InitShape
<1>2. Init => OwnersMatchBatches BY DEF Init, OwnersMatchBatches
<1>3. Shape /\ OwnersMatchBatches /\ [Next]_vars => (Shape /\ OwnersMatchBatches)'
    BY NextShape, NextOwners
<1> QED BY <1>1, <1>2, <1>3, PTL DEF Spec


----------------------------------------------------------------------------
(* Refinement: RepoActivity implements RepoExclusion.                      *)

\* An initial state is one of the abstract object.
LEMMA RefinementInit == Init => Exclusion!Init
<1> SUFFICES ASSUME Init PROVE Exclusion!Init OBVIOUS
<1>1. \A t \in Threads : OpenAt(t) = {} BY DEF Init, OpenAt
<1>2. OpenTransactions = {} BY <1>1 DEF OpenTransactions
<1> QED BY <1>2 DEF Init, Exclusion!Init

\* A step is one of the abstract object, or changes nothing of it.
LEMMA RefinementStep ==
    Shape /\ Counted /\ [Next]_vars => [Exclusion!Next]_(Exclusion!vars)
<1> SUFFICES ASSUME Shape, Counted, [Next]_vars PROVE Exclusion!Next \/ UNCHANGED Exclusion!vars OBVIOUS
<1> USE DEF Exclusion!Next, Exclusion!vars
<1>1. ASSUME NEW t \in Threads, Admit(t) PROVE Exclusion!Begin(t)
  <2>1. OpenTransactions' = OpenTransactions \cup {<<t, k[t] + 1>>} /\ <<t, k[t] + 1>> \notin OpenTransactions
      BY <1>1, AdmitOpen
  <2>2. maintOwner \in {NoThread, t} /\ maintOwner' = maintOwner BY <1>1 DEF Admit, maint
  <2> QED BY <2>1, <2>2 DEF Exclusion!Begin
<1>2. ASSUME NEW t \in Threads, EndTransaction(t) PROVE Exclusion!End(t)
  <2>1. OpenTransactions' = OpenTransactions \ {<<t, k[t]>>} /\ <<t, k[t]>> \in OpenTransactions
      BY <1>2, EndTransactionOpen
  <2>2. maintOwner' = maintOwner BY <1>2 DEF EndTransaction, maint
  <2> QED BY <2>1, <2>2 DEF Exclusion!End
<1>3. CASE Restart
  <2>1. \A t \in Threads : OpenAt(t)' = {} BY <1>3 DEF Restart, OpenAt
  <2>2. OpenTransactions' = {} BY <2>1 DEF OpenTransactions
  <2> QED BY <1>3, <2>2 DEF Restart, Exclusion!Crash
<1>4. ASSUME NEW t \in Threads, GrantMaintenance(t) PROVE Exclusion!Claim(t)
  <2>1. activeTx = 0 /\ maintOwner = NoThread /\ maintOwner' = t
      BY <1>4 DEF GrantMaintenance, MaintenanceFree
  <2>2. OpenTransactions = {} BY <2>1, FS_EmptySet DEF Counted, CountsTransactions
  <2>3. Current(t).op # "write" /\ pc[t] # "unlock" BY <1>4 DEF GrantMaintenance, Ready
  <2>4. OpenAt(t)' = OpenAt(t) /\ OthersKeep(t)
      BY <1>4, <2>3, AdvanceOpen DEF GrantMaintenance, OthersKeep, Advance, Shape, Types
  <2>5. OpenTransactions' = OpenTransactions BY <2>4, SameOpen
  <2> QED BY <2>1, <2>2, <2>5 DEF Exclusion!Claim
<1>5. ASSUME NEW t \in Threads, ExitMaintenance(t), NeutralOpen PROVE Exclusion!Yield(t) \/ UNCHANGED Exclusion!vars
    BY <1>5 DEF ExitMaintenance, NeutralOpen, Exclusion!Yield, maint
<1>6. ASSUME ~(\E t \in Threads : GrantMaintenance(t) \/ ExitMaintenance(t)), ~Restart PROVE maintOwner' = maintOwner
    BY <1>6 DEF Next, Step, Protocol, Environment, vars, maint, Start, ReadFrontier, RecoveryRequired, Rehydrate,
        Acquire, Admit, RefuseTransaction, NestMaintenance, RefuseMaintenance, ReserveExisting, ReserveNew,
        RefuseReservation, ActiveBatches, BodyReturns, BodyRaises, EndTransaction, Unlock, SkipCall, Finish,
        ReleaseContentBatch, ReleaseAllContentBatches, CommitFrontier
<1>7. CASE NeutralOpen /\ maintOwner' = maintOwner BY <1>7 DEF NeutralOpen
<1> QED BY <1>1, <1>2, <1>3, <1>4, <1>5, <1>6, <1>7, StepOpen

\* Every behaviour of the component is one of the object RepoExclusion
\* describes: counters, depths and lock frames are only how it is done.
THEOREM ActivityImplementsExclusion == Spec => ImplementsExclusion
<1>1. Init => Shape /\ Counted BY InitShape, InitCounted
<1>2. Shape /\ Counted /\ [Next]_vars => (Shape /\ Counted)' BY NextShape, NextCounted
<1>3. Init => Exclusion!Init BY RefinementInit
<1>4. Shape /\ Counted /\ [Next]_vars => [Exclusion!Next]_(Exclusion!vars) BY RefinementStep
<1> QED BY <1>1, <1>2, <1>3, <1>4, PTL DEF Spec, ImplementsExclusion, Exclusion!Spec

----------------------------------------------------------------------------
(* The persisted frontier, while nothing commits or releases between a     *)
(* thread's read of it and the decision the thread takes.                  *)

\* What a thread read is still so when it decides, and by then the tables
\* name the persisted batch and no other.
Calm ==
    /\ \A t \in Threads :
          /\ pc[t] = "rehydrate" => seen[t] = frontier
          /\ pc[t] = "act" => batches = {frontier} \cap Batches
          /\ \A i \in DOMAIN prog[t] : prog[t][i].op = "reserve" => prog[t][i].batch = frontier
    /\ batches \subseteq persistedKeys
    /\ frontier \in held => frontier \in batches

\* The tables after a rehydration: whatever was reserved for another frontier
\* is dropped with its owners, so nothing keeps the persisted batch out.
LEMMA RehydrateCalm ==
    ASSUME Shape, OwnersMatchBatches, Calm, NEW t \in Threads, Rehydrate(t)
    PROVE  batches' = {frontier} \cap Batches /\ batches' \subseteq persistedKeys'
<1> DEFINE current == {seen[t]} \cap Batches
           stale   == persistedKeys \ current
           owners  == OwnersWithout(stale)
           new     == {b \in current \ batches : \A n \in BatchNodes[b] : owners[n] \in {NoBatch, b}}
<1>1. seen[t] = frontier BY DEF Rehydrate, Calm
<1>2. /\ batches' = (batches \ stale) \cup new
      /\ persistedKeys' = (persistedKeys \ stale) \cup (current \cap batches) \cup new
    BY DEF Rehydrate
<1>3. batches \subseteq persistedKeys BY DEF Calm
<1>4. batches \ stale = batches \cap current BY <1>3
<1>5. current \ batches \subseteq new
  <2> SUFFICES ASSUME NEW b \in current \ batches, NEW n \in BatchNodes[b] PROVE owners[n] \in {NoBatch, b}
      OBVIOUS
  <2>1. n \in Nodes BY BatchAssumption
  <2>2. owners[n] = IF nodeOwner[n] \in stale THEN NoBatch ELSE nodeOwner[n] BY <2>1 DEF OwnersWithout
  <2>3. nodeOwner[n] # NoBatch => nodeOwner[n] \in batches BY <2>1 DEF OwnersMatchBatches
  <2>4. current \subseteq {b} OBVIOUS
  <2> QED BY <2>2, <2>3, <2>4, <1>3
<1>6. batches' = current BY <1>2, <1>4, <1>5
<1>7. batches' \subseteq persistedKeys' BY <1>2, <1>3
<1> QED BY <1>1, <1>6, <1>7

\* A step that leaves the tables alone, and no thread about to decide.
LEMMA CalmFrame ==
    ASSUME Calm, UNCHANGED <<batches, persistedKeys, seen, frontier, held>>,
           \A u \in Threads : /\ prog'[u] \in {prog[u], <<>>}
                              /\ pc'[u] \in {"rehydrate", "act"} => pc'[u] = pc[u]
    PROVE  Calm'
BY DEF Calm

\* Every quiet step keeps the calm.
LEMMA NextCalm == Shape /\ OwnersMatchBatches /\ Calm /\ [Next /\ Quiet]_vars => Calm'
<1> SUFFICES ASSUME Shape, OwnersMatchBatches, Calm, [Next /\ Quiet]_vars PROVE Calm' OBVIOUS
<1> USE DEF locking, tables, maint, thread
<1>a. Types /\ \A t \in Threads : Frame(t) BY DEF Shape
<1>w. pc \in [Threads -> Pcs] /\ prog \in [Threads -> Seq(Request)] /\ seen \in [Threads -> Batches \cup {NoBatch}]
    BY <1>a DEF Types
<1>c. ASSUME NEW t \in Threads, UNCHANGED <<batches, persistedKeys, seen, frontier, held>>,
             Advance(t) \/ Raise(t) \/ Pop(t) PROVE Calm'
  <2>1. \A u \in Threads : prog'[u] = prog[u] /\ (pc'[u] \in {"rehydrate", "act"} => pc'[u] = pc[u])
      BY <1>c, <1>w DEF Advance, Raise, Pop
  <2> QED BY <2>1, <1>c, CalmFrame
<1>d. ASSUME NEW t \in Threads, UNCHANGED <<batches, persistedKeys, seen, frontier, held, prog>>,
             pc' = [pc EXCEPT ![t] = "admit"] \/ pc' = [pc EXCEPT ![t] = "unlock"] PROVE Calm'
  <2>1. \A u \in Threads : pc'[u] \in {"rehydrate", "act"} => pc'[u] = pc[u] BY <1>d, <1>w
  <2> QED BY <2>1, <1>d, CalmFrame
<1>1. ASSUME NEW t \in Threads, NEW p \in Programs, Start(t, p) PROVE Calm'
  <2>1. \A u \in Threads : u # t => prog'[u] = prog[u] /\ pc'[u] = pc[u] BY <1>1, <1>w DEF Start
  <2>2. prog'[t] = p /\ pc'[t] = "call" BY <1>1, <1>w DEF Start
  <2>3. \A i \in DOMAIN p : p[i].op = "reserve" => p[i].batch = frontier BY <1>1 DEF Start
  <2>4. UNCHANGED <<batches, persistedKeys, seen, frontier, held>> BY <1>1 DEF Start
  <2> QED BY <2>1, <2>2, <2>3, <2>4 DEF Calm
<1>2. ASSUME NEW t \in Threads, ReadFrontier(t) PROVE Calm'
  <2>1. \A u \in Threads : u # t => seen'[u] = seen[u] /\ pc'[u] = pc[u] BY <1>2, <1>w DEF ReadFrontier
  <2>2. seen'[t] = frontier /\ pc'[t] = "rehydrate" BY <1>2, <1>w DEF ReadFrontier
  <2>3. UNCHANGED <<batches, persistedKeys, prog, frontier, held>> BY <1>2 DEF ReadFrontier
  <2> QED BY <2>1, <2>2, <2>3 DEF Calm
<1>3. ASSUME NEW t \in Threads, Rehydrate(t) PROVE Calm'
  <2>1. batches' = {frontier} \cap Batches /\ batches' \subseteq persistedKeys' BY <1>3, RehydrateCalm
  <2>2. \A u \in Threads : pc'[u] = "rehydrate" => pc[u] = "rehydrate" BY <1>3, <1>w DEF Rehydrate
  <2>3. UNCHANGED <<seen, prog, frontier, held>> BY <1>3 DEF Rehydrate
  <2>4. held \subseteq Batches BY <1>a DEF Types
  <2> QED BY <2>1, <2>2, <2>3, <2>4 DEF Calm
<1>4. ASSUME NEW t \in Threads, Ready(t, "reserve")
      PROVE  Current(t).batch = frontier /\ frontier \in batches
  <2>1. pc[t] = "act" /\ Current(t).op = "reserve" BY <1>4 DEF Ready, Rehydrates
  <2>2. k[t] + 1 \in 1..Len(prog[t]) BY <2>1, <1>a DEF Frame, Types
  <2>3. prog[t] \in Seq(Request) BY <1>w
  <2>4. Current(t).batch = frontier BY <2>1, <2>2, <2>3 DEF Current, Calm
  <2>5. Current(t).batch \in Batches BY <2>1, <2>2, <1>a, RequestArguments DEF Current
  <2> QED BY <2>1, <2>4, <2>5 DEF Calm
<1>5. ASSUME NEW t \in Threads, ReserveExisting(t) PROVE Calm'
  <2>1. UNCHANGED <<batches, persistedKeys, seen, frontier>> /\ Advance(t) BY <1>5 DEF ReserveExisting
  <2>2. \A u \in Threads : prog'[u] = prog[u] /\ (pc'[u] \in {"rehydrate", "act"} => pc'[u] = pc[u])
      BY <2>1, <1>w DEF Advance
  <2>3. frontier \in batches BY <1>4, <1>5 DEF ReserveExisting
  <2> QED BY <2>1, <2>2, <2>3 DEF Calm
<1>6. ASSUME NEW t \in Threads, ReserveNew(t) PROVE FALSE BY <1>4, <1>6 DEF ReserveNew
<1>7. ASSUME NEW b, UNCHANGED thread, UNCHANGED seen, Quiet,
             batches' \subseteq persistedKeys', frontier' \in held' => frontier' \in batches'
      PROVE  Calm'
  <2>1. ~Deciding BY <1>7 DEF Quiet
  <2>2. \A t \in Threads : /\ pc[t] \notin {"rehydrate", "act"}
                           /\ \A i \in DOMAIN prog[t] : prog[t][i].op # "reserve"
      BY <2>1 DEF Deciding
  <2> QED BY <2>2, <1>7 DEF Calm
<1>8. ASSUME Quiet, Environment PROVE Calm'
  <2>1. ASSUME NEW b \in Batches, ReleaseContentBatch(b) PROVE Calm'
    <3>1. /\ batches' = batches \ {b} /\ persistedKeys' = persistedKeys \ {b}
          /\ held' = held \ {b} /\ UNCHANGED <<thread, seen, frontier>>
        BY <2>1 DEF ReleaseContentBatch
    <3> QED BY <3>1, <1>7, <1>8 DEF Calm
  <2>2. ASSUME ReleaseAllContentBatches PROVE Calm'
    <3>1. batches' = {} /\ held' = {} /\ UNCHANGED <<thread, seen>> BY <2>2 DEF ReleaseAllContentBatches
    <3> QED BY <3>1, <1>7, <1>8
  <2>3. ASSUME NEW b \in Batches \cup {NoBatch}, CommitFrontier(b) PROVE Calm'
    <3>1. frontier' = b /\ b \notin held /\ UNCHANGED <<batches, persistedKeys, held, thread, seen>>
        BY <2>3 DEF CommitFrontier
    <3> QED BY <3>1, <1>7, <1>8 DEF Calm
  <2>4. ASSUME Restart PROVE Calm'
    <3>1. /\ batches' = {} /\ held' = {}
          /\ \A u \in Threads : pc'[u] = "idle" /\ prog'[u] = <<>>
        BY <2>4 DEF Restart
    <3> QED BY <3>1 DEF Calm
  <2> QED BY <1>8, <2>1, <2>2, <2>3, <2>4 DEF Environment
<1>9. ASSUME NEW t \in Threads, Step(t) PROVE Calm'
  <2>1. ASSUME RecoveryRequired(t) PROVE Calm' BY <2>1, <1>c DEF RecoveryRequired
  <2>2. ASSUME Acquire(t) PROVE Calm' BY <2>2, <1>d DEF Acquire
  <2>3. ASSUME Admit(t) PROVE Calm' BY <2>3, <1>c DEF Admit
  <2>4. ASSUME RefuseTransaction(t) PROVE Calm' BY <2>4, <1>c DEF RefuseTransaction
  <2>5. ASSUME NestMaintenance(t) PROVE Calm' BY <2>5, <1>c DEF NestMaintenance
  <2>6. ASSUME GrantMaintenance(t) PROVE Calm' BY <2>6, <1>c DEF GrantMaintenance
  <2>7. ASSUME RefuseMaintenance(t) PROVE Calm' BY <2>7, <1>c DEF RefuseMaintenance
  <2>8. ASSUME RefuseReservation(t) PROVE Calm' BY <2>8, <1>c DEF RefuseReservation
  <2>9. ASSUME ActiveBatches(t) PROVE Calm' BY <2>9, <1>c DEF ActiveBatches
  <2>10. ASSUME BodyReturns(t) PROVE Calm' BY <2>10, <1>c DEF BodyReturns
  <2>11. ASSUME BodyRaises(t) PROVE Calm' BY <2>11, <1>c DEF BodyRaises
  <2>12. ASSUME EndTransaction(t) PROVE Calm' BY <2>12, <1>d DEF EndTransaction
  <2>13. ASSUME Unlock(t) PROVE Calm' BY <2>13, <1>c DEF Unlock
  <2>14. ASSUME ExitMaintenance(t) PROVE Calm' BY <2>14, <1>c DEF ExitMaintenance
  <2>15. ASSUME SkipCall(t) PROVE Calm' BY <2>15, <1>c DEF SkipCall
  <2>16. ASSUME Finish(t) PROVE Calm'
    <3>1. UNCHANGED <<batches, persistedKeys, seen, frontier, held>> BY <2>16 DEF Finish
    <3>2. \A u \in Threads : /\ prog'[u] \in {prog[u], <<>>}
                             /\ pc'[u] \in {"rehydrate", "act"} => pc'[u] = pc[u]
        BY <2>16, <1>w DEF Finish
    <3> QED BY <3>1, <3>2, CalmFrame
  <2> QED BY <1>9, <1>2, <1>3, <1>5, <1>6, <2>1, <2>2, <2>3, <2>4, <2>5, <2>6, <2>7, <2>8, <2>9, <2>10, <2>11,
             <2>12, <2>13, <2>14, <2>15, <2>16 DEF Step, Protocol
<1>10. CASE UNCHANGED vars BY <1>10, CalmFrame DEF vars
<1> QED BY <1>1, <1>8, <1>9, <1>10 DEF Next

LEMMA InitCalm == Init => Calm
BY DEF Init, Calm

\* What every quiet step keeps.
Settled == Shape /\ OwnersMatchBatches /\ LocksCounted /\ Calm

LEMMA InitSettled == Init => Settled
<1>1. Init => OwnersMatchBatches BY DEF Init, OwnersMatchBatches
<1> QED BY InitShape, <1>1, InitLocks, InitCalm DEF Settled

LEMMA NextSettled == Settled /\ [Next /\ Quiet]_vars => Settled'
BY NextShape, NextOwners, NextLocks, NextCalm DEF Settled

\* Only a grant begins maintenance.
LEMMA FreshGrant ==
    ASSUME [Next]_vars, Freshly
    PROVE  \E t \in Threads : GrantMaintenance(t) /\ maintOwner' = t
<1> USE DEF locking, tables, maint, thread, Freshly
<1>1. ASSUME NEW t \in Threads, Step(t) PROVE GrantMaintenance(t)
    BY <1>1 DEF Step, Protocol, ReadFrontier, RecoveryRequired, Rehydrate, Acquire, Admit, RefuseTransaction,
                NestMaintenance, RefuseMaintenance, ReserveExisting, ReserveNew, RefuseReservation, EndTransaction,
                Unlock, ExitMaintenance, SkipCall, Finish, ActiveBatches, BodyReturns, BodyRaises
<1>2. ASSUME NEW t \in Threads, NEW p \in Programs, Start(t, p) PROVE FALSE BY <1>2 DEF Start
<1>3. ASSUME Environment PROVE FALSE
    BY <1>3 DEF Environment, ReleaseContentBatch, ReleaseAllContentBatches, CommitFrontier, Restart
<1>4. CASE UNCHANGED vars BY <1>4 DEF vars
<1> QED BY <1>1, <1>2, <1>3, <1>4 DEF Next, GrantMaintenance

\* A grant is decided on tables that name the persisted batch.
LEMMA GrantSeesFrontier ==
    ASSUME Settled, [Next]_vars, Freshly
    PROVE  frontier \in {NoBatch, Current(maintOwner').batch}
<1>1. PICK t \in Threads : GrantMaintenance(t) /\ maintOwner' = t BY FreshGrant
<1>2. pc[t] = "act" /\ MaintenanceFree(Current(t).batch) BY <1>1 DEF GrantMaintenance, Ready, Rehydrates
<1>3. batches = {frontier} \cap Batches BY <1>2 DEF Settled, Calm
<1>4. frontier \in Batches \cup {NoBatch} BY DEF Settled, Shape, Types
<1>5. batches \in {{}, {Current(t).batch}} BY <1>2 DEF MaintenanceFree
<1> QED BY <1>1, <1>3, <1>4, <1>5

\* While nothing commits between the read and the decision, the batch that
\* the Coordinator has pending blocks maintenance that is not its own.
THEOREM FrontierIsRespected == QuietSpec => FrontierBlocksMaintenance
<1>1. Settled /\ [Next /\ Quiet]_vars =>
          [Freshly => frontier \in {NoBatch, Current(maintOwner').batch}]_vars
    BY GrantSeesFrontier
<1> QED BY InitSettled, NextSettled, <1>1, PTL DEF QuietSpec, FrontierBlocksMaintenance

----------------------------------------------------------------------------
(* The members of a reserved batch stay independent (BatchTopology).       *)

\* BatchTopology's steps are RepoActivity's.
LEMMA TopologyIsActivity == [TopologyNext /\ Quiet]_topologyVars => [Next /\ Quiet]_vars
<1> SUFFICES ASSUME [TopologyNext /\ Quiet]_topologyVars PROVE [Next /\ Quiet]_vars OBVIOUS
<1>1. ASSUME NEW t \in Threads, TopologyStep(t) PROVE Step(t)
    BY <1>1 DEF TopologyStep, LearnBatches, AddEdge, RemoveEdge, CheckIndependent, OtherBody, Step
<1>2. CASE UNCHANGED topologyVars BY <1>2 DEF topologyVars
<1>3. CASE TopologyNext /\ Quiet BY <1>1, <1>3 DEF TopologyNext, Next
<1> QED BY <1>2, <1>3

\* The same with the callers' bodies filled in.
THEOREM FrontierIsRespectedByCallers == TopologySpec => FrontierBlocksMaintenance
<1>1. TopologyInit => Init BY DEF TopologyInit
<1>2. Settled /\ [Next /\ Quiet]_vars =>
          [Freshly => frontier \in {NoBatch, Current(maintOwner').batch}]_vars
    BY GrantSeesFrontier
<1> QED BY InitSettled, NextSettled, TopologyIsActivity, <1>1, <1>2, PTL
        DEF TopologySpec, FrontierBlocksMaintenance

\* Fewer edges, fewer paths: taking an edge away makes nothing dependent.
LEMMA IndependentAntitone ==
    ASSUME NEW fewer, NEW more, fewer \subseteq more, NEW b, Independent(more, b)
    PROVE  Independent(fewer, b)
<1> SUFFICES ASSUME NEW m \in BatchNodes[b], NEW n \in BatchNodes[b], m # n, HasDepPath(fewer, m, n)
             PROVE  HasDepPath(more, m, n)
    BY DEF Independent
<1> QED BY DEF HasDepPath

\* The requests of the program that reserves.
LEMMA ReservePrograms ==
    ASSUME Shape, NEW t \in Threads, Reserves(prog[t])
    PROVE  /\ Len(prog[t]) = 3 /\ prog[t][1] = Write(Topology) /\ prog[t][2] = Body
           /\ \E b \in Batches : prog[t][3] = Reserve(b)
           /\ ~EditsDeps(prog[t]) /\ ~Asks(prog[t])
<1>1. prog[t] \in Programs \cup {<<>>} BY DEF Shape, Frame
<1>2. prog[t] # <<>> BY DEF Reserves
<1>3. PICK b \in Batches : prog[t] = ReserveIndependentContentBatch(b) BY <1>1, <1>2, TopologyPrograms
<1>4. prog[t] = <<Write(Topology), Body, Reserve(b)>> BY <1>3 DEF ReserveIndependentContentBatch
<1>5. ~Asks(prog[t]) BY <1>4 DEF Asks, Write, Body, Reserve
<1> QED BY <1>4, <1>5 DEF EditsDeps

\* NodeWrite of one node is one request to write.
LEMMA OneNodeWrite ==
    ASSUME NEW n
    PROVE  \E x : /\ NodeWrite({n}) \in Seq({Write(x)})
                  /\ Len(NodeWrite({n})) = 1 /\ NodeWrite({n})[1] = Write(x)
<1> DEFINE sorted == CHOOSE s \in [1..Cardinality({n}) -> {n}] :
                         \A i, j \in DOMAIN s : i < j => PathRank[s[i]] < PathRank[s[j]]
           x == sorted[1]
           w == NodeWrite({n})
<1>1. Cardinality({n}) = 1 BY FS_Singleton
<1>2. w = [i \in 1..Cardinality({n}) |-> Write(sorted[i])] BY DEF NodeWrite
<1> HIDE DEF w, sorted
<1>3. w = [i \in 1..1 |-> Write(sorted[i])] BY <1>1, <1>2
<1>4. DOMAIN w = 1..1 /\ w[1] = Write(x) BY <1>3
<1>5. w \in [1..1 -> {Write(x)}] BY <1>3
<1>6. w \in Seq({Write(x)}) BY <1>5, SeqDef
<1>7. Len(w) = 1 BY <1>4, <1>6
<1> QED BY <1>4, <1>6, <1>7 DEF w

\* A program of one request, then those of w, then more.
LEMMA Nested ==
    ASSUME NEW S, NEW first \in S, NEW w \in Seq(S), Len(w) = 1, NEW rest \in Seq(S)
    PROVE  /\ Len(<<first>> \o w \o rest) = 2 + Len(rest)
           /\ (<<first>> \o w \o rest)[1] = first /\ (<<first>> \o w \o rest)[2] = w[1]
           /\ \A i \in 1..Len(rest) : (<<first>> \o w \o rest)[2 + i] = rest[i]
<1>1. <<first>> \in Seq(S) /\ Len(<<first>>) = 1 OBVIOUS
<1>2. (<<first>> \o w) \in Seq(S) /\ Len(<<first>> \o w) = Len(<<first>>) + Len(w)
    BY <1>1, ConcatProperties
<1>3. (<<first>> \o w)[1] = first /\ (<<first>> \o w)[2] = w[1] BY <1>1
<1> QED BY <1>1, <1>2, <1>3

\* The requests of the programs that edit the graph.
LEMMA EditPrograms ==
    ASSUME Shape, NEW t \in Threads, prog[t] # <<>>, EditsDeps(prog[t]) \/ Asks(prog[t])
    PROVE  /\ prog[t][1] = Write(Topology) /\ ~Reserves(prog[t])
           /\ Asks(prog[t]) => /\ Len(prog[t]) = 4 /\ prog[t][2].op = "write"
                               /\ prog[t][3] = Query /\ prog[t][4] = Body
<1>1. prog[t] \in Programs \ {<<>>} BY DEF Shape, Frame
<1>2. EditsDeps(prog[t]) BY <1>1, TopologyPrograms
<1>3. PICK n \in Nodes : prog[t] \in {AddNodeDep(n), RemoveNodeDep(n)} BY <1>1, <1>2, TopologyPrograms
<1>4. PICK x : /\ NodeWrite({n}) \in Seq({Write(x)}) /\ Len(NodeWrite({n})) = 1
                /\ NodeWrite({n})[1] = Write(x)
    BY OneNodeWrite
<1> DEFINE w == NodeWrite({n})
           S == {Write(Topology), Write(x), Query, Body}
<1>w. w \in Seq(S) /\ Len(w) = 1 /\ w[1] = Write(x) BY <1>4
<1> HIDE DEF w, S
<1>s. Write(Topology) \in S /\ <<Query, Body>> \in Seq(S) /\ <<Body>> \in Seq(S) BY DEF S
<1>5. CASE prog[t] = AddNodeDep(n)
  <2>1. prog[t] = <<Write(Topology)>> \o w \o <<Query, Body>> BY <1>5 DEF AddNodeDep, w
  <2>2. Len(prog[t]) = 4 /\ prog[t][1] = Write(Topology) /\ prog[t][2] = Write(x)
      BY <2>1, <1>w, <1>s, Nested
  <2>3. prog[t][3] = Query /\ prog[t][4] = Body
    <3>1. \A i \in 1..2 : prog[t][2 + i] = <<Query, Body>>[i] BY <2>1, <1>w, <1>s, Nested
    <3>2. prog[t][2 + 1] = Query /\ prog[t][2 + 2] = Body BY <3>1
    <3> QED BY <3>2
  <2>4. Write(x).op = "write" BY DEF Write
  <2> QED BY <1>2, <2>2, <2>3, <2>4 DEF EditsDeps
<1>6. CASE prog[t] = RemoveNodeDep(n)
  <2>1. prog[t] = <<Write(Topology)>> \o w \o <<Body>> BY <1>6 DEF RemoveNodeDep, w
  <2>2. Len(prog[t]) = 3 /\ prog[t][1] = Write(Topology) /\ prog[t][2] = Write(x)
      BY <2>1, <1>w, <1>s, Nested
  <2>3. prog[t][2 + 1] = Body BY <2>1, <1>w, <1>s, Nested
  <2>4. DOMAIN prog[t] = 1..3 BY <2>2 DEF Shape, Types
  <2>5. ~Asks(prog[t]) BY <2>2, <2>3, <2>4 DEF Asks, Write, Body
  <2> QED BY <1>2, <2>2, <2>5 DEF EditsDeps
<1> QED BY <1>3, <1>5, <1>6

Inside == {"call", "rehydrate", "act"}

\* A thread about to write an edge was told of the batch that is reserved and
\* pending; one about to reserve that batch has checked it on this very graph.
Guarded ==
    /\ answer \in [Threads -> SUBSET Batches]
    /\ \A t \in Threads :
          /\ Asks(prog[t]) /\ pc[t] = "call" /\ Current(t).op = "body" /\ frontier \in held
                => frontier \in answer[t]
          /\ Reserves(prog[t]) /\ k[t] = 2 /\ pc[t] \in Inside => Independent(deps, frontier)
    /\ frontier \in held => Independent(deps, frontier)

\* A thread inside a program that begins with topology_write owns that lock.
LEMMA OwnsTopology ==
    ASSUME Shape, HoldsItsLocks, NEW t \in Threads, k[t] >= 1, prog[t][1] = Write(Topology)
    PROVE  lockOwner[Topology] = t
<1>1. k[t] \in Nat BY DEF Shape, Types
<1>2. 1 \in {j \in 1..k[t] : prog[t][j].op = "write"} BY <1>1 DEF Write
<1>3. prog[t][1].lock = Topology BY DEF Write
<1>4. Topology \in Holding(t) BY <1>2, <1>3 DEF Holding
<1> QED BY <1>4 DEF HoldsItsLocks

\* Where a thread is that runs a body.
LEMMA BodyPlace ==
    ASSUME Shape, NEW t \in Threads, Ready(t, "body")
    PROVE  /\ pc[t] = "call" /\ k[t] < Len(prog[t]) /\ prog[t] # <<>> /\ Current(t).op = "body"
           /\ EditsDeps(prog[t]) \/ Asks(prog[t]) => k[t] >= 1
           /\ Asks(prog[t]) => k[t] = 3
           /\ Reserves(prog[t]) => k[t] = 1
<1>1. Types /\ Frame(t) BY DEF Shape
<1>2. pc[t] = "call" /\ Current(t).op = "body" BY DEF Ready, Rehydrates
<1>3. k[t] \in Nat /\ k[t] < Len(prog[t]) /\ prog[t] \in Seq(Request) BY <1>1, <1>2 DEF Types, Frame
<1>4. prog[t] # <<>> BY <1>3
<1>5. ASSUME EditsDeps(prog[t]) \/ Asks(prog[t]) PROVE k[t] >= 1 /\ (Asks(prog[t]) => k[t] = 3)
  <2>1. k[t] # 0 BY <1>2, <1>4, <1>5, EditPrograms DEF Current, Write
  <2>2. ASSUME Asks(prog[t]) PROVE k[t] = 3
    <3>1. Len(prog[t]) = 4 /\ prog[t][2].op = "write" /\ prog[t][3].op = "query"
        BY <1>4, <2>2, EditPrograms DEF Query
    <3>2. k[t] # 1 /\ k[t] # 2 BY <1>2, <3>1 DEF Current
    <3> QED BY <1>3, <2>1, <3>1, <3>2
  <2> QED BY <1>3, <2>1, <2>2
<1>6. ASSUME Reserves(prog[t]) PROVE k[t] = 1
  <2>0. \E b \in Batches : prog[t][3] = Reserve(b) BY <1>6, ReservePrograms
  <2>1. Len(prog[t]) = 3 /\ prog[t][1].op = "write" /\ prog[t][3].op = "reserve"
      BY <1>6, <2>0, ReservePrograms DEF Write, Reserve
  <2>2. k[t] # 0 /\ k[t] # 2 BY <1>2, <2>1 DEF Current
  <2> QED BY <1>3, <2>1, <2>2
<1> QED BY <1>2, <1>3, <1>4, <1>5, <1>6

\* No thread edits the graph while another is between its check of a batch
\* and the reservation: both own the topology lock.
LEMMA TopologyExcludes ==
    ASSUME Shape, HoldsItsLocks, NEW t \in Threads, NEW u \in Threads, Reserves(prog[t]), k[t] >= 1,
           Ready(u, "body"), EditsDeps(prog[u]) \/ Asks(prog[u])
    PROVE  FALSE
<1>1. prog[t][1] = Write(Topology) /\ ~EditsDeps(prog[t]) /\ ~Asks(prog[t]) BY ReservePrograms
<1>2. k[u] >= 1 /\ prog[u] # <<>> BY BodyPlace
<1>3. prog[u][1] = Write(Topology) BY <1>2, EditPrograms
<1>4. lockOwner[Topology] = t /\ lockOwner[Topology] = u BY <1>1, <1>2, <1>3, OwnsTopology
<1> QED BY <1>1, <1>4

\* A thread whose step brings it to no place that Guarded speaks of.
Inert(t) ==
    \/ pc'[t] \notin Inside
    \/ /\ prog'[t] = prog[t] /\ k'[t] = k[t]
       /\ pc[t] \in Inside /\ (pc'[t] = "call" => pc[t] = "call")
    \/ /\ pc'[t] = "call"
       /\ ~(Asks(prog'[t]) /\ prog'[t][k'[t] + 1].op = "body")
       /\ ~(Reserves(prog'[t]) /\ k'[t] = 2)

\* A request that is granted, other than a query or a body, leads nowhere
\* near a write of an edge or a reservation.
LEMMA AdvanceInert ==
    ASSUME Shape, NEW t \in Threads, Advance(t), k[t] < Len(prog[t]), Current(t).op \notin {"query", "body"}
    PROVE  Inert(t)
<1>1. Types /\ Frame(t) BY DEF Shape
<1>2. k'[t] = k[t] + 1 /\ prog' = prog /\ pc'[t] = (IF k[t] + 1 = Len(prog[t]) THEN "leave" ELSE "call")
    BY <1>1 DEF Advance, Types
<1>3. k[t] \in Nat /\ prog[t] \in Seq(Request) BY <1>1 DEF Types
<1>4. prog[t] # <<>> BY <1>3
<1>5. ASSUME k[t] + 1 # Len(prog[t]), Asks(prog[t]), prog[t][k[t] + 2].op = "body" PROVE FALSE
  <2>1. /\ Len(prog[t]) = 4 /\ prog[t][2].op = "write" /\ prog[t][3].op = "query"
      BY <1>4, <1>5, EditPrograms DEF Query
  <2>2. k[t] + 2 # 2 /\ k[t] + 2 # 3 BY <1>5, <2>1
  <2>3. k[t] = 2 BY <1>3, <1>5, <2>1, <2>2
  <2> QED BY <2>1, <2>3 DEF Current
<1>6. ASSUME Reserves(prog[t]), k[t] + 1 = 2 PROVE FALSE
  <2>1. prog[t][2].op = "body" BY <1>6, ReservePrograms DEF Body
  <2>2. Current(t) = prog[t][2] BY <1>6 DEF Current
  <2> QED BY <2>1, <2>2
<1>7. k'[t] + 1 = k[t] + 2 BY <1>2, <1>3
<1> QED BY <1>2, <1>5, <1>6, <1>7 DEF Inert, Inside

\* A step without an edge, an answer or a reservation.
LEMMA GuardedFrame ==
    ASSUME Guarded, UNCHANGED <<deps, answer, frontier>>, held' \subseteq held,
           \A u \in Threads : Inert(u)
    PROVE  Guarded'
<1> SUFFICES ASSUME NEW t \in Threads
             PROVE  /\ (Asks(prog[t]) /\ pc[t] = "call" /\ Current(t).op = "body" /\ frontier \in held
                          => frontier \in answer[t])'
                    /\ (Reserves(prog[t]) /\ k[t] = 2 /\ pc[t] \in Inside => Independent(deps, frontier))'
    BY DEF Guarded, Independent, HasDepPath
<1>1. Inert(t) OBVIOUS
<1>2. Independent(deps, frontier)' <=> Independent(deps, frontier) BY DEF Independent, HasDepPath
<1>3. CASE pc'[t] \notin Inside BY <1>3 DEF Inside
<1>4. CASE /\ prog'[t] = prog[t] /\ k'[t] = k[t]
           /\ pc[t] \in Inside /\ (pc'[t] = "call" => pc[t] = "call")
    BY <1>2, <1>4 DEF Guarded, Current, Asks, Reserves
<1>5. CASE /\ pc'[t] = "call"
           /\ ~(Asks(prog'[t]) /\ prog'[t][k'[t] + 1].op = "body")
           /\ ~(Reserves(prog'[t]) /\ k'[t] = 2)
    BY <1>5 DEF Current, Asks, Reserves
<1> QED BY <1>1, <1>3, <1>4, <1>5 DEF Inert

\* What a step of one thread leaves as it is for the others.
LEMMA OthersInert ==
    ASSUME NEW t \in Threads, NEW u \in Threads, u # t,
           prog'[u] = prog[u], k'[u] = k[u], pc'[u] = pc[u]
    PROVE  Inert(u)
BY DEF Inert

\* The steps of the component itself.
LEMMA ProtocolGuarded ==
    ASSUME Settled, HoldsItsLocks, Guarded, NEW t \in Threads, Protocol(t), UNCHANGED <<deps, answer>>
    PROVE  Guarded'
<1> USE DEF locking, tables, maint, thread
<1>a. Shape /\ Types /\ Frame(t) BY DEF Settled, Shape
<1>w. pc \in [Threads -> Pcs] /\ prog \in [Threads -> Seq(Request)] /\ k \in [Threads -> Nat] BY <1>a DEF Types
<1>o. ASSUME NEW u \in Threads, u # t PROVE prog'[u] = prog[u] /\ k'[u] = k[u] /\ pc'[u] = pc[u]
    BY <1>o, <1>w DEF Protocol, ReadFrontier, RecoveryRequired, Rehydrate, Acquire, Admit, RefuseTransaction,
                NestMaintenance, GrantMaintenance, RefuseMaintenance, ReserveExisting, ReserveNew,
                RefuseReservation, EndTransaction, Unlock, ExitMaintenance, SkipCall, Finish, Advance, Raise, Pop
<1>i. \A u \in Threads : u # t => Inert(u) BY <1>o, OthersInert
<1>1. ASSUME ~ReserveExisting(t), ~ReserveNew(t) PROVE held' = held /\ frontier' = frontier
    BY <1>1 DEF Protocol, ReadFrontier, RecoveryRequired, Rehydrate, Acquire, Admit, RefuseTransaction,
                NestMaintenance, GrantMaintenance, RefuseMaintenance, RefuseReservation, EndTransaction,
                Unlock, ExitMaintenance, SkipCall, Finish
<1>2. ASSUME ~ReserveExisting(t), ~ReserveNew(t) PROVE Inert(t)
  <2>1. CASE ReadFrontier(t) BY <2>1, <1>w DEF ReadFrontier, Inert, Inside
  <2>2. CASE Rehydrate(t) BY <2>2, <1>w DEF Rehydrate, Inert, Inside
  <2>3. CASE RecoveryRequired(t) \/ RefuseTransaction(t) \/ RefuseMaintenance(t) \/ RefuseReservation(t)
      BY <2>3, <1>w DEF RecoveryRequired, RefuseTransaction, RefuseMaintenance, RefuseReservation, Raise, Inert, Inside
  <2>4. CASE Acquire(t) \/ EndTransaction(t) BY <2>4, <1>w DEF Acquire, EndTransaction, Inert, Inside
  <2>5. CASE Unlock(t) \/ ExitMaintenance(t) \/ SkipCall(t)
      BY <2>5, <1>w DEF Unlock, ExitMaintenance, SkipCall, Pop, Inert, Inside
  <2>6. CASE Finish(t) BY <2>6, <1>w DEF Finish, Inert, Inside
  <2>7. CASE Admit(t)
    <3>1. Advance(t) /\ k[t] < Len(prog[t]) /\ Current(t).op = "write" BY <2>7, <1>a DEF Admit, Frame
    <3> QED BY <3>1, <1>a, AdvanceInert
  <2>8. CASE NestMaintenance(t) \/ GrantMaintenance(t)
    <3>1. Advance(t) /\ Ready(t, "maintain") BY <2>8 DEF NestMaintenance, GrantMaintenance
    <3>2. k[t] < Len(prog[t]) /\ Current(t).op = "maintain" BY <3>1, <1>a DEF Ready, Frame
    <3> QED BY <3>1, <3>2, <1>a, AdvanceInert
  <2> QED BY <1>2, <2>1, <2>2, <2>3, <2>4, <2>5, <2>6, <2>7, <2>8 DEF Protocol
<1>3. CASE ~ReserveExisting(t) /\ ~ReserveNew(t) BY <1>1, <1>2, <1>3, <1>i, GuardedFrame
<1>4. CASE ReserveExisting(t) \/ ReserveNew(t)
  <2>1. /\ Advance(t) /\ Ready(t, "reserve") /\ held' = held \cup {Current(t).batch} /\ frontier' = frontier
      BY <1>4 DEF ReserveExisting, ReserveNew
  <2>2. pc[t] = "act" /\ Current(t).op = "reserve" /\ k[t] < Len(prog[t])
      BY <2>1, <1>a DEF Ready, Rehydrates, Frame
  <2>3. k[t] \in Nat /\ Len(prog[t]) \in Nat BY <1>w
  <2>4. Reserves(prog[t]) BY <2>2, <2>3, <1>w DEF Reserves, Current
  <2>5. Len(prog[t]) = 3 /\ prog[t][1].op = "write" /\ prog[t][2].op = "body"
      BY <2>4, <1>a, ReservePrograms DEF Write, Body
  <2>6. k[t] # 0 /\ k[t] # 1 BY <2>2, <2>5 DEF Current
  <2>7. k[t] = 2 BY <2>2, <2>3, <2>5, <2>6
  <2>8. Independent(deps, frontier) BY <2>2, <2>4, <2>7 DEF Guarded, Inside
  <2>9. ~Asks(prog[t]) /\ pc'[t] = "leave" BY <2>1, <2>4, <2>5, <2>7, <1>a, <1>w, ReservePrograms DEF Advance
  <2>10. ASSUME NEW u \in Threads, u # t, Asks(prog[u]), pc[u] = "call", Current(u).op = "body" PROVE FALSE
    <3>1. Ready(u, "body") BY <2>10 DEF Ready, Rehydrates
    <3> QED BY <3>1, <2>4, <2>7, <2>10, <1>a, TopologyExcludes
  <2>11. Independent(deps, frontier)' BY <2>1, <2>8 DEF Independent, HasDepPath
  <2>12. \A u \in Threads : u # t => prog'[u] = prog[u] /\ k'[u] = k[u] /\ pc'[u] = pc[u] BY <1>o
  <2>13. answer' \in [Threads -> SUBSET Batches] BY DEF Guarded
  <2>14. ASSUME NEW u \in Threads
         PROVE  ~(Asks(prog[u]) /\ pc[u] = "call" /\ Current(u).op = "body")'
    <3>1. CASE u = t BY <2>9, <3>1
    <3>2. CASE u # t BY <2>10, <2>12, <3>2 DEF Asks, Current
    <3> QED BY <3>1, <3>2
  <2> QED BY <2>11, <2>13, <2>14 DEF Guarded
<1> QED BY <1>3, <1>4

\* The question, the edits and the check that the callers make.
CallersStep(t) == \/ LearnBatches(t)
                  \/ \E m, n \in Nodes : AddEdge(t, m, n)
                  \/ \E n \in Nodes : RemoveEdge(t, n)
                  \/ \E b \in Batches : CheckIndependent(t, b)
                  \/ OtherBody(t)

LEMMA BodyGuarded ==
    ASSUME Settled, HoldsItsLocks, Guarded, NEW t \in Threads, CallersStep(t)
    PROVE  Guarded'
<1> USE DEF locking, tables, maint, thread
<1>a. Shape /\ Types /\ Frame(t) /\ Calm BY DEF Settled, Shape
<1>w. pc \in [Threads -> Pcs] /\ prog \in [Threads -> Seq(Request)] /\ k \in [Threads -> Nat] BY <1>a DEF Types
<1>o. /\ prog' = prog /\ held' = held /\ frontier' = frontier
      /\ \A u \in Threads : u # t => k'[u] = k[u] /\ pc'[u] = pc[u]
    BY <1>w DEF CallersStep, LearnBatches, AddEdge, RemoveEdge, CheckIndependent, OtherBody, ActiveBatches,
                BodyReturns, BodyRaises, Advance, Raise
<1>f. ASSUME NEW e, NEW f, e = f PROVE Independent(e, frontier)' <=> Independent(f, frontier)
    BY <1>f, <1>o DEF Independent, HasDepPath
<1>i. \A u \in Threads : u # t => Inert(u) BY <1>o, OthersInert
<1>r. ASSUME BodyReturns(t) \/ BodyRaises(t)
      PROVE  /\ Ready(t, "body") /\ pc[t] = "call"
             /\ pc'[t] = "leave" \/ (k'[t] = k[t] + 1 /\ pc'[t] = "call" /\ k'[t] < Len(prog[t]))
    BY <1>r, <1>w, <1>a DEF BodyReturns, BodyRaises, Advance, Raise, Ready, Rehydrates, Frame
<1>n. ASSUME BodyReturns(t) \/ BodyRaises(t), ~Reserves(prog[t]) PROVE Inert(t)
  <2>1. ASSUME Asks(prog[t]) PROVE k[t] = 3 /\ Len(prog[t]) = 4
      BY <1>n, <1>r, <1>a, <2>1, BodyPlace, EditPrograms
  <2> QED BY <1>n, <1>r, <1>o, <2>1 DEF Inert, Inside
<1>x. ASSUME BodyReturns(t) \/ BodyRaises(t), EditsDeps(prog[t]) \/ Asks(prog[t]), NEW u \in Threads
      PROVE  ~(Reserves(prog[u]) /\ k[u] = 2)
  <2>1. Ready(t, "body") BY <1>x, <1>r
  <2> QED BY <1>x, <2>1, <1>a, TopologyExcludes
<1>1. CASE LearnBatches(t)
  <2>1. /\ answer' = [answer EXCEPT ![t] = batches] /\ deps' = deps /\ Advance(t)
        /\ Current(t).op = "query" /\ pc[t] \in {"call", "act"}
      BY <1>1 DEF LearnBatches, ActiveBatches, Ready
  <2>2. k[t] < Len(prog[t]) /\ k[t] \in Nat BY <2>1, <1>a DEF Frame, Types
  <2>3. Asks(prog[t]) BY <2>1, <2>2, <1>w DEF Asks, Current
  <2>4. prog[t] # <<>> BY <2>2, <1>w
  <2>5. ~Reserves(prog[t]) BY <2>3, <2>4, <1>a, EditPrograms
  <2>6. answer' \in [Threads -> SUBSET Batches] /\ answer'[t] = batches
        /\ \A u \in Threads : u # t => answer'[u] = answer[u]
      BY <2>1, <1>a DEF Guarded, Types
  <2>7. Independent(deps, frontier)' <=> Independent(deps, frontier) BY <2>1, <1>f
  <2>8. frontier \in held => frontier \in batches BY <1>a DEF Calm
  <2> QED BY <1>o, <2>5, <2>6, <2>7, <2>8 DEF Guarded, Current, Asks, Reserves
<1>2. ASSUME NEW m \in Nodes, NEW n \in Nodes, AddEdge(t, m, n) PROVE Guarded'
  <2> DEFINE candidate == deps \cup {<<m, n>>}
  <2>1. /\ pc[t] = "call" /\ Asks(prog[t]) /\ answer' = answer
        /\ \/ /\ \A b \in answer[t] : Independent(candidate, b)
              /\ BodyReturns(t) /\ deps' = candidate
           \/ BodyRaises(t) /\ deps' = deps
      BY <1>2 DEF AddEdge
  <2>2. ~Reserves(prog[t]) /\ Current(t).op = "body"
    <3>1. Ready(t, "body") BY <2>1, <1>r
    <3> QED BY <3>1, <2>1, <1>a, BodyPlace, EditPrograms
  <2>3. Inert(t) BY <2>1, <2>2, <1>n
  <2>4. CASE BodyRaises(t) /\ deps' = deps BY <2>1, <2>3, <2>4, <1>i, <1>o, GuardedFrame
  <2>5. CASE (\A b \in answer[t] : Independent(candidate, b)) /\ BodyReturns(t) /\ deps' = candidate
    <3>1. frontier \in held => Independent(candidate, frontier) BY <2>1, <2>2, <2>5 DEF Guarded
    <3>2. Independent(deps, frontier)' <=> Independent(candidate, frontier) BY <2>5, <1>f
    <3>3. \A u \in Threads : ~(Reserves(prog[u]) /\ k[u] = 2) BY <2>1, <2>5, <1>x
    <3>4. k[t] = 3 /\ Len(prog[t]) = 4
        BY <2>1, <2>5, <1>r, <1>a, BodyPlace, EditPrograms
    <3>5. pc'[t] = "leave" BY <2>5, <1>r, <3>4
    <3>6. answer' \in [Threads -> SUBSET Batches] BY <2>1 DEF Guarded
    <3>7. ASSUME NEW u \in Threads
          PROVE  /\ (Asks(prog[u]) /\ pc[u] = "call" /\ Current(u).op = "body" /\ frontier \in held
                        => frontier \in answer[u])'
                 /\ ~(Reserves(prog[u]) /\ k[u] = 2 /\ pc[u] \in Inside)'
      <4>1. CASE u = t BY <3>5, <4>1 DEF Inside
      <4>2. CASE u # t BY <1>o, <2>1, <3>3, <4>2 DEF Guarded, Asks, Reserves, Current, Inside
      <4> QED BY <4>1, <4>2
    <3> QED BY <1>o, <3>1, <3>2, <3>6, <3>7 DEF Guarded
  <2> QED BY <2>1, <2>4, <2>5
<1>3. ASSUME NEW n \in Nodes, RemoveEdge(t, n) PROVE Guarded'
  <2>1. EditsDeps(prog[t]) /\ answer' = answer /\ (BodyReturns(t) \/ BodyRaises(t)) /\ deps' \subseteq deps
      BY <1>3 DEF RemoveEdge
  <2>2. ~Reserves(prog[t]) BY <2>1 DEF EditsDeps
  <2>3. Inert(t) BY <2>1, <2>2, <1>n
  <2>4. Independent(deps, frontier) => Independent(deps', frontier) BY <2>1, IndependentAntitone
  <2>5. Independent(deps, frontier)' <=> Independent(deps', frontier) BY <1>o DEF Independent, HasDepPath
  <2>6. \A u \in Threads : ~(Reserves(prog[u]) /\ k[u] = 2) BY <2>1, <1>x
  <2>7. ASSUME NEW u \in Threads, u # t
        PROVE  /\ (Asks(prog[u]) /\ pc[u] = "call" /\ Current(u).op = "body" /\ frontier \in held
                      => frontier \in answer[u])'
               /\ ~(Reserves(prog[u]) /\ k[u] = 2 /\ pc[u] \in Inside)'
      BY <1>o, <2>1, <2>6, <2>7 DEF Guarded, Asks, Reserves, Current, Inside
  <2>8. /\ (Asks(prog[t]) /\ pc[t] = "call" /\ Current(t).op = "body" /\ frontier \in held
                => frontier \in answer[t])'
        /\ ~(Reserves(prog[t]) /\ k[t] = 2 /\ pc[t] \in Inside)'
    <3>1. ~Reserves(prog'[t]) BY <1>o, <2>2
    <3>2. ASSUME Asks(prog[t]), pc'[t] = "call" PROVE FALSE
      <4>1. k[t] = 3 /\ Len(prog[t]) = 4 BY <2>1, <3>2, <1>r, <1>a, BodyPlace, EditPrograms
      <4> QED BY <2>1, <3>2, <4>1, <1>r
    <3> QED BY <1>o, <3>1, <3>2
  <2> QED BY <1>o, <2>1, <2>4, <2>5, <2>7, <2>8 DEF Guarded
<1>4. ASSUME NEW b \in Batches, CheckIndependent(t, b) PROVE Guarded'
  <2>1. /\ Reserves(prog[t]) /\ deps' = deps /\ answer' = answer
        /\ b \in {prog[t][i].batch : i \in DOMAIN prog[t]}
        /\ (Independent(deps, b) /\ BodyReturns(t)) \/ BodyRaises(t)
      BY <1>4 DEF CheckIndependent
  <2>2. b = frontier
    <3>1. PICK c \in Batches : prog[t][3] = Reserve(c) BY <2>1, <1>a, ReservePrograms
    <3>2. /\ Len(prog[t]) = 3 /\ prog[t][1].batch = NoBatch /\ prog[t][2].batch = NoBatch
        BY <2>1, <1>a, ReservePrograms DEF Write, Body
    <3>3. PICK i \in DOMAIN prog[t] : b = prog[t][i].batch BY <2>1
    <3>4. DOMAIN prog[t] = 1..3 BY <3>2, <1>w
    <3>5. i = 3 BY <3>2, <3>3, <3>4, BatchAssumption
    <3> QED BY <3>1, <3>3, <3>5, <1>a DEF Calm, Reserve
  <2>3. ~Asks(prog[t]) BY <2>1, <1>a, ReservePrograms
  <2>4. Independent(deps, frontier)' <=> Independent(deps, frontier) BY <2>1, <1>f
  <2>5. pc'[t] \in Inside => Independent(deps, frontier)
    <3>1. CASE BodyRaises(t) BY <3>1, <1>w DEF BodyRaises, Raise, Inside
    <3> QED BY <2>1, <2>2, <3>1
  <2>6. ASSUME NEW u \in Threads, u # t
        PROVE  /\ (Asks(prog[u]) /\ pc[u] = "call" /\ Current(u).op = "body" /\ frontier \in held
                      => frontier \in answer[u])'
               /\ (Reserves(prog[u]) /\ k[u] = 2 /\ pc[u] \in Inside => Independent(deps, frontier))'
      BY <1>o, <2>1, <2>4, <2>6 DEF Guarded, Asks, Reserves, Current, Inside
  <2>7. ~Asks(prog[t])' BY <1>o, <2>3
  <2> QED BY <1>o, <2>1, <2>4, <2>5, <2>6, <2>7 DEF Guarded
<1>5. CASE OtherBody(t)
  <2>1. /\ ~EditsDeps(prog[t]) /\ ~Reserves(prog[t]) /\ (BodyReturns(t) \/ BodyRaises(t))
        /\ UNCHANGED <<deps, answer>>
      BY <1>5 DEF OtherBody
  <2>2. Inert(t) BY <2>1, <1>n
  <2> QED BY <2>1, <2>2, <1>i, <1>o, GuardedFrame
<1> QED BY <1>1, <1>2, <1>3, <1>4, <1>5 DEF CallersStep

\* Every step of BatchTopology.
LEMMA NextGuarded ==
    Settled /\ HoldsItsLocks /\ Guarded /\ [TopologyNext /\ Quiet]_topologyVars => Guarded'
<1> SUFFICES ASSUME Settled, HoldsItsLocks, Guarded, [TopologyNext /\ Quiet]_topologyVars PROVE Guarded'
    OBVIOUS
<1> USE DEF locking, tables, maint, thread
<1>a. Shape /\ Types /\ Calm BY DEF Settled, Shape
<1>w. pc \in [Threads -> Pcs] /\ prog \in [Threads -> Seq(Request)] /\ k \in [Threads -> Nat] BY <1>a DEF Types
<1>1. ASSUME NEW t \in Threads, TopologyStep(t) PROVE Guarded'
    BY <1>1, ProtocolGuarded, BodyGuarded DEF TopologyStep, CallersStep
<1>2. ASSUME NEW t \in Threads, NEW p \in Programs, Start(t, p), UNCHANGED <<deps, answer>> PROVE Guarded'
  <2>1. /\ \A u \in Threads : u # t => prog'[u] = prog[u] /\ k'[u] = k[u] /\ pc'[u] = pc[u]
        /\ prog'[t] = p /\ k'[t] = k[t] /\ pc'[t] = "call" /\ pc[t] = "idle" /\ p # <<>>
        /\ held' = held /\ frontier' = frontier
      BY <1>2, <1>w DEF Start
  <2>2. k[t] = 0 BY <1>a, <2>1 DEF Shape, Frame
  <2>3. Asks(p) => p[1].op = "write"
    <3>1. ASSUME Asks(p) PROVE EditsDeps(p) BY <3>1, <2>1, TopologyPrograms
    <3> QED BY <3>1 DEF EditsDeps, Write
  <2>4. Inert(t) BY <2>1, <2>2, <2>3 DEF Inert
  <2> QED BY <1>2, <2>1, <2>4, OthersInert, GuardedFrame
<1>3. ASSUME Environment, Quiet, UNCHANGED <<deps, answer>> PROVE Guarded'
  <2>1. CASE Restart BY <1>3, <2>1, <1>w DEF Restart, Guarded, Inside
  <2>2. ASSUME UNCHANGED thread, held' \subseteq held, frontier' = frontier PROVE Guarded'
    <3>1. \A u \in Threads : Inert(u) BY <2>2 DEF Inert
    <3> QED BY <1>3, <2>2, <3>1, GuardedFrame
  <2>3. ASSUME NEW b \in Batches, ReleaseContentBatch(b) PROVE Guarded'
      BY <2>2, <2>3 DEF ReleaseContentBatch
  <2>4. ASSUME ReleaseAllContentBatches PROVE Guarded' BY <2>2, <2>4 DEF ReleaseAllContentBatches
  <2>5. ASSUME NEW b \in Batches \cup {NoBatch}, CommitFrontier(b) PROVE Guarded'
    <3>1. frontier' = b /\ b \notin held /\ held' = held /\ UNCHANGED thread BY <2>5 DEF CommitFrontier
    <3>2. ~Deciding BY <1>3, <3>1 DEF Quiet
    <3>3. \A u \in Threads : ~Reserves(prog'[u]) BY <3>1, <3>2 DEF Deciding, Reserves
    <3> QED BY <1>3, <3>1, <3>3 DEF Guarded
  <2> QED BY <1>3, <2>1, <2>3, <2>4, <2>5 DEF Environment
<1>4. CASE UNCHANGED topologyVars
  <2>1. UNCHANGED <<prog, k, pc, held, frontier, deps, answer>> BY <1>4 DEF topologyVars, vars
  <2>2. \A u \in Threads : Inert(u) BY <2>1 DEF Inert
  <2> QED BY <2>1, <2>2, GuardedFrame
<1> QED BY <1>1, <1>2, <1>3, <1>4 DEF TopologyNext

\* The members of a batch that is reserved and pending stay independent,
\* whatever edits race its reservation: the topology lock is held from the
\* check to the reservation, and from the question to the edge.
THEOREM ReservedBatchesStayIndependent == TopologySpec => []ReservedBatchIndependent
<1>1. TopologyInit => Settled /\ Guarded
  <2>1. TopologyInit => Init BY DEF TopologyInit
  <2>2. TopologyInit => Guarded BY DEF TopologyInit, Init, Guarded, Inside
  <2> QED BY <2>1, <2>2, InitSettled
<1>2. Settled => HoldsItsLocks BY HoldingFrames DEF Settled
<1>3. Settled /\ Guarded /\ [TopologyNext /\ Quiet]_topologyVars => (Settled /\ Guarded)'
    BY <1>2, NextSettled, NextGuarded, TopologyIsActivity
<1>4. Settled /\ Guarded => ReservedBatchIndependent BY DEF Guarded, ReservedBatchIndependent
<1> QED BY <1>1, <1>3, <1>4, PTL DEF TopologySpec
=============================================================================

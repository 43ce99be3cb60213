----------------------- MODULE InstallPipelineProofs -----------------------
(***************************************************************************)
(* Proofs about InstallPipeline, for every value of the constants: its     *)
(* type invariant; that a marked version is complete and nothing changes   *)
(* beneath it; that objects are whole; that a reinstall repairs.           *)
(***************************************************************************)
EXTENDS InstallPipeline, TLAPS

USE ConstantsAssumption DEF history

\* A file system with a free inode hands out one of its inodes.
LEMMA FreshIsInode == ASSUME Free # {} PROVE Fresh \in Inode
  BY DEF Free, Fresh

\* The fields of an operation record, and the updates the actions make to it.
LEMMA FieldTyped ==
  ASSUME NEW r \in OpType
  PROVE  /\ r.ver \in Version \cup {None} /\ r.file \in Hash \cup {None}
         /\ \A S \in SUBSET (Hash \cup Metadata) : [r EXCEPT !.todo = S] \in OpType
         /\ \A e : [r EXCEPT !.todo = @ \ {e}] \in OpType
         /\ \A h \in Hash : [r EXCEPT !.file = h, !.todo = @ \ {h}] \in OpType
         /\ [r EXCEPT !.file = None] \in OpType
         /\ r.urls > 0 => [r EXCEPT !.urls = @ - 1] \in OpType
         /\ \A v, L : L \in SUBSET Hash =>
              [r EXCEPT !.unmarked = @ \ {v}, !.live = L] \in OpType
         /\ r.live \in SUBSET Hash
         /\ [r EXCEPT !.edited = TRUE] \in OpType
         /\ [r EXCEPT !.urls = 0, !.offline = FALSE] \in OpType
  <1>1. r.ver \in Version \cup {None} /\ r.file \in Hash \cup {None} /\ r.live \in SUBSET Hash
    BY DEF OpType
  <1>2. /\ \A S \in SUBSET (Hash \cup Metadata) : [r EXCEPT !.todo = S] \in OpType
        /\ \A e : [r EXCEPT !.todo = @ \ {e}] \in OpType
    BY DEF OpType
  <1>3. /\ \A h \in Hash : [r EXCEPT !.file = h, !.todo = @ \ {h}] \in OpType
        /\ [r EXCEPT !.file = None] \in OpType
    BY DEF OpType
  <1>4. r.urls > 0 => [r EXCEPT !.urls = @ - 1] \in OpType
    BY DEF OpType
  <1>5. \A v, L : L \in SUBSET Hash => [r EXCEPT !.unmarked = @ \ {v}, !.live = L] \in OpType
    BY DEF OpType
  <1>6. [r EXCEPT !.edited = TRUE] \in OpType
    BY DEF OpType
  <1>7. [r EXCEPT !.urls = 0, !.offline = FALSE] \in OpType
    <2>1. 0 \in 0..MaxUrls
      BY ConstantsAssumption
    <2> QED
      BY <2>1 DEF OpType
  <1> QED
    BY <1>1, <1>2, <1>3, <1>4, <1>5, <1>6, <1>7

\* The records that operations begin with.
LEMMA BeginTyped ==
  ASSUME TypeOK
  PROVE  /\ Idle \in OpType /\ NewCollection \in OpType
         /\ \A v \in Version : NewRemoval(v) \in OpType
         /\ \A v \in Version, m \in Modes, off \in BOOLEAN : NewInstall(v, m, off) \in OpType
  <1>1. Idle \in OpType
    BY DEF Idle, OpType
  <1>2. ASSUME NEW r \in OpType PROVE [r EXCEPT !.unmarked = Version] \in OpType
    BY DEF OpType
  <1>3. ASSUME NEW r \in OpType, NEW v \in Version
        PROVE  [r EXCEPT !.ver = v, !.todo = Tree[v] \cup Metadata] \in OpType
    BY DEF OpType
  <1>4. ASSUME NEW r \in OpType, NEW v \in Version, NEW m \in Modes,
               NEW forced \in BOOLEAN, NEW off \in BOOLEAN
        PROVE  [r EXCEPT !.ver = v, !.mode = m, !.forced = forced, !.offline = off,
                         !.urls = MaxUrls, !.todo = Tree[v]] \in OpType
    <2>1. Tree[v] \in SUBSET (Hash \cup Metadata) /\ MaxUrls \in 0..MaxUrls
      OBVIOUS
    <2> QED
      BY <2>1, Zenon DEF OpType
  <1>5. \A v \in Version : marker[v] \in BOOLEAN
    BY DEF TypeOK
  <1> QED
    BY <1>1, <1>2, <1>3, <1>4, <1>5 DEF NewCollection, NewRemoval, NewInstall

\* A process that begins keeps its pc and its record typed.
LEMMA BeginStepTyped ==
  ASSUME TypeOK, NEW p \in Process, NEW s \in Steps, NEW r \in OpType, Begin(p, s, r)
  PROVE  pc' \in [Process -> Steps] /\ op' \in [Process -> OpType] /\ ops' \in Nat
  BY DEF TypeOK, Begin

\* Replacing one installed tree keeps them all typed.
LEMMA TreeTyped ==
  ASSUME TypeOK, NEW v, NEW t, v \in Version => t \in [Hash -> Inode \cup {Link, None}]
  PROVE  [tree EXCEPT ![v] = t] \in [Version -> [Hash -> Inode \cup {Link, None}]]
  BY DEF TypeOK

\* What every process update of pc and op keeps typed.
LEMMA ReturnTyped ==
  ASSUME TypeOK, NEW p \in Process, Return(p)
  PROVE  /\ pc' \in [Process -> Steps]
         /\ op' \in [Process -> OpType]
         /\ lock' \in [Version -> Process \cup {None}]
  BY BeginTyped DEF TypeOK, Return, Steps

\* Each action of the system keeps the type invariant.
LEMMA TypeStep == TypeOK /\ [Next]_vars => TypeOK'
  <1> SUFFICES ASSUME TypeOK, [Next]_vars PROVE TypeOK'
    OBVIOUS
  <1> USE DEF TypeOK, Goto, Steps, InstallSteps, Placing, Renewing, disk, copies, bounds
  <1>1. CASE UNCHANGED vars
    BY <1>1 DEF vars
  <1>2. ASSUME NEW p \in Process, NEW v \in Version, BeginInstall(p, v) PROVE TypeOK'
    <2>1. marker[v] \in BOOLEAN
      OBVIOUS
    <2>2. op' \in [Process -> OpType]
      BY <1>2, <2>1, BeginTyped DEF BeginInstall, Begin
    <2> QED
      BY <1>2, <2>2 DEF BeginInstall, Begin
  <1>3. ASSUME NEW p \in Process, InstallStep(p) PROVE TypeOK'
    <2>1. CASE ClearMarker(p)
      BY <2>1 DEF ClearMarker
    <2>2. CASE AcquireLock(p)
      BY <2>2 DEF AcquireLock
    <2>3. CASE AlreadyComplete(p)
      <3>1. CASE Return(p)
        BY <2>3, <3>1, ReturnTyped DEF AlreadyComplete
      <3>2. CASE Goto(p, "check", "evidence") /\ UNCHANGED <<lock, op>>
        BY <2>3, <3>2 DEF AlreadyComplete
      <3> QED
        BY <2>3, <3>1, <3>2 DEF AlreadyComplete
    <2>22. CASE ReadReceipt(p)
      BY <2>22 DEF ReadReceipt
    <2>23. CASE KeepReceipt(p)
      BY <2>23, ReturnTyped DEF KeepReceipt
    <2>4. CASE CleanResidue(p)
      <3> DEFINE v == op[p].ver
      <3>1. tree' \in [Version -> [Hash -> Inode \cup {Link, None}]]
        <4>1. PICK kept \in SUBSET Hash :
                tree' = [tree EXCEPT ![v] = [h \in Hash |-> IF h \in kept THEN tree[v][h] ELSE None]]
          BY <2>4 DEF CleanResidue
        <4>2. v \in Version => [h \in Hash |-> IF h \in kept THEN tree[v][h] ELSE None]
                                 \in [Hash -> Inode \cup {Link, None}]
          OBVIOUS
        <4> QED
          BY <4>1, <4>2, TreeTyped
      <3>2. receipt' \in [Version -> {"none", "torn", "ok"}]
        <4>1. PICK r \in {"none", receipt[v]} : receipt' = [receipt EXCEPT ![v] = r]
          BY <2>4 DEF CleanResidue
        <4>2. v \in Version => receipt[v] \in {"none", "torn", "ok"}
          OBVIOUS
        <4>3. v \in Version => r \in {"none", "torn", "ok"}
          BY <4>1, <4>2, Zenon
        <4> HIDE DEF v
        <4> QED
          BY <4>1, <4>3
      <3>3. manifest' \in [Version -> {"none", "torn", "ok"}]
        <4>1. PICK m \in {"none", manifest[v]} : manifest' = [manifest EXCEPT ![v] = m]
          BY <2>4 DEF CleanResidue
        <4>2. v \in Version => manifest[v] \in {"none", "torn", "ok"}
          OBVIOUS
        <4>3. v \in Version => m \in {"none", "torn", "ok"}
          BY <4>1, <4>2, Zenon
        <4> HIDE DEF v
        <4> QED
          BY <4>1, <4>3
      <3> QED
        BY <2>4, <3>1, <3>2, <3>3 DEF CleanResidue
    <2>5. CASE UseCached(p)
      BY <2>5 DEF UseCached
    <2>6. CASE Download(p)
      <3>1. op' \in [Process -> OpType]
        BY <2>6, FieldTyped DEF Download
      <3>2. pc' \in [Process -> Steps]
        BY <2>6 DEF Download
      <3>3. archive' \in [Version -> {"none", "good", "bad"}]
        <4>1. CASE UNCHANGED archive
          BY <4>1
        <4>2. ASSUME NEW c \in {"good", "bad"}, archive' = [archive EXCEPT ![op[p].ver] = c]
              PROVE  archive' \in [Version -> {"none", "good", "bad"}]
          <5>1. c \in {"none", "good", "bad"} /\ archive \in [Version -> {"none", "good", "bad"}]
            BY <4>2
          <5> HIDE DEF TypeOK
          <5> QED
            BY <4>2, <5>1
        <4> QED
          BY <2>6, <4>1, <4>2 DEF Download
      <3> QED
        BY <2>6, <3>1, <3>2, <3>3 DEF Download
    <2>7. CASE Accept(p)
      <3>1. op' \in [Process -> OpType]
        BY <2>7, FieldTyped DEF Accept
      <3>2. pc' \in [Process -> Steps]
        BY <2>7 DEF Accept
      <3> QED
        BY <2>7, <3>1, <3>2 DEF Accept
    <2>8. CASE Reject(p)
      BY <2>8 DEF Reject
    <2>9. CASE GiveUp(p)
      BY <2>9, ReturnTyped DEF GiveUp
    <2>10. ASSUME NEW h \in Hash, Ingest(p, h) PROVE TypeOK'
      <3>1. op' \in [Process -> OpType]
        BY <2>10, FieldTyped DEF Ingest
      <3> QED
        BY <2>10, <3>1 DEF Ingest
    <2>24. CASE ReuseObject(p)
      BY <2>24 DEF ReuseObject
    <2>25. CASE RejectObject(p)
      BY <2>25 DEF RejectObject
    <2>26. CASE HashFails(p)
      BY <2>26, ReturnTyped DEF HashFails
    <2>27. CASE DropObject(p)
      <3>1. PICK left \in {None, object[op[p].file]} :
              object' = [object EXCEPT ![op[p].file] = left]
        BY <2>27 DEF DropObject
      <3>2. op[p].file \in Hash => left \in Inode \cup {None}
        BY <3>1
      <3>3. object' \in [Hash -> Inode \cup {None}]
        BY <3>1, <3>2
      <3> QED
        BY <2>27, <3>3 DEF DropObject
    <2>17. CASE Store(p)
      <3>1. object' \in [Hash -> Inode \cup {None}] /\ bad' \in SUBSET Inode
        BY <2>17, FreshIsInode DEF Store
      <3> QED
        BY <2>17, <3>1 DEF Store
    <2>18. CASE CopyTemp(p)
      <3>1. PICK i \in Inode :
              /\ temp' = [temp EXCEPT ![op[p].file] = i] /\ bad' = bad \cup {i}
              /\ writing' = [q \in Process |-> IF q = p THEN i
                                             ELSE IF writing[q] = i THEN None ELSE writing[q]]
        BY <2>18 DEF CopyTemp
      <3>2. temp' \in [Hash -> Inode \cup {None}] /\ bad' \in SUBSET Inode
        BY <3>1
      <3>3. writing' \in [Process -> Inode \cup {None}]
        BY <3>1
      <3>4. shared' \in SUBSET Hash
        BY <2>18 DEF CopyTemp
      <3> QED
        BY <2>18, <3>2, <3>3, <3>4 DEF CopyTemp
    <2>19. CASE EndCopy(p)
      BY <2>19 DEF EndCopy
    <2>20. CASE PublishObject(p)
      BY <2>20 DEF PublishObject
    <2>21. CASE DiscardTemp(p)
      BY <2>21 DEF DiscardTemp
    <2>11. CASE Materialize(p)
      <3>1. op' \in [Process -> OpType]
        BY <2>11, FieldTyped DEF Materialize
      <3>2. op[p].file \in Hash \cup {None} /\ op[p].ver \in Version \cup {None}
        BY FieldTyped
      <3>3. tree' \in [Version -> [Hash -> Inode \cup {Link, None}]]
        <4> DEFINE v == op[p].ver  h == op[p].file
        <4>1. PICK i \in {Link, Fresh, object[h]} :
                /\ tree' = [tree EXCEPT ![v][h] = i]
                /\ i = Fresh => Free # {} \/ i \in {Link, object[h]}
          BY <2>11 DEF Materialize
        <4>2. v \in Version => [tree[v] EXCEPT ![h] = i] \in [Hash -> Inode \cup {Link, None}]
          <5>1. h \in Hash => object[h] \in Inode \cup {None}
            OBVIOUS
          <5>2. h \in Hash => i \in Inode \cup {Link, None}
            BY <4>1, <5>1, FreshIsInode
          <5>3. v \in Version => tree[v] \in [Hash -> Inode \cup {Link, None}]
            OBVIOUS
          <5> HIDE DEF h, v
          <5> QED
            BY <5>2, <5>3
        <4>3. tree' = [tree EXCEPT ![v] = [tree[v] EXCEPT ![h] = i]]
          BY <4>1
        <4> QED
          BY <4>2, <4>3, TreeTyped
      <3>4. bad' \in SUBSET Inode
        BY <2>11, FreshIsInode DEF Materialize
      <3> QED
        BY <2>11, <3>1, <3>3, <3>4 DEF Materialize
    <2>12. CASE ObjectVanished(p)
      <3>1. tree' \in [Version -> [Hash -> Inode \cup {Link, None}]]
        BY <2>12 DEF ObjectVanished
      <3> QED
        BY <2>12, <3>1, ReturnTyped DEF ObjectVanished
    <2>13. CASE TruncateManifest(p)
      BY <2>13 DEF TruncateManifest
    <2>14. CASE WriteManifest(p)
      BY <2>14 DEF WriteManifest, Filled
    <2>28. CASE TruncateReceipt(p)
      BY <2>28 DEF TruncateReceipt
    <2>15. CASE WriteReceipt(p)
      <3>1. receipt' \in [Version -> {"none", "torn", "ok"}]
        BY <2>15 DEF WriteReceipt, Filled
      <3>2. CASE Return(p)
        BY <2>15, <3>1, <3>2, ReturnTyped DEF WriteReceipt
      <3>3. CASE Goto(p, "describe", "commit") /\ UNCHANGED <<lock, op>>
        BY <2>15, <3>1, <3>3 DEF WriteReceipt
      <3> QED
        BY <2>15, <3>2, <3>3 DEF WriteReceipt
    <2>16. CASE Commit(p)
      BY <2>16, ReturnTyped DEF Commit
    <2> QED
      BY <1>3, <2>1, <2>2, <2>3, <2>4, <2>5, <2>6, <2>7, <2>8, <2>9, <2>10, <2>11, <2>12, <2>13, <2>14, <2>15, <2>16, <2>17, <2>18,
         <2>19, <2>20, <2>21, <2>22, <2>23, <2>24, <2>25, <2>26, <2>27, <2>28 DEF InstallStep
  <1>4. ASSUME NEW p \in Process, NEW v \in Version, BeginRemove(p, v) PROVE TypeOK'
    BY <1>4, BeginTyped DEF BeginRemove, Begin
  <1>5. ASSUME NEW p \in Process, RemoveStep(p) PROVE TypeOK'
    <2>1. CASE AcquireRemovalLock(p)
      BY <2>1 DEF AcquireRemovalLock
    <2>2. ASSUME NEW e \in Hash \cup Metadata, RemoveEntry(p, e) PROVE TypeOK'
      <3>1. op' \in [Process -> OpType]
        BY <2>2, FieldTyped DEF RemoveEntry
      <3> DEFINE v == op[p].ver
      <3>2. tree' \in [Version -> [Hash -> Inode \cup {Link, None}]]
        <4>1. v \in Version => [h \in Hash |-> IF h = e THEN None ELSE tree[v][h]]
                                 \in [Hash -> Inode \cup {Link, None}]
          OBVIOUS
        <4> QED
          BY <2>2, <4>1, TreeTyped DEF RemoveEntry
      <3>3. /\ marker' \in [Version -> BOOLEAN]
            /\ receipt' \in [Version -> {"none", "torn", "ok"}]
            /\ manifest' \in [Version -> {"none", "torn", "ok"}]
        BY <2>2 DEF RemoveEntry
      <3>4. spoilt' \in SUBSET Version
        BY <2>2 DEF RemoveEntry
      <3> QED
        BY <2>2, <3>1, <3>2, <3>3, <3>4 DEF RemoveEntry
    <2>3. CASE FinishRemove(p)
      BY <2>3, BeginTyped DEF FinishRemove
    <2>4. CASE FailRemove(p)
      BY <2>4, ReturnTyped DEF FailRemove
    <2> QED
      BY <1>5, <2>1, <2>2, <2>3, <2>4 DEF RemoveStep
  <1>6. ASSUME NEW p \in Process, BeginCollect(p) PROVE TypeOK'
    BY <1>6, BeginTyped, BeginStepTyped DEF BeginCollect
  <1>7. ASSUME NEW p \in Process, CollectStep(p) PROVE TypeOK'
    <2>1. ASSUME NEW v \in Version, Mark(p, v) PROVE TypeOK'
      <3>1. op' \in [Process -> OpType]
        BY <2>1, FieldTyped DEF Mark
      <3> QED
        BY <2>1, <3>1 DEF Mark
    <2>2. CASE RefuseCollect(p)
      BY <2>2, ReturnTyped DEF RefuseCollect
    <2>3. CASE BeginSweep(p)
      <3>1. op' \in [Process -> OpType]
        BY <2>3, FieldTyped DEF BeginSweep
      <3> QED
        BY <2>3, <3>1 DEF BeginSweep
    <2>4. ASSUME NEW h \in Hash, Sweep(p, h) PROVE TypeOK'
      <3>1. op' \in [Process -> OpType]
        BY <2>4, FieldTyped DEF Sweep
      <3>2. temp' \in [Hash -> Inode \cup {None}]
        BY <2>4 DEF Sweep
      <3> QED
        BY <2>4, <3>1, <3>2 DEF Sweep
    <2>5. CASE FinishCollect(p)
      BY <2>5, ReturnTyped DEF FinishCollect
    <2> QED
      BY <1>7, <2>1, <2>2, <2>3, <2>4, <2>5 DEF CollectStep
  <1>8. ASSUME NEW p \in Process, Kill(p) PROVE TypeOK'
    BY <1>8, ReturnTyped DEF Kill
  <1>9. ASSUME NEW v \in Version, EvictArchive(v) PROVE TypeOK'
    BY <1>9 DEF EvictArchive
  <1>10. ASSUME NEW v \in Version, NEW h \in Hash, Edit(v, h) PROVE TypeOK'
    <2>1. op' \in [Process -> OpType]
      BY <1>10, FieldTyped DEF Edit
    <2> QED
      BY <1>10, <2>1 DEF Edit
  <1> QED
    BY <1>1, <1>2, <1>3, <1>4, <1>5, <1>6, <1>7, <1>8, <1>9, <1>10 DEF Next, Process

\* Every variable keeps its type, for any processes, versions, files and bounds.
THEOREM TypeCorrect == Spec => []TypeOK
  <1>1. Init => TypeOK
    BY DEF Init, TypeOK, Steps, Idle, OpType
  <1> QED
    BY <1>1, TypeStep, PTL DEF Spec

-----------------------------------------------------------------------------
(* The marker: IInv is inductive *)

\* The fields of the records the commands begin with, and of their updates.
LEMMA FieldsOf ==
  /\ Idle.file = None /\ NewCollection.file = None
  /\ \A v : NewRemoval(v).ver = v /\ NewRemoval(v).file = None
           /\ NewRemoval(v).todo = Tree[v] \cup Metadata
  /\ \A v, m, off : NewInstall(v, m, off).ver = v /\ NewInstall(v, m, off).file = None
                   /\ NewInstall(v, m, off).todo = Tree[v]
  BY DEF Idle, NewCollection, NewRemoval, NewInstall

\* What an update of one field leaves of the three the invariant speaks of.
LEMMA FieldsAfter ==
  ASSUME NEW r \in OpType, NEW S, NEW h, NEW u, NEW L
  PROVE  /\ [r EXCEPT !.todo = S].todo = S /\ [r EXCEPT !.todo = S].ver = r.ver
         /\ [r EXCEPT !.todo = S].file = r.file
         /\ [r EXCEPT !.file = h, !.todo = S].todo = S /\ [r EXCEPT !.file = h, !.todo = S].ver = r.ver
         /\ [r EXCEPT !.file = h, !.todo = S].file = h
         /\ [r EXCEPT !.file = h].todo = r.todo /\ [r EXCEPT !.file = h].ver = r.ver
         /\ [r EXCEPT !.file = h].file = h
         /\ [r EXCEPT !.urls = u].todo = r.todo /\ [r EXCEPT !.urls = u].ver = r.ver
         /\ [r EXCEPT !.urls = u].file = r.file
         /\ [r EXCEPT !.urls = u, !.offline = FALSE].todo = r.todo
         /\ [r EXCEPT !.urls = u, !.offline = FALSE].ver = r.ver
         /\ [r EXCEPT !.urls = u, !.offline = FALSE].file = r.file
         /\ [r EXCEPT !.unmarked = S, !.live = L].file = r.file
         /\ [r EXCEPT !.edited = TRUE].todo = r.todo /\ [r EXCEPT !.edited = TRUE].ver = r.ver
         /\ [r EXCEPT !.edited = TRUE].file = r.file
  BY DEF OpType

\* What Return leaves: p is idle, and every lock but p's own is as it was.
LEMMA ReturnEffect ==
  ASSUME TypeOK, NEW p \in Process, Return(p)
  PROVE  /\ pc'[p] = "idle" /\ op'[p] = Idle
         /\ \A q \in Process \ {p} : pc'[q] = pc[q] /\ op'[q] = op[q]
         /\ \A w \in Version : lock'[w] = lock[w] \/ lock[w] = p
  BY DEF TypeOK, Return

\* The contents of a version's directory are as they were, but for its marker.
Kept(w) == receipt'[w] = receipt[w] /\ manifest'[w] = manifest[w] /\ tree'[w] = tree[w]

\* A version that is not spoilt was not spoilt before and holds what it held.
Untouched(w) == w \notin spoilt' => w \notin spoilt /\ Kept(w)

\* A step of p that touches nothing of an unspoilt version another process has locked,
\* but perhaps its marker, which it may only delete, keeps what the invariant says of
\* every other process.
LEMMA OthersKeep ==
  ASSUME IInv, NEW p \in Process, NEW q \in Process \ {p},
         pc'[q] = pc[q], op'[q] = op[q],
         \A w \in Version : lock'[w] = lock[w] \/ lock[w] \in {p, None},
         \A w \in Version : lock[w] = p \/ ((marker'[w] => marker[w]) /\ Untouched(w))
  PROVE  Holds(q)' /\ Progresses(q)' /\ Removes(q)'
  <1>1. Holds(q) /\ Progresses(q) /\ Removes(q)
    BY DEF IInv, HoldersHold, InstallProgress, RemovalProgress
  <1>2. q # None /\ q # p
    BY DEF Process
  <1>3. Holds(q)'
    BY <1>1, <1>2 DEF Holds, Building, Placing, Renewing
  <1>4. Progresses(q)'
    BY <1>1, <1>2 DEF Holds, Progresses, Building, Placing, Renewing, Kept, Untouched
  <1>5. Removes(q)'
    BY <1>1, <1>2 DEF Holds, Removes
  <1> QED
    BY <1>3, <1>4, <1>5

\* So a step of p keeps the invariant if it keeps p's own part and leaves each
\* version unmarked, spoilt, complete, being removed by p, or as it was.
LEMMA StepOfOne ==
  ASSUME IInv, NEW p \in Process,
         \A q \in Process \ {p} : pc'[q] = pc[q] /\ op'[q] = op[q],
         \A w \in Version : lock'[w] = lock[w] \/ lock[w] \in {p, None},
         \A w \in Version : lock[w] = p \/ ((marker'[w] => marker[w]) /\ Untouched(w)),
         \A w \in Version :
           \/ marker'[w] /\ w \notin spoilt' => Complete(w)'
           \/ w \in Locked /\ pc'[p] = "remove" /\ op'[p].ver = w
           \/ marker[w] /\ Untouched(w) /\ ~(w \in Locked /\ pc[p] = "remove" /\ op[p].ver = w),
         Holds(p)', Progresses(p)', Removes(p)'
  PROVE  HoldersHold' /\ InstallProgress' /\ RemovalProgress' /\ MarkerMeansComplete'
  <1>1. HoldersHold' /\ InstallProgress' /\ RemovalProgress'
    BY OthersKeep DEF HoldersHold, InstallProgress, RemovalProgress
  <1>2. ASSUME NEW w \in Version, marker'[w], w \notin spoilt', ~(w \in Locked /\ BeingRemoved(w)')
        PROVE  Complete(w)'
    <2>1. ~(w \in Locked /\ pc'[p] = "remove" /\ op'[p].ver = w)
      BY <1>2 DEF BeingRemoved
    <2>2. CASE marker[w] /\ Untouched(w) /\ ~(w \in Locked /\ pc[p] = "remove" /\ op[p].ver = w)
      <3>1. ~(w \in Locked /\ BeingRemoved(w)) /\ w \notin spoilt /\ Kept(w)
        BY <1>2, <2>2 DEF BeingRemoved, Untouched
      <3>2. Complete(w)
        BY <2>2, <3>1 DEF IInv, MarkerMeansComplete
      <3> QED
        BY <3>1, <3>2 DEF Complete, Kept
    <2> QED
      BY <1>2, <2>1, <2>2
  <1> QED
    BY <1>1, <1>2 DEF MarkerMeansComplete

\* A step by which p returns, the disk untouched, keeps the invariant unless p
\* leaves a removal under the lock that has not deleted the marker.
LEMMA ReturnKeeps ==
  ASSUME IInv, NEW p \in Process, Return(p), UNCHANGED <<marker, receipt, manifest, tree>>,
         spoilt \subseteq spoilt',
         pc[p] = "remove" /\ op[p].ver \in Locked => ~marker[op[p].ver] \/ op[p].ver \in spoilt'
  PROVE  HoldersHold' /\ InstallProgress' /\ RemovalProgress' /\ MarkerMeansComplete'
  <1>1. TypeOK
    BY DEF IInv
  <1>2. pc'[p] = "idle" /\ op'[p] = Idle
    BY <1>1, ReturnEffect
  <1>3. Holds(p)' /\ Progresses(p)' /\ Removes(p)'
    BY <1>2, FieldsOf DEF Holds, Progresses, Removes, Building, Placing, Renewing
  <1>4. \A w \in Version : (marker'[w] => marker[w]) /\ Untouched(w)
    BY DEF Kept, Untouched
  <1>5. \A w \in Version :
          \/ marker'[w] /\ w \notin spoilt' => Complete(w)'
          \/ marker[w] /\ Untouched(w) /\ ~(w \in Locked /\ pc[p] = "remove" /\ op[p].ver = w)
    BY <1>4
  <1> QED
    BY <1>1, <1>3, <1>4, <1>5, ReturnEffect, StepOfOne

\* A step of p that leaves the disk and the locks alone and moves p somewhere
\* outside install directories keeps the invariant.
LEMMA AwayKeeps ==
  ASSUME IInv, NEW p \in Process, UNCHANGED <<marker, receipt, manifest, tree, lock, spoilt>>,
         \A q \in Process \ {p} : pc'[q] = pc[q] /\ op'[q] = op[q],
         pc[p] \in {"idle", "mark", "sweep"}, pc'[p] \in {"mark", "sweep"}, op'[p].file = None
  PROVE  HoldersHold' /\ InstallProgress' /\ RemovalProgress' /\ MarkerMeansComplete'
  <1>1. Holds(p)' /\ Progresses(p)' /\ Removes(p)'
    BY DEF Holds, Progresses, Removes, Building, Placing, Renewing
  <1>2. \A w \in Version : (marker'[w] => marker[w]) /\ Untouched(w)
    BY DEF Kept, Untouched
  <1>3. \A w \in Version :
          \/ marker'[w] /\ w \notin spoilt' => Complete(w)'
          \/ marker[w] /\ Untouched(w) /\ ~(w \in Locked /\ pc[p] = "remove" /\ op[p].ver = w)
    BY <1>2
  <1> QED
    BY <1>1, <1>2, <1>3, StepOfOne

\* A step of p between two phases of an install, which leaves every version p has
\* not locked alone and p's own version unmarked, keeps the invariant.
LEMMA BuildKeeps ==
  ASSUME IInv, NEW p \in Process, pc[p] \in Building \cup {"check"}, ~marker[op[p].ver],
         UNCHANGED <<marker, lock>>, pc'[p] \in Building, op'[p].ver = op[p].ver,
         \A q \in Process \ {p} : pc'[q] = pc[q] /\ op'[q] = op[q],
         \A w \in Version \ {op[p].ver} : Untouched(w),
         Progresses(p)'
  PROVE  HoldersHold' /\ InstallProgress' /\ RemovalProgress' /\ MarkerMeansComplete'
  <1>1. Holds(p)
    BY DEF IInv, HoldersHold
  <1>2. Holds(p)' /\ Removes(p)'
    BY <1>1 DEF Holds, Removes, Building, Placing, Renewing
  <1>3. \A w \in Version : lock[w] = p \/ Untouched(w)
    BY <1>1 DEF Holds, Building, Placing, Renewing
  <1>4. pc[p] # "remove"
    BY DEF Building, Placing
  <1>5. \A w \in Version :
          \/ marker'[w] /\ w \notin spoilt' => Complete(w)'
          \/ marker[w] /\ Untouched(w) /\ ~(w \in Locked /\ pc[p] = "remove" /\ op[p].ver = w)
    BY <1>4
  <1> QED
    BY <1>2, <1>3, <1>5, StepOfOne

\* The version whose receipt p renews under the lock is complete if it is marked.
LEMMA RenewedIsComplete ==
  ASSUME IInv, NEW p \in Process, pc[p] \in Renewing,
         marker[op[p].ver], op[p].ver \notin spoilt
  PROVE  Complete(op[p].ver)
  <1>1. lock[op[p].ver] = p /\ op[p].ver \in Version /\ pc[p] # "remove"
    BY DEF IInv, HoldersHold, Holds, Renewing
  <1>2. op[p].ver \in Locked => ~BeingRemoved(op[p].ver)
    BY <1>1 DEF IInv, HoldersHold, Holds, BeingRemoved
  <1> QED
    BY <1>1, <1>2 DEF IInv, MarkerMeansComplete

\* A step of p from one look at the receipt to the next, the disk untouched.
LEMMA RenewKeeps ==
  ASSUME IInv, NEW p \in Process, pc[p] \in {"check", "evidence"}, pc'[p] \in Renewing,
         UNCHANGED <<marker, receipt, manifest, tree, lock, op, spoilt>>,
         \A q \in Process \ {p} : pc'[q] = pc[q]
  PROVE  HoldersHold' /\ InstallProgress' /\ RemovalProgress' /\ MarkerMeansComplete'
  <1>1. Holds(p) /\ Progresses(p)
    BY DEF IInv, HoldersHold, InstallProgress
  <1>2. Holds(p)' /\ Progresses(p)' /\ Removes(p)'
    BY <1>1 DEF Holds, Progresses, Removes, Building, Placing, Renewing
  <1>3. \A w \in Version : (marker'[w] => marker[w]) /\ Untouched(w)
    BY DEF Kept, Untouched
  <1>4. \A w \in Version :
          \/ marker'[w] /\ w \notin spoilt' => Complete(w)'
          \/ marker[w] /\ Untouched(w) /\ ~(w \in Locked /\ pc[p] = "remove" /\ op[p].ver = w)
    BY <1>3
  <1> QED
    BY <1>2, <1>3, <1>4, StepOfOne

\* The steps of an install keep the invariant.
LEMMA InstallKeeps ==
  ASSUME IInv, TypeOK', NEW p \in Process, InstallStep(p)
  PROVE  HoldersHold' /\ InstallProgress' /\ RemovalProgress' /\ MarkerMeansComplete'
  <1> DEFINE v == op[p].ver
  <1>1. TypeOK /\ Holds(p) /\ Progresses(p) /\ op[p] \in OpType
    BY DEF IInv, HoldersHold, InstallProgress, TypeOK
  <1> USE DEF Goto
  <1>2. CASE ClearMarker(p)
    <2>1. pc'[p] = "lock" /\ op' = op /\ UNCHANGED <<receipt, manifest, tree, lock>>
      BY <1>1, <1>2 DEF ClearMarker, TypeOK
    <2>2. \A q \in Process \ {p} : pc'[q] = pc[q]
      BY <1>1, <1>2 DEF ClearMarker, TypeOK
    <2>3. \A w \in Version : (marker'[w] => marker[w]) /\ Untouched(w)
      BY <1>1, <1>2 DEF ClearMarker, TypeOK, Kept, Untouched
    <2>4. Holds(p)' /\ Progresses(p)' /\ Removes(p)'
      BY <1>1, <1>2, <2>1 DEF Holds, Progresses, Removes, Building, Placing, Renewing, ClearMarker
    <2>5. pc[p] # "remove"
      BY <1>2 DEF ClearMarker
    <2> QED
      BY <2>1, <2>2, <2>3, <2>4, <2>5, StepOfOne
  <1>3. CASE AcquireLock(p)
    <2>1. /\ pc[p] = "lock" /\ pc'[p] = "check" /\ op' = op /\ lock'[v] = p
          /\ \A q \in Process \ {p} : pc'[q] = pc[q]
          /\ \A w \in Version : lock'[w] = lock[w] \/ lock[w] = None
      BY <1>1, <1>3 DEF AcquireLock, TypeOK, Holds
    <2>2. UNCHANGED <<marker, receipt, manifest, tree, spoilt>>
      BY <1>3 DEF AcquireLock, disk
    <2>3. \A w \in Version : (marker'[w] => marker[w]) /\ Untouched(w)
      BY <2>2 DEF Kept, Untouched
    <2>4. Holds(p)' /\ Progresses(p)' /\ Removes(p)'
      BY <1>1, <2>1, <2>2 DEF Holds, Progresses, Removes, Building, Placing, Renewing
    <2>5. \A w \in Version :
            (marker'[w] /\ w \notin spoilt' => Complete(w)') \/ (marker[w] /\ Untouched(w))
      BY <2>3
    <2> QED
      BY <2>1, <2>3, <2>4, <2>5, StepOfOne
  <1>4. CASE AlreadyComplete(p)
    <2>1. pc[p] = "check" /\ UNCHANGED <<marker, receipt, manifest, tree, spoilt>>
      BY <1>4 DEF AlreadyComplete, disk
    <2>2. CASE Return(p)
      BY <2>1, <2>2, ReturnKeeps
    <2>3. CASE Goto(p, "check", "evidence") /\ UNCHANGED <<lock, op>>
      BY <1>1, <2>1, <2>3, RenewKeeps DEF TypeOK, Renewing
    <2> QED
      BY <1>4, <2>2, <2>3 DEF AlreadyComplete
  <1>14. CASE ReadReceipt(p)
    BY <1>1, <1>14, RenewKeeps DEF ReadReceipt, TypeOK, Renewing, disk
  <1>15. CASE KeepReceipt(p) \/ HashFails(p)
    BY <1>15, ReturnKeeps DEF KeepReceipt, HashFails, disk
  <1>5. CASE CleanResidue(p)
    <2>1. /\ pc[p] = "check" /\ ~marker[v] /\ pc'[p] = "fetch" /\ op' = op
          /\ UNCHANGED <<marker, lock>>
          /\ \A q \in Process \ {p} : pc'[q] = pc[q]
      BY <1>1, <1>5 DEF CleanResidue, TypeOK
    <2>2. \A w \in Version \ {v} : tree'[w] = tree[w]
      BY <1>1, <1>5 DEF CleanResidue, TypeOK
    <2>3. \A w \in Version \ {v} : receipt'[w] = receipt[w] /\ manifest'[w] = manifest[w]
      BY <1>1, <1>5 DEF CleanResidue, TypeOK
    <2>4. Progresses(p)'
      BY <1>1, <2>1 DEF Progresses, Building, Placing
    <2>5. \A w \in Version \ {op[p].ver} : Untouched(w)
      <3>1. spoilt' = spoilt \ {v}
        BY <1>5 DEF CleanResidue
      <3> QED
        BY <2>2, <2>3, <3>1 DEF Kept, Untouched
    <2>6. pc[p] \in Building \cup {"check"} /\ pc'[p] \in Building
      BY <2>1 DEF Building, Placing
    <2> QED
      BY <2>1, <2>4, <2>5, <2>6, BuildKeeps
  <1>6. ASSUME UseCached(p) \/ Accept(p) \/ Reject(p) \/ Download(p)
        PROVE  HoldersHold' /\ InstallProgress' /\ RemovalProgress' /\ MarkerMeansComplete'
    <2>1. /\ pc[p] \in {"fetch", "verify"} /\ pc'[p] \in {"fetch", "verify", "place"}
          /\ UNCHANGED <<marker, receipt, manifest, tree, lock, spoilt>>
          /\ \A q \in Process \ {p} : pc'[q] = pc[q]
      BY <1>1, <1>6 DEF UseCached, Accept, Reject, Download, TypeOK, disk
    <2>2. \/ op' = op
          \/ op' = [op EXCEPT ![p] = [op[p] EXCEPT !.urls = op[p].urls - 1]]
          \/ op' = [op EXCEPT ![p] = [op[p] EXCEPT !.urls = 0, !.offline = FALSE]]
      BY <1>1, <1>6 DEF UseCached, Accept, Reject, Download, TypeOK
    <2>3. /\ op'[p].ver = v /\ op'[p].todo = op[p].todo /\ op'[p].file = op[p].file
          /\ \A q \in Process \ {p} : op'[q] = op[q]
      <3>1. CASE op' = op
        BY <3>1
      <3>2. CASE op' = [op EXCEPT ![p] = [op[p] EXCEPT !.urls = op[p].urls - 1]]
        BY <1>1, <3>2, FieldsAfter DEF TypeOK
      <3>3. CASE op' = [op EXCEPT ![p] = [op[p] EXCEPT !.urls = 0, !.offline = FALSE]]
        BY <1>1, <3>3, FieldsAfter DEF TypeOK
      <3> QED
        BY <2>2, <3>1, <3>2, <3>3
    <2>4. ~marker[v] /\ op[p].todo = Tree[v] /\ op[p].file = None
      BY <1>1, <2>1 DEF Progresses, Building, Placing
    <2>5. Progresses(p)'
      BY <2>1, <2>3, <2>4 DEF Progresses, Building, Placing
    <2>6. pc[p] \in Building \cup {"check"} /\ pc'[p] \in Building
      BY <2>1 DEF Building, Placing
    <2>7. \A w \in Version \ {op[p].ver} : Untouched(w)
      BY <2>1 DEF Kept, Untouched
    <2> QED
      BY <2>1, <2>3, <2>4, <2>5, <2>6, <2>7, BuildKeeps
  <1>7. CASE GiveUp(p)
    BY <1>7, ReturnKeeps DEF GiveUp, disk
  <1>8. ASSUME NEW h \in Hash, Ingest(p, h)
        PROVE  HoldersHold' /\ InstallProgress' /\ RemovalProgress' /\ MarkerMeansComplete'
    <2>1. /\ pc[p] = "place" /\ pc'[p] \in {"store", "hash"}
          /\ UNCHANGED <<marker, receipt, manifest, tree, lock, spoilt>>
          /\ \A q \in Process \ {p} : pc'[q] = pc[q]
      BY <1>1, <1>8 DEF Ingest, TypeOK, disk
    <2>2. op' = [op EXCEPT ![p] = [op[p] EXCEPT !.file = h, !.todo = op[p].todo \ {h}]]
      BY <1>1, <1>8 DEF Ingest, TypeOK
    <2>3. /\ op'[p].ver = v /\ op'[p].todo = op[p].todo \ {h} /\ op'[p].file = h
          /\ \A q \in Process \ {p} : op'[q] = op[q]
      BY <1>1, <2>2, FieldsAfter DEF TypeOK
    <2>4. ~marker[v] /\ op[p].file = None
      BY <1>1, <2>1 DEF Progresses, Building, Placing
    <2>5. v \notin spoilt => \A g \in Tree[v] \ (op[p].todo \cup {None}) : tree[v][g] # None
      BY <1>1, <2>1, <2>4 DEF Progresses, Placing
    <2>6. v \in Version
      BY <1>1, <2>1 DEF Holds, Building, Placing, Renewing
    <2>7. Progresses(p)'
      BY <2>1, <2>3, <2>4, <2>5, <2>6 DEF Progresses, Building, Placing
    <2>8. pc[p] \in Building \cup {"check"} /\ pc'[p] \in Building
      BY <2>1 DEF Building, Placing
    <2>9. \A w \in Version \ {op[p].ver} : Untouched(w)
      BY <2>1 DEF Kept, Untouched
    <2> QED
      BY <2>1, <2>3, <2>4, <2>7, <2>8, <2>9, BuildKeeps
  <1>13. ASSUME \/ ReuseObject(p) \/ RejectObject(p) \/ DropObject(p)
                \/ Store(p) \/ CopyTemp(p) \/ EndCopy(p) \/ PublishObject(p) \/ DiscardTemp(p)
         PROVE  HoldersHold' /\ InstallProgress' /\ RemovalProgress' /\ MarkerMeansComplete'
    <2>1. /\ pc[p] \in Placing /\ pc'[p] \in Placing
          /\ UNCHANGED <<marker, receipt, manifest, tree, lock, op, spoilt>>
          /\ \A q \in Process \ {p} : pc'[q] = pc[q]
      BY <1>1, <1>13 DEF ReuseObject, RejectObject, DropObject, disk, Store, CopyTemp, EndCopy, PublishObject, DiscardTemp, TypeOK, Placing
    <2>2. ~marker[v] /\ op[p].file \in Hash
      BY <1>1, <2>1 DEF Progresses, Building, Placing
    <2>3. Progresses(p)'
      BY <1>1, <2>1, <2>2 DEF Progresses, Building, Placing
    <2>4. pc[p] \in Building \cup {"check"} /\ pc'[p] \in Building
      BY <2>1 DEF Building, Placing
    <2>5. \A w \in Version \ {op[p].ver} : Untouched(w)
      BY <2>1 DEF Kept, Untouched
    <2>6. op'[p].ver = op[p].ver /\ \A q \in Process \ {p} : pc'[q] = pc[q] /\ op'[q] = op[q]
      BY <2>1
    <2> QED
      BY <2>1, <2>2, <2>3, <2>4, <2>5, <2>6, BuildKeeps
  <1>9. CASE Materialize(p)
    <2> DEFINE h == op[p].file
    <2>1. /\ pc[p] = "link" /\ pc'[p] = "place" /\ UNCHANGED <<marker, receipt, manifest, lock, spoilt>>
          /\ \A q \in Process \ {p} : pc'[q] = pc[q]
      BY <1>1, <1>9 DEF Materialize, TypeOK
    <2>2. op' = [op EXCEPT ![p] = [op[p] EXCEPT !.file = None]]
      BY <1>1, <1>9 DEF Materialize, TypeOK
    <2>3. /\ op'[p].ver = v /\ op'[p].todo = op[p].todo /\ op'[p].file = None
          /\ \A q \in Process \ {p} : op'[q] = op[q]
      BY <1>1, <2>2, FieldsAfter DEF TypeOK
    <2>4. ~marker[v] /\ h \in Hash /\ v \in Version
      BY <1>1, <2>1 DEF Progresses, Holds, Building, Placing, Renewing
    <2>5. PICK i : i # None /\ tree' = [tree EXCEPT ![v][h] = i]
      <3>1. object[h] # None => object[h] \in Inode
        BY <1>1, <2>4 DEF TypeOK
      <3>2. CASE op[p].mode = "symlink" /\ tree' = [tree EXCEPT ![v][h] = Link]
        BY <3>2
      <3>3. CASE object[h] # None /\ tree' = [tree EXCEPT ![v][h] = object[h]]
        BY <3>3
      <3>4. CASE Free # {} /\ tree' = [tree EXCEPT ![v][h] = Fresh]
        BY <3>4, FreshIsInode
      <3> QED
        BY <1>9, <3>2, <3>3, <3>4 DEF Materialize
    <2>6. /\ tree'[v][h] # None /\ \A g \in Hash \ {h} : tree'[v][g] = tree[v][g]
          /\ \A w \in Version \ {v} : tree'[w] = tree[w]
      BY <1>1, <2>4, <2>5 DEF TypeOK
    <2>7. v \notin spoilt => \A g \in Tree[v] \ (op[p].todo \cup {h}) : tree[v][g] # None
      BY <1>1, <2>1 DEF Progresses, Placing
    <2>8. Progresses(p)'
      <3>1. v \notin spoilt => \A g \in Tree[v] \ op[p].todo : tree'[v][g] # None
        BY <2>4, <2>6, <2>7
      <3> HIDE DEF h, v
      <3> QED
        BY <2>1, <2>3, <2>4, <3>1 DEF Progresses, Building, Placing
    <2>9. pc[p] \in Building \cup {"check"} /\ pc'[p] \in Building
      BY <2>1 DEF Building, Placing
    <2>10. \A w \in Version \ {op[p].ver} : Untouched(w)
      BY <2>1, <2>6 DEF Kept, Untouched
    <2> QED
      BY <2>1, <2>3, <2>4, <2>8, <2>9, <2>10, BuildKeeps
  <1>10. CASE ObjectVanished(p)
    <2>1. /\ pc[p] = "link" /\ pc'[p] = "idle" /\ op'[p] = Idle
          /\ UNCHANGED <<marker, receipt, manifest, spoilt>>
          /\ \A q \in Process \ {p} : pc'[q] = pc[q] /\ op'[q] = op[q]
          /\ \A w \in Version : lock'[w] = lock[w] \/ lock[w] = p
      BY <1>1, <1>10, ReturnEffect DEF ObjectVanished
    <2>2. lock[v] = p /\ v \in Version /\ ~marker[v]
      BY <1>1, <2>1 DEF Holds, Progresses, Building, Placing, Renewing
    <2>3. \A w \in Version \ {v} : Untouched(w)
      BY <1>1, <1>10, <2>1 DEF ObjectVanished, TypeOK, Kept, Untouched
    <2>4. Holds(p)' /\ Progresses(p)' /\ Removes(p)'
      BY <2>1, FieldsOf DEF Holds, Progresses, Removes, Building, Placing, Renewing
    <2>5. \A w \in Version : lock[w] = p \/ ((marker'[w] => marker[w]) /\ Untouched(w))
      BY <2>1, <2>2, <2>3
    <2>6. \A w \in Version :
            \/ marker'[w] /\ w \notin spoilt' => Complete(w)'
            \/ marker[w] /\ Untouched(w) /\ ~(w \in Locked /\ pc[p] = "remove" /\ op[p].ver = w)
      BY <2>1, <2>2, <2>3
    <2> QED
      BY <2>1, <2>4, <2>5, <2>6, StepOfOne
  <1>11. ASSUME \/ TruncateManifest(p) \/ WriteManifest(p)
                \/ Goto(p, "receipt", "describe") /\ TruncateReceipt(p)
                \/ pc[p] = "describe" /\ WriteReceipt(p)
         PROVE  HoldersHold' /\ InstallProgress' /\ RemovalProgress' /\ MarkerMeansComplete'
    <2>1. /\ pc[p] \in {"place", "manifest", "receipt", "describe"}
          /\ pc'[p] \in {"manifest", "receipt", "describe", "commit"}
          /\ pc'[p] = "receipt" => pc[p] = "manifest"
          /\ pc'[p] = "describe" => pc[p] = "receipt"
          /\ pc'[p] = "commit" => pc[p] = "describe"
          /\ op' = op /\ UNCHANGED <<marker, tree, lock, spoilt>>
          /\ \A q \in Process \ {p} : pc'[q] = pc[q]
      BY <1>1, <1>11 DEF TruncateManifest, WriteManifest, TruncateReceipt, WriteReceipt, TypeOK
    <2>2. ~marker[v] /\ op[p].file = None /\ v \in Version
      BY <1>1, <2>1 DEF Progresses, Holds, Building, Placing, Renewing
    <2>3. op[p].todo = {}
      BY <1>1, <1>11 DEF TruncateManifest, WriteManifest, TruncateReceipt, WriteReceipt, Progresses, Placing
    <2>4. \A w \in Version \ {v} : receipt'[w] = receipt[w] /\ manifest'[w] = manifest[w]
      BY <1>1, <1>11 DEF TruncateManifest, WriteManifest, TruncateReceipt, WriteReceipt, TypeOK
    <2>5. v \notin spoilt => /\ manifest'[v] # "none"
                             /\ pc'[p] \in {"receipt", "describe", "commit"} => manifest'[v] = "ok"
      <3>1. CASE TruncateManifest(p)
        BY <1>1, <2>2, <3>1 DEF TruncateManifest, TypeOK
      <3>2. CASE WriteManifest(p)
        BY <1>1, <2>2, <3>2 DEF WriteManifest, Filled, TypeOK, Progresses
      <3>3. CASE pc[p] \in {"receipt", "describe"} /\ manifest' = manifest
        BY <1>1, <3>3 DEF Progresses
      <3> QED
        BY <1>11, <3>1, <3>2, <3>3 DEF TruncateReceipt, WriteReceipt
    <2>6. v \notin spoilt /\ pc'[p] \in {"describe", "commit"} => receipt'[v] # "none"
      <3>1. CASE TruncateManifest(p) \/ WriteManifest(p)
        BY <1>1, <3>1 DEF TruncateManifest, WriteManifest, TypeOK
      <3>2. CASE TruncateReceipt(p)
        BY <1>1, <2>2, <3>2 DEF TruncateReceipt, TypeOK
      <3>3. CASE pc[p] = "describe" /\ WriteReceipt(p)
        BY <1>1, <2>2, <3>3 DEF WriteReceipt, Filled, TypeOK, Progresses
      <3> QED
        BY <1>11, <3>1, <3>2, <3>3
    <2>7. v \notin spoilt => \A g \in Tree[v] : tree[v][g] # None
      BY <1>1, <2>1, <2>2, <2>3 DEF Progresses, Placing
    <2>8. Progresses(p)'
      BY <2>1, <2>2, <2>3, <2>5, <2>6, <2>7 DEF Progresses, Building, Placing
    <2>9. pc[p] \in Building \cup {"check"} /\ pc'[p] \in Building
      BY <2>1 DEF Building, Placing
    <2>10. \A w \in Version \ {op[p].ver} : Untouched(w)
      BY <2>1, <2>4 DEF Kept, Untouched
    <2> QED
      BY <2>1, <2>2, <2>8, <2>9, <2>10, BuildKeeps
  <1>16. ASSUME \/ Goto(p, "renew", "renewing") /\ TruncateReceipt(p)
                \/ pc[p] = "renewing" /\ WriteReceipt(p)
         PROVE  HoldersHold' /\ InstallProgress' /\ RemovalProgress' /\ MarkerMeansComplete'
    <2>1. /\ pc[p] \in Renewing /\ UNCHANGED <<marker, manifest, tree, spoilt>>
          /\ \A q \in Process \ {p} : pc'[q] = pc[q] /\ op'[q] = op[q]
          /\ \A w \in Version : lock'[w] = lock[w] \/ lock[w] = p
          /\ \/ pc'[p] = "renewing" /\ op' = op /\ lock' = lock
             \/ pc'[p] = "idle" /\ op'[p] = Idle
      <3>1. CASE Goto(p, "renew", "renewing") /\ TruncateReceipt(p)
        BY <1>1, <3>1 DEF TruncateReceipt, TypeOK, Renewing
      <3>2. CASE pc[p] = "renewing" /\ WriteReceipt(p)
        BY <1>1, <3>2, ReturnEffect DEF WriteReceipt, Renewing
      <3> QED
        BY <1>16, <3>1, <3>2
    <2>11. PICK u : u = v
      OBVIOUS
    <2>2. lock[v] = p /\ v \in Version /\ op[p].file = None
      BY <1>1, <2>1 DEF Holds, Progresses, Placing, Renewing
    <2>3. \A w \in Version \ {u} : receipt'[w] = receipt[w]
      BY <1>1, <2>11, <1>16 DEF TruncateReceipt, WriteReceipt, TypeOK
    <2>4. receipt[u] # "none" => receipt'[u] # "none"
      BY <1>1, <2>11, <1>16, <2>2 DEF TruncateReceipt, WriteReceipt, Filled, TypeOK
    <2>5. marker[u] /\ u \notin spoilt => Complete(u)
      BY <2>11, <2>1, RenewedIsComplete
    <2>6. marker'[u] /\ u \notin spoilt' => Complete(u)'
      BY <2>1, <2>4, <2>5 DEF Complete
    <2>7. Holds(p)' /\ Progresses(p)' /\ Removes(p)'
      BY <2>1, <2>2, FieldsOf DEF Holds, Progresses, Removes, Building, Placing, Renewing
    <2>8. \A w \in Version : lock[w] = p \/ ((marker'[w] => marker[w]) /\ Untouched(w))
      BY <2>1, <2>2, <2>3, <2>11 DEF Kept, Untouched
    <2>9. pc[p] # "remove"
      BY <2>1 DEF Renewing
    <2>10. \A w \in Version :
             \/ marker'[w] /\ w \notin spoilt' => Complete(w)'
             \/ marker[w] /\ Untouched(w) /\ ~(w \in Locked /\ pc[p] = "remove" /\ op[p].ver = w)
      BY <2>1, <2>3, <2>6, <2>9 DEF Kept, Untouched
    <2> QED
      BY <2>1, <2>7, <2>8, <2>10, StepOfOne
  <1>12. CASE Commit(p)
    <2>1. /\ pc[p] = "commit" /\ pc'[p] = "idle" /\ op'[p] = Idle
          /\ UNCHANGED <<receipt, manifest, tree, spoilt>>
          /\ \A q \in Process \ {p} : pc'[q] = pc[q] /\ op'[q] = op[q]
          /\ \A w \in Version : lock'[w] = lock[w] \/ lock[w] = p
      BY <1>1, <1>12, ReturnEffect DEF Commit
    <2>2. lock[v] = p /\ v \in Version
      BY <1>1, <2>1 DEF Holds, Building, Placing, Renewing
    <2>3. v \notin spoilt => Complete(v)
      BY <1>1, <2>1, <2>2 DEF Progresses, Placing, Complete
    <2>4. \A w \in Version \ {v} : marker'[w] = marker[w]
      BY <1>1, <1>12, <2>2 DEF Commit, TypeOK
    <2>5. \A w \in Version : Untouched(w) /\ (Complete(w) => Complete(w)')
      BY <2>1 DEF Kept, Untouched, Complete
    <2>6. Holds(p)' /\ Progresses(p)' /\ Removes(p)'
      BY <2>1, FieldsOf DEF Holds, Progresses, Removes, Building, Placing, Renewing
    <2>7. \A w \in Version : lock[w] = p \/ ((marker'[w] => marker[w]) /\ Untouched(w))
      BY <2>2, <2>4, <2>5
    <2>8. \A w \in Version :
            \/ marker'[w] /\ w \notin spoilt' => Complete(w)'
            \/ marker[w] /\ Untouched(w) /\ ~(w \in Locked /\ pc[p] = "remove" /\ op[p].ver = w)
      BY <2>1, <2>3, <2>4, <2>5
    <2> QED
      BY <2>1, <2>6, <2>7, <2>8, StepOfOne
  <1> QED
    BY <1>2, <1>3, <1>4, <1>5, <1>6, <1>7, <1>8, <1>9, <1>10, <1>11, <1>12, <1>13, <1>14, <1>15, <1>16
      DEF InstallStep, TruncateReceipt, WriteReceipt

\* The steps of a removal keep the invariant.
LEMMA RemovalKeeps ==
  ASSUME IInv, TypeOK', NEW p \in Process, RemoveStep(p)
  PROVE  HoldersHold' /\ InstallProgress' /\ RemovalProgress' /\ MarkerMeansComplete'
  <1> DEFINE v == op[p].ver
  <1>1. TypeOK /\ Holds(p) /\ Progresses(p) /\ Removes(p) /\ op[p] \in OpType
    BY DEF IInv, HoldersHold, InstallProgress, RemovalProgress, TypeOK
  <1>2. CASE AcquireRemovalLock(p)
    <2>1. /\ pc[p] = "rmlock" /\ pc'[p] = "remove" /\ op' = op /\ lock'[v] = p
          /\ UNCHANGED <<marker, receipt, manifest, tree, spoilt>>
          /\ \A q \in Process \ {p} : pc'[q] = pc[q]
          /\ \A w \in Version : lock'[w] = lock[w] \/ lock[w] = None
      BY <1>1, <1>2 DEF AcquireRemovalLock, TypeOK, Holds, Goto, disk
    <2>2. \A w \in Version : (marker'[w] => marker[w]) /\ Untouched(w)
      BY <2>1 DEF Kept, Untouched
    <2>3. Holds(p)' /\ Progresses(p)' /\ Removes(p)'
      BY <1>1, <2>1 DEF Holds, Progresses, Removes, Building, Placing, Renewing
    <2>4. \A w \in Version :
            (marker'[w] /\ w \notin spoilt' => Complete(w)') \/ (marker[w] /\ Untouched(w))
      BY <2>2
    <2> QED
      BY <2>1, <2>2, <2>3, <2>4, StepOfOne
  <1>3. ASSUME NEW e \in Hash \cup Metadata, RemoveEntry(p, e)
        PROVE  HoldersHold' /\ InstallProgress' /\ RemovalProgress' /\ MarkerMeansComplete'
    <2>1. /\ pc[p] = "remove" /\ pc' = pc /\ UNCHANGED lock
      BY <1>3 DEF RemoveEntry
    <2>2. op' = [op EXCEPT ![p] = [op[p] EXCEPT !.todo = op[p].todo \ {e}]]
      BY <1>1, <1>3 DEF RemoveEntry, TypeOK
    <2>3. /\ op'[p].ver = v /\ op'[p].todo = op[p].todo \ {e} /\ op'[p].file = op[p].file
          /\ \A q \in Process \ {p} : op'[q] = op[q]
      BY <1>1, <2>2, FieldsAfter DEF TypeOK
    <2>4. (v \in Locked => lock[v] = p) /\ v \in Version /\ p \in Remover
      BY <1>1, <2>1 DEF Holds, Removes
    <2>5. \A w \in Version \ {v} : marker'[w] = marker[w]
      BY <1>1, <1>3 DEF RemoveEntry, TypeOK
    <2>6. \A w \in Version \ {v} : Untouched(w)
      BY <1>1, <1>3 DEF RemoveEntry, TypeOK, Kept, Untouched
    <2>11. v \notin Locked => v \in spoilt'
      BY <1>3, <2>4 DEF RemoveEntry
    <2>7. marker'[v] = (marker[v] /\ e # "marker")
      BY <1>1, <1>3, <2>4 DEF RemoveEntry, TypeOK
    <2>8. Holds(p)' /\ Progresses(p)' /\ Removes(p)'
      BY <1>1, <2>1, <2>3, <2>4, <2>7 DEF Holds, Progresses, Removes, Building, Placing, Renewing
    <2>9. \A w \in Version : lock[w] = p \/ ((marker'[w] => marker[w]) /\ Untouched(w))
      BY <2>4, <2>5, <2>6, <2>7, <2>11 DEF Untouched
    <2>10. \A w \in Version :
             \/ marker'[w] /\ w \notin spoilt' => Complete(w)'
             \/ w \in Locked /\ pc'[p] = "remove" /\ op'[p].ver = w
             \/ marker[w] /\ Untouched(w) /\ ~(w \in Locked /\ pc[p] = "remove" /\ op[p].ver = w)
      BY <2>1, <2>3, <2>5, <2>6, <2>11
    <2> QED
      BY <2>1, <2>3, <2>8, <2>9, <2>10, StepOfOne
  <1>4. CASE FinishRemove(p)
    <2>1. /\ pc[p] = "remove" /\ pc'[p] = "mark" /\ op'[p] = NewCollection /\ ~marker[v]
          /\ UNCHANGED <<marker, receipt, manifest, tree, spoilt>>
          /\ \A q \in Process \ {p} : pc'[q] = pc[q] /\ op'[q] = op[q]
          /\ \A w \in Version : lock'[w] = lock[w] \/ lock[w] = p
      BY <1>1, <1>4 DEF FinishRemove, EmptyDir, TypeOK, disk
    <2>2. Holds(p)' /\ Progresses(p)' /\ Removes(p)'
      BY <2>1, FieldsOf DEF Holds, Progresses, Removes, Building, Placing, Renewing
    <2>3. \A w \in Version :
            \/ marker'[w] /\ w \notin spoilt' => Complete(w)'
            \/ marker[w] /\ Untouched(w) /\ ~(w \in Locked /\ pc[p] = "remove" /\ op[p].ver = w)
      BY <2>1 DEF Kept, Untouched
    <2>4. \A w \in Version : (marker'[w] => marker[w]) /\ Untouched(w)
      BY <2>1 DEF Kept, Untouched
    <2> QED
      BY <2>1, <2>2, <2>3, <2>4, StepOfOne
  <1>5. CASE FailRemove(p)
    BY <1>1, <1>5, ReturnKeeps DEF FailRemove, Removes, disk
  <1> QED
    BY <1>2, <1>3, <1>4, <1>5 DEF RemoveStep

\* The steps of a collection keep the invariant.
LEMMA CollectionKeeps ==
  ASSUME IInv, NEW p \in Process, CollectStep(p)
  PROVE  HoldersHold' /\ InstallProgress' /\ RemovalProgress' /\ MarkerMeansComplete'
  <1>1. TypeOK /\ Progresses(p) /\ op[p] \in OpType
    BY DEF IInv, InstallProgress, TypeOK
  <1>2. CASE RefuseCollect(p) \/ FinishCollect(p)
    BY <1>2, ReturnKeeps DEF RefuseCollect, FinishCollect, disk
  <1>3. ASSUME NEW v \in Version, Mark(p, v)
        PROVE  HoldersHold' /\ InstallProgress' /\ RemovalProgress' /\ MarkerMeansComplete'
    <2>1. op[p].file = None
      BY <1>1, <1>3 DEF Progresses, Placing, Mark
    <2>2. PICK L : op' = [op EXCEPT ![p] = [op[p] EXCEPT !.unmarked = op[p].unmarked \ {v}, !.live = L]]
      BY <1>1, <1>3 DEF Mark, TypeOK
    <2>3. op'[p].file = None /\ \A q \in Process \ {p} : op'[q] = op[q]
      BY <1>1, <2>1, <2>2, FieldsAfter DEF TypeOK
    <2> QED
      BY <1>3, <2>3, AwayKeeps DEF Mark, disk
  <1>4. ASSUME NEW S, op' = [op EXCEPT ![p] = [op[p] EXCEPT !.todo = S]],
               UNCHANGED <<marker, receipt, manifest, tree, lock, spoilt>>,
               \A q \in Process \ {p} : pc'[q] = pc[q],
               pc[p] \in {"mark", "sweep"}, pc'[p] \in {"mark", "sweep"}
        PROVE  HoldersHold' /\ InstallProgress' /\ RemovalProgress' /\ MarkerMeansComplete'
    <2>1. op[p].file = None
      BY <1>1, <1>4 DEF Progresses, Placing
    <2>2. op'[p].file = None /\ \A q \in Process \ {p} : op'[q] = op[q]
      BY <1>1, <1>4, <2>1, FieldsAfter DEF TypeOK
    <2> QED
      BY <1>4, <2>2, AwayKeeps
  <1>5. CASE BeginSweep(p)
    <2>1. op' = [op EXCEPT ![p] = [op[p] EXCEPT !.todo = Hash]]
      BY <1>1, <1>5 DEF BeginSweep, TypeOK
    <2> QED
      BY <1>1, <1>4, <1>5, <2>1 DEF BeginSweep, Goto, disk, TypeOK
  <1>6. ASSUME NEW h \in Hash, Sweep(p, h)
        PROVE  HoldersHold' /\ InstallProgress' /\ RemovalProgress' /\ MarkerMeansComplete'
    <2>1. op' = [op EXCEPT ![p] = [op[p] EXCEPT !.todo = op[p].todo \ {h}]]
      BY <1>1, <1>6 DEF Sweep, TypeOK
    <2> QED
      BY <1>4, <1>6, <2>1 DEF Sweep
  <1> QED
    BY <1>2, <1>3, <1>5, <1>6 DEF CollectStep

\* Beginning a command touches no directory and no lock.
LEMMA BeginKeeps ==
  ASSUME IInv, NEW p \in Process, NEW s \in Steps, NEW r \in OpType, Begin(p, s, r),
         UNCHANGED <<marker, receipt, manifest, tree, lock, spoilt>>,
         s \in {"clear", "lock", "rmlock", "remove", "mark"}, r.file = None,
         s # "mark" => r.ver \in Version,
         s \in {"clear", "lock"} => r.todo = Tree[r.ver],
         s = "rmlock" => p \in Remover /\ r.ver \in Locked /\ "marker" \in r.todo,
         s = "remove" => p \in Remover /\ r.ver \notin Locked
  PROVE  HoldersHold' /\ InstallProgress' /\ RemovalProgress' /\ MarkerMeansComplete'
  <1>1. /\ pc[p] = "idle" /\ pc'[p] = s /\ op'[p] = r
        /\ \A q \in Process \ {p} : pc'[q] = pc[q] /\ op'[q] = op[q]
    BY DEF IInv, TypeOK, Begin
  <1>2. Holds(p)' /\ Progresses(p)' /\ Removes(p)'
    BY <1>1 DEF Holds, Progresses, Removes, Building, Placing, Renewing
  <1>3. \A w \in Version : (marker'[w] => marker[w]) /\ Untouched(w)
    BY DEF Kept, Untouched
  <1>4. \A w \in Version :
          \/ marker'[w] /\ w \notin spoilt' => Complete(w)'
          \/ marker[w] /\ Untouched(w) /\ ~(w \in Locked /\ pc[p] = "remove" /\ op[p].ver = w)
    BY <1>1, <1>3
  <1> QED
    BY <1>1, <1>2, <1>3, <1>4, StepOfOne

\* A step that moves no process and touches no directory and no lock.
LEMMA EnvironmentKeeps ==
  ASSUME IInv, UNCHANGED <<marker, receipt, manifest, tree, lock, pc, spoilt>>,
         \A q \in Process : /\ op'[q].ver = op[q].ver /\ op'[q].todo = op[q].todo
                             /\ op'[q].file = op[q].file
  PROVE  HoldersHold' /\ InstallProgress' /\ RemovalProgress' /\ MarkerMeansComplete'
  <1>1. HoldersHold' /\ InstallProgress' /\ RemovalProgress'
    BY DEF IInv, HoldersHold, InstallProgress, RemovalProgress, Holds, Progresses, Placing, Removes
  <1>2. \A w \in Version : BeingRemoved(w)' = BeingRemoved(w)
    BY DEF BeingRemoved
  <1>3. \A w \in Version : Complete(w) => Complete(w)'
    BY DEF Complete
  <1> QED
    BY <1>1, <1>2, <1>3 DEF IInv, MarkerMeansComplete

LEMMA IInvStep == ASSUME IInv, [Next]_vars PROVE IInv'
  <1>1. TypeOK' /\ TypeOK
    BY TypeStep DEF IInv
  <1> DEFINE Goal == HoldersHold' /\ InstallProgress' /\ RemovalProgress' /\ MarkerMeansComplete'
  <1> SUFFICES Goal
    BY <1>1 DEF IInv
  <1>2. CASE UNCHANGED vars
    BY <1>2, EnvironmentKeeps DEF vars, disk
  <1>3. ASSUME NEW p \in Installer, NEW v \in Version, BeginInstall(p, v) PROVE Goal
    <2>1. PICK m \in Modes, off \in BOOLEAN :
            Begin(p, IF marker[v] THEN "clear" ELSE "lock", NewInstall(v, m, off))
      BY <1>3 DEF BeginInstall
    <2>2. NewInstall(v, m, off) \in OpType
      BY <1>1, BeginTyped
    <2> QED
      BY <1>1, <1>3, <2>1, <2>2, BeginKeeps, FieldsOf
        DEF BeginInstall, disk, Process, Steps, InstallSteps
  <1>4. ASSUME NEW p \in Remover, NEW v \in Version, BeginRemove(p, v) PROVE Goal
    <2>1. Begin(p, IF v \in Locked THEN "rmlock" ELSE "remove", NewRemoval(v)) /\ NewRemoval(v) \in OpType
      BY <1>1, <1>4, BeginTyped DEF BeginRemove
    <2>2. "marker" \in NewRemoval(v).todo
      BY FieldsOf DEF Metadata
    <2> QED
      BY <1>4, <2>1, <2>2, BeginKeeps, FieldsOf DEF BeginRemove, disk, Process, Steps
  <1>5. ASSUME NEW p \in Collector, BeginCollect(p) PROVE Goal
    <2>1. Begin(p, "mark", NewCollection) /\ NewCollection \in OpType
      BY <1>1, <1>5, BeginTyped DEF BeginCollect
    <2> QED
      BY <1>5, <2>1, BeginKeeps, FieldsOf DEF BeginCollect, disk, Process, Steps
  <1>6. ASSUME NEW p \in Process, Kill(p) PROVE Goal
    <2>1. pc[p] = "remove" => op[p].ver \in spoilt'
      BY <1>6 DEF IInv, HoldersHold, Holds, Kill
    <2> QED
      BY <1>6, <2>1, ReturnKeeps DEF Kill, disk
  <1>7. ASSUME NEW v \in Version, EvictArchive(v) PROVE Goal
    BY <1>7, EnvironmentKeeps DEF EvictArchive
  <1>8. ASSUME NEW v \in Version, NEW h \in Hash, Edit(v, h) PROVE Goal
    <2>1. \A q \in Process : op'[q].ver = op[q].ver /\ op'[q].todo = op[q].todo /\ op'[q].file = op[q].file
      <3>1. TAKE q \in Process
      <3>2. op'[q] = op[q] \/ op'[q] = [op[q] EXCEPT !.edited = TRUE]
        BY <1>8 DEF Edit
      <3>3. op[q] \in OpType
        BY <1>1 DEF TypeOK
      <3> QED
        BY <3>2, <3>3, FieldsAfter
    <2> QED
      BY <1>8, <2>1, EnvironmentKeeps DEF Edit
  <1> QED
    BY <1>1, <1>2, <1>3, <1>4, <1>5, <1>6, <1>7, <1>8, InstallKeeps, RemovalKeeps, CollectionKeeps
      DEF Next, Process

LEMMA InitIInv == Init => IInv
  <1>1. Init => TypeOK
    BY DEF Init, TypeOK, Steps, Idle, OpType
  <1>2. Init => HoldersHold /\ InstallProgress /\ RemovalProgress
    BY FieldsOf DEF Init, HoldersHold, InstallProgress, RemovalProgress, Holds, Progresses, Removes, Building, Placing, Renewing
  <1>3. Init => MarkerMeansComplete
    BY DEF Init, MarkerMeansComplete
  <1> QED
    BY <1>1, <1>2, <1>3 DEF IInv

\* The marker is proof of a complete install, for any number of installers, removers,
\* collectors, kills, edits and cache evictions, whether uninstall takes the install
\* lock or not, but for the versions an uninstall has spoilt and not been rebuilt since.
THEOREM MarkerSound == Spec => []MarkerMeansComplete
  <1>1. IInv /\ [Next]_vars => IInv'
    BY IInvStep
  <1>2. IInv => MarkerMeansComplete
    BY DEF IInv
  <1> QED
    BY InitIInv, <1>1, <1>2, PTL DEF Spec

\* Who changes what a directory holds is building it, and it is unmarked, or is
\* removing it, or adds evidence to its receipt under the lock.
LEMMA ChangesAreOwned == ASSUME IInv, [Next]_vars PROVE UndisturbedStep
  <1> DEFINE Same(w) ==
        /\ tree'[w] = tree[w] /\ manifest'[w] = manifest[w]
        /\ receipt'[w] = receipt[w] \/ \E p \in Installer : Renews(p, w)
  <1> SUFFICES ASSUME NEW w \in Version, marker[w], ~BeingRemoved(w) PROVE Same(w)
    BY DEF UndisturbedStep
  <1>1. TypeOK
    BY DEF IInv
  <1>2. \A p \in Process : op[p].ver = w => pc[p] \notin Building \cup {"remove"}
    BY DEF IInv, InstallProgress, Progresses, Placing, BeingRemoved
  <1>3. CASE UNCHANGED <<receipt, manifest, tree>>
    BY <1>3
  <1> USE DEF disk, Goto
  <1>4. ASSUME NEW p \in Installer, InstallStep(p) PROVE Same(w)
    <2>0. p \in Process
      BY DEF Process
    <2>1. CASE CleanResidue(p)
      <3>1. op[p].ver # w
        BY <2>1 DEF CleanResidue
      <3>2. tree'[w] = tree[w]
        BY <1>1, <2>1, <3>1 DEF CleanResidue, TypeOK
      <3>3. receipt'[w] = receipt[w] /\ manifest'[w] = manifest[w]
        BY <1>1, <2>1, <3>1 DEF CleanResidue, TypeOK
      <3> QED
        BY <3>2, <3>3
    <2>2. CASE Materialize(p)
      <3>1. op[p].ver # w
        BY <1>2, <2>0, <2>2 DEF Materialize, Building, Placing
      <3>2. tree'[w] = tree[w]
        BY <1>1, <2>2, <3>1 DEF Materialize, TypeOK
      <3> QED
        BY <2>2, <3>2 DEF Materialize
    <2>3. CASE TruncateManifest(p) \/ WriteManifest(p)
      <3>1. op[p].ver # w
        BY <1>2, <2>0, <2>3 DEF TruncateManifest, WriteManifest, Building, Placing
      <3> QED
        BY <1>1, <2>3, <3>1 DEF TruncateManifest, WriteManifest, TypeOK
    <2>4. CASE TruncateReceipt(p) \/ WriteReceipt(p)
      <3>1. pc[p] \in {"receipt", "renew", "describe", "renewing"} /\ UNCHANGED <<tree, manifest>>
        BY <2>4 DEF TruncateReceipt, WriteReceipt
      <3>2. CASE op[p].ver # w
        BY <1>1, <2>4, <3>1, <3>2 DEF TruncateReceipt, WriteReceipt, TypeOK
      <3>3. CASE op[p].ver = w
        <4>1. pc[p] \in {"renew", "renewing"}
          BY <1>2, <2>0, <3>1, <3>3 DEF Building, Placing
        <4>2. lock[w] = p
          BY <2>0, <3>3, <4>1 DEF IInv, HoldersHold, Holds, Renewing
        <4> QED
          BY <3>1, <3>3, <4>1, <4>2 DEF Renews
      <3> QED
        BY <3>2, <3>3
    <2>5. CASE ObjectVanished(p)
      <3>1. op[p].ver # w
        BY <1>2, <2>0, <2>5 DEF ObjectVanished, Building, Placing
      <3> QED
        BY <1>1, <2>5, <3>1 DEF ObjectVanished, TypeOK
    <2>6. CASE \/ ClearMarker(p) \/ AcquireLock(p) \/ AlreadyComplete(p) \/ ReadReceipt(p)
               \/ KeepReceipt(p) \/ UseCached(p) \/ Download(p) \/ Accept(p) \/ Reject(p)
               \/ GiveUp(p) \/ Commit(p)
      BY <1>3, <2>6 DEF ClearMarker, AcquireLock, AlreadyComplete, ReadReceipt, KeepReceipt,
           UseCached, Download, Accept, Reject, GiveUp, Commit
    <2>7. CASE \/ \E h \in Hash : Ingest(p, h)
               \/ ReuseObject(p) \/ RejectObject(p) \/ HashFails(p) \/ DropObject(p)
               \/ Store(p) \/ CopyTemp(p) \/ EndCopy(p) \/ PublishObject(p) \/ DiscardTemp(p)
      BY <1>3, <2>7 DEF Ingest, ReuseObject, RejectObject, HashFails, DropObject, Store, CopyTemp,
           EndCopy, PublishObject, DiscardTemp
    <2> QED
      BY <1>4, <2>1, <2>2, <2>3, <2>4, <2>5, <2>6, <2>7 DEF InstallStep
  <1>5. ASSUME NEW p \in Process, RemoveStep(p) PROVE Same(w)
    <2>1. ASSUME NEW e \in Hash \cup Metadata, RemoveEntry(p, e) PROVE Same(w)
      <3>1. op[p].ver # w
        BY <1>2, <2>1 DEF RemoveEntry
      <3> QED
        BY <1>1, <2>1, <3>1 DEF RemoveEntry, TypeOK
    <2> QED
      BY <1>3, <1>5, <2>1 DEF RemoveStep, AcquireRemovalLock, FinishRemove, FailRemove
  <1>6. ASSUME NEW p \in Process, CollectStep(p) PROVE Same(w)
    BY <1>3, <1>6 DEF CollectStep, Mark, RefuseCollect, BeginSweep, Sweep, FinishCollect
  <1>7. CASE UNCHANGED vars
    BY <1>3, <1>7 DEF vars
  <1>8. ASSUME NEW p \in Process, Kill(p) PROVE Same(w)
    BY <1>3, <1>8 DEF Kill
  <1>9. CASE \/ \E p \in Installer, v \in Version : BeginInstall(p, v)
             \/ \E p \in Remover, v \in Version : BeginRemove(p, v)
             \/ \E p \in Collector : BeginCollect(p)
             \/ \E v \in Version : EvictArchive(v) \/ \E h \in Hash : Edit(v, h)
    BY <1>3, <1>9 DEF BeginInstall, BeginRemove, BeginCollect, EvictArchive, Edit
  <1> HIDE DEF Same
  <1> QED
    BY <1>4, <1>5, <1>6, <1>7, <1>8, <1>9 DEF Next, Process

\* Nothing is changed underneath a complete install, for any processes and bounds.
THEOREM MarkedIsStable == Spec => CompleteIsStable
  <1>1. IInv /\ [Next]_vars => IInv'
    BY IInvStep
  <1>2. IInv /\ [Next]_vars => UndisturbedStep
    BY ChangesAreOwned
  <1> QED
    BY InitIInv, <1>1, <1>2, PTL DEF Spec, CompleteIsStable

-----------------------------------------------------------------------------
(***************************************************************************)
(* Proofs about the store: the object of a hash whose temporary name no    *)
(* two ingestions shared is never there in part, whatever was killed and   *)
(* however often the store is collected; and, when files are renamed into  *)
(* the store and not symlinked from it, a reinstall repairs.               *)
(***************************************************************************)

\* What the file system hands out is nobody's.
LEMMA FreshIsFree ==
  ASSUME Free # {}
  PROVE  /\ Fresh \in Inode
         /\ \A h \in Hash : Fresh # object[h] /\ Fresh # temp[h]
         /\ \A w \in Version, h \in Hash : Fresh # tree[w][h]
  BY DEF Free, Fresh, InUse

\* What the updates leave of the mode, the file and the edited flag.
LEMMA FieldsKept ==
  ASSUME NEW r \in OpType, NEW S, NEW h, NEW u, NEW L
  PROVE  /\ [r EXCEPT !.todo = S].mode = r.mode /\ [r EXCEPT !.todo = S].edited = r.edited
         /\ [r EXCEPT !.file = h, !.todo = S].mode = r.mode
         /\ [r EXCEPT !.file = h, !.todo = S].edited = r.edited
         /\ [r EXCEPT !.file = h].mode = r.mode /\ [r EXCEPT !.file = h].edited = r.edited
         /\ [r EXCEPT !.urls = u].mode = r.mode /\ [r EXCEPT !.urls = u].edited = r.edited
         /\ [r EXCEPT !.urls = u, !.offline = FALSE].mode = r.mode
         /\ [r EXCEPT !.urls = u, !.offline = FALSE].edited = r.edited
         /\ [r EXCEPT !.unmarked = S, !.live = L].mode = r.mode
         /\ [r EXCEPT !.unmarked = S, !.live = L].edited = r.edited
         /\ [r EXCEPT !.edited = TRUE].mode = r.mode /\ [r EXCEPT !.edited = TRUE].edited
  BY DEF OpType

\* The modes commands begin with.
LEMMA ModesOf ==
  /\ Idle.mode = "copy" /\ NewCollection.mode = "copy" /\ \A v : NewRemoval(v).mode = "copy"
  /\ \A v, m, off : NewInstall(v, m, off).mode = m
  BY DEF Idle, NewCollection, NewRemoval, NewInstall

-----------------------------------------------------------------------------
(* No partial object *)

\* The temporary files and the objects have no inode in common.
Unshared ==
  /\ \A h, g \in Hash : temp[h] # None => temp[h] # object[g]
  /\ \A h, g \in Hash : h # g /\ temp[h] # None => temp[h] # temp[g]

\* An installer that places a file has it in hand.
InHand(p) == pc[p] \in Placing => op[p].file \in Hash

Copying(p) == pc[p] \in {"copy", "publish"}

\* Two that copy under one temporary name have been noticed.
Noticed == \A p, q \in Process : p # q /\ Copying(p) /\ Copying(q) /\ op[p].file = op[q].file =>
             op[p].file \in shared

\* What a copy has filled is whole.
Copied(p) ==
  /\ pc[p] = "copy" => temp[op[p].file] \in {None, writing[p]}
  /\ pc[p] = "publish" => temp[op[p].file] \notin bad

Whole ==
  /\ \A h \in Hash \ shared : object[h] \notin bad
  /\ \A p \in Process : op[p].file \notin shared => Copied(p)

CopyInv ==
  /\ TypeOK /\ Unshared /\ Noticed
  /\ \A p \in Process : InHand(p)
  /\ edits = 0 => Whole

\* A step that stores nothing keeps what the invariant says of the files.
LEMMA StoreUntouched ==
  ASSUME CopyInv, TypeOK', UNCHANGED <<writing, bad, shared>>, edits' = 0 => edits = 0,
         \A h \in Hash : object'[h] \in {object[h], None} /\ temp'[h] \in {temp[h], None},
         \A q \in Process : \/ ~Copying(q)' /\ (pc'[q] \in Placing => op'[q].file \in Hash)
                            \/ pc'[q] = pc[q] /\ op'[q].file = op[q].file
  PROVE  CopyInv'
  <1>1. None \notin bad
    BY DEF CopyInv, TypeOK
  <1>2. Unshared'
    BY DEF CopyInv, Unshared
  <1>3. \A p \in Process : InHand(p)'
    BY DEF CopyInv, InHand
  <1>4. Noticed'
    BY DEF CopyInv, Noticed, Copying
  <1>5. Whole => \A h \in Hash \ shared' : object'[h] \notin bad'
    BY <1>1 DEF Whole
  <1>6. ASSUME Whole, NEW p \in Process, op'[p].file \notin shared' PROVE Copied(p)'
    <2>1. CASE ~Copying(p)'
      BY <2>1 DEF Copied, Copying
    <2>2. CASE Copying(p)' /\ pc'[p] = pc[p] /\ op'[p].file = op[p].file
      <3>1. op[p].file \in Hash /\ Copied(p)
        BY <1>6, <2>2 DEF CopyInv, InHand, Copying, Placing, Whole
      <3> QED
        BY <1>1, <2>2, <3>1 DEF Copied
    <2> QED
      BY <2>1, <2>2
  <1>7. edits' = 0 => Whole'
    BY <1>5, <1>6 DEF CopyInv, Whole
  <1> QED
    BY <1>2, <1>3, <1>4, <1>7 DEF CopyInv

\* What every step of one process that moves it alone keeps.
LEMMA InHandAfter ==
  ASSUME CopyInv, NEW p \in Process, op' = op, NEW s \in Steps, pc' = [pc EXCEPT ![p] = s],
         pc[p] \in Placing
  PROVE  \A q \in Process : InHand(q)'
  BY DEF CopyInv, TypeOK, InHand

\* A file that is renamed into the store is whole and nobody's before.
LEMMA StoreKeeps ==
  ASSUME CopyInv, TypeOK', NEW p \in Process, Store(p)
  PROVE  CopyInv'
  <1> DEFINE h == op[p].file
  <1>1. /\ TypeOK /\ Unshared /\ Noticed /\ None \notin bad
        /\ pc[p] = "store" /\ pc' = [pc EXCEPT ![p] = "link"] /\ Free # {}
        /\ object' = [object EXCEPT ![h] = Fresh] /\ bad' = bad \ {Fresh}
        /\ UNCHANGED <<temp, writing, op, shared, edits>>
    BY DEF CopyInv, TypeOK, Store, Goto, copies, bounds
  <1>2. \A q \in Process : InHand(q)'
    BY <1>1, InHandAfter DEF Placing, Steps, InstallSteps
  <1>3. Unshared'
    BY <1>1, FreshIsFree DEF Unshared, TypeOK
  <1>4. pc'[p] = "link" /\ \A q \in Process \ {p} : pc'[q] = pc[q]
    BY <1>1 DEF TypeOK
  <1>5. Noticed'
    BY <1>1, <1>4 DEF Noticed, Copying
  <1>6. Whole => \A g \in Hash \ shared' : object'[g] \notin bad'
    BY <1>1 DEF Whole, TypeOK
  <1>7. Whole => \A q \in Process : op'[q].file \notin shared' => Copied(q)'
    BY <1>1, <1>4 DEF Whole, Copied
  <1>8. edits' = 0 => Whole'
    BY <1>1, <1>6, <1>7 DEF CopyInv, Whole
  <1> QED
    BY <1>2, <1>3, <1>5, <1>8 DEF CopyInv

\* Who truncates the temporary file spoils no object, and no other copy of a hash that
\* is not shared.
LEMMA CopyTempKeeps ==
  ASSUME CopyInv, TypeOK', NEW p \in Process, CopyTemp(p)
  PROVE  CopyInv'
  <1> DEFINE h == op[p].file
  <1>1. /\ TypeOK /\ Unshared /\ Noticed /\ None \notin bad
        /\ pc[p] = "store" /\ pc' = [pc EXCEPT ![p] = "copy"]
        /\ UNCHANGED <<object, op, edits>>
        /\ shared' = shared \cup {g \in Hash : g = h /\ \E q \in Process \ {p} : Copying(q) /\ op[q].file = g}
    BY DEF CopyInv, TypeOK, CopyTemp, Goto, bounds, Copying
  <1>2. \A q \in Process : InHand(q)'
    BY <1>1, InHandAfter DEF Placing, Steps, InstallSteps
  <1>3. h \in Hash
    BY <1>1 DEF CopyInv, InHand, Placing
  <1>4. PICK i \in Inode :
          /\ temp[h] = None => Free # {} /\ i = Fresh
          /\ temp[h] # None => i = temp[h]
          /\ temp' = [temp EXCEPT ![h] = i] /\ bad' = bad \cup {i}
          /\ writing' = [q \in Process |-> IF q = p THEN i
                                           ELSE IF writing[q] = i THEN None ELSE writing[q]]
    BY DEF CopyTemp
  <1>5. /\ \A g \in Hash : i # object[g]
        /\ \A g \in Hash \ {h} : i # temp[g]
    BY <1>1, <1>3, <1>4, FreshIsFree DEF Unshared
  <1>6. Unshared'
    BY <1>1, <1>4, <1>5 DEF Unshared, TypeOK
  <1>7. pc'[p] = "copy" /\ \A q \in Process \ {p} : pc'[q] = pc[q]
    BY <1>1 DEF TypeOK
  <1>8. \A q \in Process \ {p} : Copying(q) /\ op[q].file = h => h \in shared'
    BY <1>1, <1>3
  <1>9. Noticed'
    BY <1>1, <1>7, <1>8 DEF Noticed, Copying
  <1>10. Whole => \A g \in Hash \ shared' : object'[g] \notin bad'
    BY <1>1, <1>4, <1>5 DEF Whole
  <1>11. ASSUME Whole, NEW q \in Process, op'[q].file \notin shared' PROVE Copied(q)'
    <2>1. CASE q = p
      <3>1. temp'[h] = i /\ writing'[p] = i
        BY <1>1, <1>3, <1>4 DEF TypeOK
      <3> QED
        BY <1>1, <1>7, <2>1, <3>1 DEF Copied
    <2>2. CASE q # p /\ Copying(q)
      <3>1. op[q].file \in Hash \ {h} /\ Copied(q)
        BY <1>1, <1>8, <1>11, <2>2 DEF CopyInv, InHand, Copying, Placing, Whole
      <3>2. temp'[op[q].file] = temp[op[q].file] /\ temp[op[q].file] # i
        BY <1>1, <1>4, <1>5, <3>1 DEF TypeOK
      <3>3. writing'[q] = IF writing[q] = i THEN None ELSE writing[q]
        BY <1>4, <2>2
      <3> QED
        BY <1>1, <1>4, <1>7, <2>2, <3>1, <3>2, <3>3 DEF Copied
    <2>3. CASE q # p /\ ~Copying(q)
      BY <1>7, <2>3 DEF Copied, Copying
    <2> QED
      BY <2>1, <2>2, <2>3
  <1>12. edits' = 0 => Whole'
    BY <1>1, <1>10, <1>11 DEF CopyInv, Whole
  <1> QED
    BY <1>2, <1>6, <1>9, <1>12 DEF CopyInv

\* What one process alone has filled is whole.
LEMMA EndCopyKeeps ==
  ASSUME CopyInv, TypeOK', NEW p \in Process, EndCopy(p)
  PROVE  CopyInv'
  <1>1. /\ TypeOK /\ Unshared /\ Noticed /\ None \notin bad
        /\ pc[p] = "copy" /\ pc' = [pc EXCEPT ![p] = "publish"]
        /\ bad' = bad \ {writing[p]} /\ writing' = [writing EXCEPT ![p] = None]
        /\ UNCHANGED <<object, temp, op, shared, edits>>
    BY DEF CopyInv, TypeOK, EndCopy, Goto, bounds
  <1>2. \A q \in Process : InHand(q)'
    BY <1>1, InHandAfter DEF Placing, Steps, InstallSteps
  <1>3. Unshared'
    BY <1>1 DEF Unshared
  <1>4. pc'[p] = "publish" /\ \A q \in Process \ {p} : pc'[q] = pc[q] /\ writing'[q] = writing[q]
    BY <1>1 DEF TypeOK
  <1>5. Noticed'
    BY <1>1, <1>4 DEF Noticed, Copying
  <1>6. Whole => \A g \in Hash \ shared' : object'[g] \notin bad'
    BY <1>1 DEF Whole
  <1>7. Whole => \A q \in Process : op'[q].file \notin shared' => Copied(q)'
    BY <1>1, <1>4 DEF Whole, Copied
  <1>8. edits' = 0 => Whole'
    BY <1>1, <1>6, <1>7 DEF CopyInv, Whole
  <1> QED
    BY <1>2, <1>3, <1>5, <1>8 DEF CopyInv

\* So the object it becomes is.
LEMMA PublishKeeps ==
  ASSUME CopyInv, TypeOK', NEW p \in Process, PublishObject(p)
  PROVE  CopyInv'
  <1> DEFINE h == op[p].file
  <1>1. /\ TypeOK /\ Unshared /\ Noticed /\ None \notin bad
        /\ pc[p] = "publish" /\ pc' = [pc EXCEPT ![p] = "discard"]
        /\ object' = [object EXCEPT ![h] = IF temp[h] = None THEN object[h] ELSE temp[h]]
        /\ temp' = [temp EXCEPT ![h] = None]
        /\ UNCHANGED <<bad, writing, op, shared, edits>>
    BY DEF CopyInv, TypeOK, PublishObject, Goto, bounds
  <1>2. \A q \in Process : InHand(q)'
    BY <1>1, InHandAfter DEF Placing, Steps, InstallSteps
  <1>3. h \in Hash
    BY <1>1 DEF CopyInv, InHand, Placing
  <1>4. Unshared'
    BY <1>1, <1>3 DEF Unshared, TypeOK
  <1>5. pc'[p] = "discard" /\ \A q \in Process \ {p} : pc'[q] = pc[q]
    BY <1>1 DEF TypeOK
  <1>6. Noticed'
    BY <1>1, <1>5 DEF Noticed, Copying
  <1>7. Whole => \A g \in Hash \ shared' : object'[g] \notin bad'
    BY <1>1, <1>3 DEF Whole, Copied, TypeOK
  <1>8. \A g \in Hash : temp'[g] \in {None, temp[g]}
    BY <1>1 DEF TypeOK
  <1>9. ASSUME Whole, NEW q \in Process, op'[q].file \notin shared' PROVE Copied(q)'
    <2>1. Copied(q) /\ (Copying(q) => op[q].file \in Hash)
      BY <1>1, <1>9 DEF CopyInv, Whole, InHand, Copying, Placing
    <2> QED
      BY <1>1, <1>5, <1>8, <2>1 DEF Copied, Copying
  <1>10. edits' = 0 => Whole'
    BY <1>1, <1>7, <1>9 DEF CopyInv, Whole
  <1> QED
    BY <1>2, <1>4, <1>6, <1>10 DEF CopyInv

\* A link or a copy into an install leaves the objects as they are.
LEMMA MaterializeKeeps ==
  ASSUME CopyInv, TypeOK', NEW p \in Process, Materialize(p)
  PROVE  CopyInv'
  <1>1. TypeOK /\ op[p] \in OpType /\ None \notin bad
    BY DEF CopyInv, TypeOK
  <1>2. /\ pc[p] = "link" /\ UNCHANGED <<object, temp, writing, shared, edits>>
        /\ pc'[p] = "place" /\ \A q \in Process \ {p} : pc'[q] = pc[q] /\ op'[q] = op[q]
    BY <1>1 DEF Materialize, Goto, TypeOK, copies, bounds
  <1>3. Unshared'
    BY <1>2 DEF CopyInv, Unshared
  <1>4. \A q \in Process : InHand(q)'
    BY <1>2 DEF CopyInv, InHand, Placing
  <1>5. Noticed'
    BY <1>2 DEF CopyInv, Noticed, Copying
  <1>6. \A i \in bad' : i \in bad \/ (Free # {} /\ i = Fresh)
    BY DEF Materialize
  <1>7. \A g \in Hash : /\ object[g] \notin bad => object[g] \notin bad'
                        /\ temp[g] \notin bad => temp[g] \notin bad'
    BY <1>6, FreshIsFree
  <1>8. Whole => \A g \in Hash \ shared' : object'[g] \notin bad'
    BY <1>2, <1>7 DEF Whole
  <1>9. ASSUME Whole, NEW q \in Process, op'[q].file \notin shared' PROVE Copied(q)'
    <2>1. CASE q = p
      BY <1>2, <2>1 DEF Copied
    <2>2. CASE q # p
      <3>1. Copied(q) /\ (Copying(q) => op[q].file \in Hash)
        BY <1>2, <1>9, <2>2 DEF CopyInv, Whole, InHand, Copying, Placing
      <3> QED
        BY <1>2, <1>7, <2>2, <3>1 DEF Copied, Copying
    <2> QED
      BY <2>1, <2>2
  <1>10. edits' = 0 => Whole'
    BY <1>2, <1>8, <1>9 DEF CopyInv, Whole
  <1> QED
    BY <1>3, <1>4, <1>5, <1>10 DEF CopyInv

\* Every step keeps the objects of unshared hashes whole.
LEMMA CopyStep == ASSUME CopyInv, [Next]_vars PROVE CopyInv'
  <1>1. TypeOK /\ TypeOK'
    BY TypeStep DEF CopyInv
  <1> USE DEF Goto, copies, disk, bounds
  <1>2. ASSUME UNCHANGED <<writing, bad, shared, edits>>,
               \A h \in Hash : object'[h] \in {object[h], None} /\ temp'[h] \in {temp[h], None},
               NEW p \in Process, \A q \in Process \ {p} : pc'[q] = pc[q] /\ op'[q] = op[q],
               pc'[p] \notin {"copy", "publish"}, pc'[p] \in Placing => op'[p].file \in Hash
        PROVE  CopyInv'
    <2>1. \A q \in Process : \/ ~Copying(q)' /\ (pc'[q] \in Placing => op'[q].file \in Hash)
                             \/ pc'[q] = pc[q] /\ op'[q].file = op[q].file
      BY <1>2 DEF Copying
    <2> QED
      BY <1>1, <1>2, <2>1, StoreUntouched
  <1>3. ASSUME NEW p \in Process, Return(p), UNCHANGED <<temp, writing, bad, shared, edits, object>>
        PROVE  CopyInv'
    BY <1>1, <1>2, <1>3, ReturnEffect DEF Placing
  <1>4. ASSUME NEW p \in Process, NEW s \in {"clear", "lock", "rmlock", "remove", "mark"}, NEW r,
               Begin(p, s, r), UNCHANGED <<disk, history, kills, edits>>
        PROVE  CopyInv'
    <2>1. pc'[p] = s /\ \A q \in Process \ {p} : pc'[q] = pc[q] /\ op'[q] = op[q]
      BY <1>1, <1>4 DEF Begin, TypeOK
    <2>2. pc'[p] \notin Placing
      BY <2>1 DEF Placing
    <2> QED
      BY <1>2, <1>4, <2>1, <2>2 DEF Placing
  <1>5. ASSUME NEW p \in Installer, InstallStep(p) PROVE CopyInv'
    <2>0. p \in Process /\ op[p] \in OpType /\ InHand(p)
      BY <1>1 DEF TypeOK, Process, CopyInv
    <2> DEFINE Plain == /\ \A q \in Process \ {p} : pc'[q] = pc[q] /\ op'[q] = op[q]
                        /\ pc'[p] \notin Placing /\ UNCHANGED <<temp, writing, bad, shared, edits, object>>
    <2>1. Plain => CopyInv'
      BY <1>2, <2>0 DEF Placing
    <2>2. CASE ClearMarker(p) \/ AcquireLock(p) \/ CleanResidue(p) \/ UseCached(p) \/ ReadReceipt(p)
      <3>1. Plain
        BY <1>1, <2>0, <2>2 DEF ClearMarker, AcquireLock, CleanResidue, UseCached, ReadReceipt,
             TypeOK, Placing
      <3> QED
        BY <2>1, <3>1
    <2>3. CASE \/ TruncateManifest(p) \/ WriteManifest(p) \/ TruncateReceipt(p)
      <3>1. Plain
        BY <1>1, <2>0, <2>3 DEF TruncateManifest, WriteManifest, TruncateReceipt, TypeOK, Placing
      <3> QED
        BY <2>1, <3>1
    <2>4. CASE Accept(p) \/ Download(p) \/ Reject(p)
      <3>1. Plain
        BY <1>1, <2>0, <2>4 DEF Accept, Download, Reject, TypeOK, Placing
      <3> QED
        BY <2>1, <3>1
    <2>5. CASE KeepReceipt(p) \/ GiveUp(p) \/ Commit(p) \/ ObjectVanished(p) \/ HashFails(p)
      BY <1>3, <2>0, <2>5 DEF KeepReceipt, GiveUp, Commit, ObjectVanished, HashFails
    <2>6. CASE AlreadyComplete(p) \/ WriteReceipt(p)
      <3>1. UNCHANGED <<temp, writing, bad, shared, edits, object>>
        BY <2>6 DEF AlreadyComplete, WriteReceipt
      <3>2. CASE Return(p)
        BY <1>3, <2>0, <3>1, <3>2
      <3>3. CASE /\ UNCHANGED op
                 /\ Goto(p, "check", "evidence") \/ Goto(p, "describe", "commit")
        <4>1. Plain
          BY <1>1, <2>0, <3>1, <3>3 DEF TypeOK, Placing
        <4> QED
          BY <2>1, <4>1
      <3> QED
        BY <2>6, <3>2, <3>3 DEF AlreadyComplete, WriteReceipt
    <2>7. ASSUME NEW h \in Hash, Ingest(p, h) PROVE CopyInv'
      <3>1. /\ \A q \in Process \ {p} : pc'[q] = pc[q] /\ op'[q] = op[q]
            /\ pc'[p] \in {"hash", "store"} /\ UNCHANGED <<temp, writing, bad, shared, edits, object>>
        BY <1>1, <2>0, <2>7 DEF Ingest, TypeOK
      <3>2. op'[p].file = h
        <4>1. op' = [op EXCEPT ![p] = [op[p] EXCEPT !.file = h, !.todo = op[p].todo \ {h}]]
          BY <1>1, <2>0, <2>7 DEF Ingest, TypeOK
        <4> QED
          BY <1>1, <2>0, <4>1, FieldsAfter DEF TypeOK
      <3> QED
        BY <1>2, <2>0, <3>1, <3>2
    <2>8. CASE ReuseObject(p) \/ RejectObject(p) \/ DropObject(p) \/ DiscardTemp(p)
      <3>1. /\ \A q \in Process \ {p} : pc'[q] = pc[q]
            /\ pc[p] \in {"hash", "drop", "discard"} /\ pc'[p] \in {"link", "drop", "store"}
            /\ UNCHANGED <<writing, bad, shared, edits, op>>
        BY <1>1, <2>0, <2>8 DEF ReuseObject, RejectObject, DropObject, DiscardTemp, TypeOK
      <3>2. \A h \in Hash : object'[h] \in {object[h], None} /\ temp'[h] \in {temp[h], None}
        <4>1. CASE ReuseObject(p) \/ RejectObject(p)
          BY <4>1 DEF ReuseObject, RejectObject
        <4>2. CASE DropObject(p)
          <5>1. PICK left \in {None, object[op[p].file]} : object' = [object EXCEPT ![op[p].file] = left]
            BY <4>2 DEF DropObject
          <5>2. temp' = temp /\ object \in [Hash -> Inode \cup {None}]
            BY <1>1, <4>2 DEF DropObject, TypeOK
          <5> QED
            BY <5>1, <5>2
        <4>3. CASE DiscardTemp(p)
          BY <1>1, <4>3 DEF DiscardTemp, TypeOK
        <4> QED
          BY <2>8, <4>1, <4>2, <4>3
      <3>3. op[p].file \in Hash
        BY <2>0, <3>1 DEF InHand, Placing
      <3> QED
        BY <1>2, <2>0, <3>1, <3>2, <3>3
    <2> HIDE DEF Plain
    <2> QED
      BY <1>1, <1>5, <2>0, <2>2, <2>3, <2>4, <2>5, <2>6, <2>7, <2>8, StoreKeeps, CopyTempKeeps,
         EndCopyKeeps, PublishKeeps, MaterializeKeeps DEF InstallStep
  <1>6. ASSUME NEW p \in Process, RemoveStep(p) PROVE CopyInv'
    <2>1. ASSUME NEW e \in Hash \cup Metadata, RemoveEntry(p, e) PROVE CopyInv'
      <3>1. /\ \A q \in Process \ {p} : pc'[q] = pc[q] /\ op'[q] = op[q]
            /\ pc'[p] = "remove" /\ UNCHANGED <<temp, writing, bad, shared, edits, object>>
        BY <1>1, <2>1 DEF RemoveEntry, TypeOK
      <3> QED
        BY <1>2, <3>1 DEF Placing
    <2>2. CASE FailRemove(p)
      BY <1>3, <2>2 DEF FailRemove
    <2>3. CASE AcquireRemovalLock(p) \/ FinishRemove(p)
      <3>1. /\ \A q \in Process \ {p} : pc'[q] = pc[q] /\ op'[q] = op[q]
            /\ pc'[p] \notin Placing /\ UNCHANGED <<temp, writing, bad, shared, edits, object>>
        BY <1>1, <2>3 DEF AcquireRemovalLock, FinishRemove, TypeOK, Placing
      <3> QED
        BY <1>2, <3>1 DEF Placing
    <2> QED
      BY <1>6, <2>1, <2>2, <2>3 DEF RemoveStep
  <1>7. ASSUME NEW p \in Process, CollectStep(p) PROVE CopyInv'
    <2>1. ASSUME NEW v \in Version, Mark(p, v) PROVE CopyInv'
      <3>1. /\ \A q \in Process \ {p} : pc'[q] = pc[q] /\ op'[q] = op[q]
            /\ pc'[p] = "mark" /\ UNCHANGED <<temp, writing, bad, shared, edits, object>>
        BY <1>1, <2>1 DEF Mark, TypeOK
      <3> QED
        BY <1>2, <3>1 DEF Placing
    <2>2. CASE RefuseCollect(p) \/ FinishCollect(p)
      BY <1>3, <2>2 DEF RefuseCollect, FinishCollect
    <2>3. CASE BeginSweep(p)
      <3>1. /\ \A q \in Process \ {p} : pc'[q] = pc[q] /\ op'[q] = op[q]
            /\ pc'[p] = "sweep" /\ UNCHANGED <<temp, writing, bad, shared, edits, object>>
        BY <1>1, <2>3 DEF BeginSweep, TypeOK
      <3> QED
        BY <1>2, <3>1 DEF Placing
    <2>4. ASSUME NEW h \in Hash, Sweep(p, h) PROVE CopyInv'
      <3>1. PICK t \in {None, temp[h]} : temp' = [temp EXCEPT ![h] = t]
        BY <2>4 DEF Sweep
      <3>2. \A g \in Hash : temp'[g] \in {None, temp[g]} /\ object'[g] \in {None, object[g]}
        BY <1>1, <2>4, <3>1 DEF Sweep, TypeOK
      <3>3. /\ pc' = pc /\ UNCHANGED <<writing, bad, shared, edits>> /\ pc[p] = "sweep"
            /\ \A q \in Process \ {p} : op'[q] = op[q]
        BY <1>1, <2>4 DEF Sweep, TypeOK
      <3> QED
        BY <1>2, <3>2, <3>3 DEF Placing
    <2> QED
      BY <1>7, <2>1, <2>2, <2>3, <2>4 DEF CollectStep
  <1>8. ASSUME NEW p \in Process, Kill(p) PROVE CopyInv'
    BY <1>3, <1>8 DEF Kill
  <1>9. ASSUME NEW v \in Version, NEW h \in Hash, Edit(v, h) PROVE CopyInv'
    <2>1. edits' > 0 /\ edits' # 0 /\ UNCHANGED <<pc, object, temp, writing, shared>>
      BY <1>1, <1>9 DEF Edit, TypeOK
    <2>2. \A q \in Process : op'[q].file = op[q].file
      <3>1. TAKE q \in Process
      <3>2. op'[q] = op[q] \/ op'[q] = [op[q] EXCEPT !.edited = TRUE]
        BY <1>9 DEF Edit
      <3>3. op[q] \in OpType
        BY <1>1 DEF TypeOK
      <3> QED
        BY <3>2, <3>3, FieldsAfter
    <2>3. \A q \in Process : InHand(q)'
      BY <2>1, <2>2 DEF CopyInv, InHand
    <2>4. Unshared' /\ Noticed'
      BY <2>1, <2>2 DEF CopyInv, Unshared, Noticed, Copying
    <2> QED
      BY <1>1, <2>1, <2>3, <2>4 DEF CopyInv
  <1>10. CASE UNCHANGED vars \/ \E v \in Version : EvictArchive(v)
    BY <1>1, <1>10, StoreUntouched DEF vars, EvictArchive
  <1>11. ASSUME NEW p \in Installer, NEW v \in Version, BeginInstall(p, v) PROVE CopyInv'
    BY <1>4, <1>11 DEF BeginInstall, Process
  <1>12. ASSUME NEW p \in Remover, NEW v \in Version, BeginRemove(p, v) PROVE CopyInv'
    BY <1>4, <1>12 DEF BeginRemove, Process
  <1>13. ASSUME NEW p \in Collector, BeginCollect(p) PROVE CopyInv'
    BY <1>4, <1>13 DEF BeginCollect, Process
  <1> QED
    BY <1>5, <1>6, <1>7, <1>8, <1>9, <1>10, <1>11, <1>12, <1>13 DEF Next, Process

\* The object of a hash whose temporary name no two ingestions had in hand at once is
\* never there in part, for any processes, wherever they are killed and however many
\* removals and collections there are.
THEOREM ObjectsAreWhole == Spec => []NoPartialObject
  <1>1. Init => CopyInv
    <2>1. Init => TypeOK
      BY DEF Init, TypeOK, Steps, Idle, OpType
    <2>2. ASSUME Init PROVE Noticed /\ Unshared /\ \A p \in Process : InHand(p)
      BY <2>2 DEF Init, Noticed, Copying, Unshared, InHand, Placing
    <2>3. Init => Whole
      BY DEF Init, Whole, Copied
    <2> QED
      BY <2>1, <2>2, <2>3 DEF CopyInv
  <1>2. CopyInv /\ [Next]_vars => CopyInv'
    BY CopyStep
  <1>3. CopyInv => NoPartialObject
    BY DEF CopyInv, Whole, NoPartialObject
  <1> QED
    BY <1>1, <1>2, <1>3, PTL DEF Spec

-----------------------------------------------------------------------------
(* A reinstall repairs *)

Active == {"place", "manifest", "receipt", "describe", "commit"} \cup Placing

\* The object p is about to link is whole, and so is what p has placed, unless an
\* uninstall has spoilt the directory.
Sound(p) ==
  ~op[p].edited =>
    /\ pc[p] = "link" => object[op[p].file] \notin bad
    /\ op[p].ver \notin spoilt /\ pc[p] \in Active =>
       \A h \in Tree[op[p].ver] \ (op[p].todo \cup {op[p].file}) :
         tree[op[p].ver][h] \in Inode \ bad

RepairInv ==
  /\ \A p \in Process : op[p].mode # "symlink" /\ pc[p] \notin {"copy", "publish", "discard"}
  /\ \A p \in Process : Sound(p)

\* No object that is whole and no installed file that is becomes bad.
NothingSpoilt ==
  /\ \A h \in Hash : object[h] \notin bad => object'[h] \notin bad'
  /\ \A w \in Version, h \in Hash : tree[w][h] \in Inode \ bad => tree[w][h] \notin bad'

\* The files of a version that is not spoilt are those it held, nor was it before.
TreeKept(w) == w \notin spoilt' => w \notin spoilt /\ tree'[w] = tree[w]

\* A step of p that spoils nothing and keeps to the directories p has locked leaves
\* what the invariant says of the others.
LEMMA SoundOfOthers ==
  ASSUME IInv, RepairInv, NEW p \in Process, NEW q \in Process \ {p},
         pc'[q] = pc[q], op'[q] = op[q], NothingSpoilt,
         \A w \in Version : lock[w] = p \/ TreeKept(w)
  PROVE  Sound(q)'
  <1>1. Sound(q) /\ Holds(q) /\ Progresses(q)
    BY DEF IInv, RepairInv, HoldersHold, InstallProgress
  <1>2. pc[q] = "link" => op[q].file \in Hash
    BY <1>1 DEF Progresses, Placing
  <1>3. pc[q] \in Active => op[q].ver \in Version /\ TreeKept(op[q].ver)
    BY <1>1 DEF Holds, Active, Building, Placing
  <1>4. \A v \in Version : Tree[v] \subseteq Hash
    OBVIOUS
  <1>5. ~op[q].edited /\ pc[q] = "link" => object'[op[q].file] \notin bad'
    BY <1>1, <1>2 DEF Sound, NothingSpoilt
  <1>6. ~op[q].edited /\ op[q].ver \notin spoilt' /\ pc[q] \in Active =>
          \A h \in Tree[op[q].ver] \ (op[q].todo \cup {op[q].file}) :
            tree'[op[q].ver][h] \in Inode \ bad'
    BY <1>1, <1>3, <1>4 DEF Sound, NothingSpoilt, TreeKept
  <1> QED
    BY <1>5, <1>6 DEF Sound

\* So such a step keeps the invariant if it keeps p's own part.
LEMMA RepairOfOne ==
  ASSUME IInv, RepairInv, NEW p \in Process, NothingSpoilt,
         \A q \in Process \ {p} : pc'[q] = pc[q] /\ op'[q] = op[q],
         \A w \in Version : lock[w] = p \/ TreeKept(w),
         op'[p].mode # "symlink", pc'[p] \notin {"copy", "publish", "discard"}, Sound(p)'
  PROVE  RepairInv'
  BY SoundOfOthers DEF RepairInv

\* A process that is not placing files has nothing to keep.
LEMMA RepairAway ==
  ASSUME IInv, RepairInv, NEW p \in Process, NothingSpoilt,
         \A q \in Process \ {p} : pc'[q] = pc[q] /\ op'[q] = op[q],
         \A w \in Version : lock[w] = p \/ TreeKept(w),
         op'[p].mode # "symlink", pc'[p] \notin Active
  PROVE  RepairInv'
  <1>1. Sound(p)' /\ pc'[p] \notin {"copy", "publish", "discard"}
    BY DEF Sound, Active, Placing
  <1> QED
    BY <1>1, RepairOfOne

\* What is not written is not spoilt.
LEMMA Unspoilt ==
  ASSUME TypeOK, bad' = bad, \A h \in Hash : object'[h] \in {object[h], None}
  PROVE  NothingSpoilt
  BY DEF NothingSpoilt, TypeOK

\* A step from one phase of an install to the next that places no file.
LEMMA RepairOn ==
  ASSUME IInv, RepairInv, NEW p \in Process, UNCHANGED <<object, bad, tree, op, spoilt>>,
         NEW s, pc' = [pc EXCEPT ![p] = s],
         pc[p] \in {"place", "manifest", "receipt", "describe"},
         s \in {"manifest", "receipt", "describe", "commit"}
  PROVE  RepairInv'
  <1>1. TypeOK /\ Sound(p) /\ op[p].mode # "symlink"
    BY DEF IInv, RepairInv
  <1>2. pc'[p] = s /\ \A q \in Process \ {p} : pc'[q] = pc[q] /\ op'[q] = op[q]
    BY <1>1 DEF TypeOK
  <1>3. NothingSpoilt
    BY <1>1, Unspoilt
  <1>4. Sound(p)'
    BY <1>1, <1>2 DEF Sound, Active
  <1>5. \A w \in Version : TreeKept(w)
    BY DEF TreeKept
  <1> QED
    BY <1>1, <1>2, <1>3, <1>4, <1>5, RepairOfOne

\* The steps that fill the store and the directory.
LEMMA IngestRepairs ==
  ASSUME IInv, RepairInv, NEW p \in Process, NEW h \in Hash, Ingest(p, h)
  PROVE  RepairInv'
  <1>1. TypeOK /\ Sound(p) /\ Progresses(p) /\ op[p] \in OpType /\ op[p].mode # "symlink"
    BY DEF IInv, RepairInv, InstallProgress, TypeOK
  <1>2. /\ pc[p] = "place" /\ h \in op[p].todo /\ UNCHANGED <<tree, bad, object, spoilt>>
        /\ pc'[p] \in {"store", "hash"}
        /\ \A q \in Process \ {p} : pc'[q] = pc[q] /\ op'[q] = op[q]
    BY <1>1 DEF Ingest, TypeOK, disk
  <1>3. op' = [op EXCEPT ![p] = [op[p] EXCEPT !.file = h, !.todo = op[p].todo \ {h}]]
    BY <1>1 DEF Ingest, TypeOK
  <1>4. /\ op'[p].ver = op[p].ver /\ op'[p].todo = op[p].todo \ {h} /\ op'[p].file = h
        /\ op'[p].mode = op[p].mode /\ op'[p].edited = op[p].edited
    BY <1>1, <1>3, FieldsAfter, FieldsKept DEF TypeOK
  <1>5. NothingSpoilt
    BY <1>1, <1>2, Unspoilt
  <1>6. op[p].file = None
    BY <1>1, <1>2 DEF Progresses, Placing
  <1>7. ~op[p].edited /\ op[p].ver \notin spoilt =>
          \A g \in Tree[op[p].ver] \ (op[p].todo \cup {None}) : tree[op[p].ver][g] \in Inode \ bad
    BY <1>1, <1>2, <1>6 DEF Sound, Active
  <1>8. Sound(p)'
    <2>1. \A g \in Tree[op[p].ver] : g # h /\ g \notin op[p].todo \ {h} => g \notin op[p].todo
      OBVIOUS
    <2>2. op[p].ver \in Version
      BY <1>2 DEF IInv, HoldersHold, Holds, Building, Placing
    <2>3. \A g \in Tree[op[p].ver] : g # None
      BY <2>2
    <2> QED
      BY <1>2, <1>4, <1>7, <2>1, <2>3 DEF Sound
  <1>9. pc'[p] \notin {"copy", "publish", "discard"} /\ \A w \in Version : TreeKept(w)
    BY <1>2 DEF TreeKept
  <1> QED
    BY <1>1, <1>2, <1>4, <1>5, <1>8, <1>9, RepairOfOne

\* An object is linked if its bytes are its hash's; another is dropped.
LEMMA CheckRepairs ==
  ASSUME IInv, RepairInv, NEW p \in Process, ReuseObject(p) \/ RejectObject(p) \/ DropObject(p)
  PROVE  RepairInv'
  <1>1. TypeOK /\ Sound(p) /\ op[p].mode # "symlink"
    BY DEF IInv, RepairInv
  <1>2. /\ pc[p] \in {"hash", "drop"} /\ pc'[p] \in {"link", "drop", "store"}
        /\ pc'[p] = "link" => object[op[p].file] \notin bad /\ object' = object
        /\ \A q \in Process \ {p} : pc'[q] = pc[q]
        /\ UNCHANGED <<tree, bad, op, spoilt>>
    BY <1>1 DEF ReuseObject, RejectObject, DropObject, HashIs, Goto, TypeOK, disk
  <1>3. \A g \in Hash : object'[g] \in {object[g], None}
    <2>1. CASE ReuseObject(p) \/ RejectObject(p)
      BY <2>1 DEF ReuseObject, RejectObject, disk
    <2>2. CASE DropObject(p)
      <3>1. PICK left \in {None, object[op[p].file]} : object' = [object EXCEPT ![op[p].file] = left]
        BY <2>2 DEF DropObject
      <3>2. object \in [Hash -> Inode \cup {None}]
        BY <1>1 DEF TypeOK
      <3> QED
        BY <3>1, <3>2
    <2> QED
      BY <2>1, <2>2
  <1>4. NothingSpoilt
    BY <1>1, <1>2, <1>3, Unspoilt
  <1>5. Sound(p)'
    BY <1>1, <1>2 DEF Sound, Active, Placing
  <1>6. pc'[p] \notin {"copy", "publish", "discard"} /\ \A w \in Version : TreeKept(w)
    BY <1>2 DEF TreeKept
  <1> QED
    BY <1>1, <1>2, <1>4, <1>5, <1>6, RepairOfOne

\* What is renamed into the store is whole and nobody's before.
LEMMA StoreRepairs ==
  ASSUME IInv, RepairInv, NEW p \in Process, Store(p)
  PROVE  RepairInv'
  <1> DEFINE h == op[p].file
  <1>1. TypeOK /\ Sound(p) /\ Progresses(p) /\ op[p].mode # "symlink"
    BY DEF IInv, RepairInv, InstallProgress
  <1>2. /\ pc[p] = "store" /\ pc'[p] = "link" /\ UNCHANGED <<tree, op, spoilt>> /\ Free # {}
        /\ object' = [object EXCEPT ![h] = Fresh] /\ bad' = bad \ {Fresh}
        /\ \A q \in Process \ {p} : pc'[q] = pc[q]
    BY <1>1 DEF Store, Goto, TypeOK
  <1>3. h \in Hash
    BY <1>1, <1>2 DEF Progresses, Placing
  <1>4. NothingSpoilt
    BY <1>1, <1>2 DEF NothingSpoilt, TypeOK
  <1>5. Sound(p)'
    BY <1>1, <1>2, <1>3 DEF Sound, Active, Placing, TypeOK
  <1>6. \A w \in Version : TreeKept(w)
    BY <1>2 DEF TreeKept
  <1> QED
    BY <1>1, <1>2, <1>4, <1>5, <1>6, RepairOfOne

\* A whole object makes a whole file, linked or copied.
LEMMA MaterializeRepairs ==
  ASSUME IInv, RepairInv, NEW p \in Process, Materialize(p)
  PROVE  RepairInv'
  <1> DEFINE h == op[p].file  v == op[p].ver
  <1>1. /\ TypeOK /\ Sound(p) /\ Progresses(p) /\ Holds(p) /\ op[p] \in OpType
        /\ op[p].mode # "symlink" /\ None \notin bad
    BY DEF IInv, RepairInv, InstallProgress, HoldersHold, TypeOK
  <1>2. /\ pc[p] = "link" /\ pc'[p] = "place" /\ UNCHANGED <<object, spoilt>>
        /\ \A q \in Process \ {p} : pc'[q] = pc[q]
    BY <1>1 DEF Materialize, Goto, TypeOK
  <1>3. op' = [op EXCEPT ![p] = [op[p] EXCEPT !.file = None]]
    BY <1>1 DEF Materialize, TypeOK
  <1>4. /\ op'[p].ver = v /\ op'[p].todo = op[p].todo /\ op'[p].file = None
        /\ op'[p].mode = op[p].mode /\ op'[p].edited = op[p].edited
        /\ \A q \in Process \ {p} : op'[q] = op[q]
    BY <1>1, <1>3, FieldsAfter, FieldsKept DEF TypeOK
  <1>5. h \in Hash /\ v \in Version /\ lock[v] = p
    BY <1>1, <1>2 DEF Progresses, Holds, Building, Placing
  <1>6. PICK i \in Inode :
          /\ tree' = [tree EXCEPT ![v][h] = i]
          /\ object[h] \notin bad => i \notin bad'
          /\ bad' = bad \/ (Free # {} /\ bad' \in {bad \cup {Fresh}, bad \ {Fresh}})
    <2>1. CASE object[h] # None /\ tree' = [tree EXCEPT ![v][h] = object[h]] /\ UNCHANGED bad
      <3>1. object[h] \in Inode
        BY <1>1, <1>5, <2>1 DEF TypeOK
      <3> QED
        BY <2>1, <3>1
    <2>2. CASE /\ Free # {} /\ tree' = [tree EXCEPT ![v][h] = Fresh]
               /\ bad' = IF object[h] \in bad THEN bad \cup {Fresh} ELSE bad \ {Fresh}
      BY <2>2, FreshIsFree
    <2> QED
      BY <1>1, <2>1, <2>2 DEF Materialize
  <1>7. NothingSpoilt
    BY <1>2, <1>6, FreshIsFree DEF NothingSpoilt
  <1>8. /\ tree'[v][h] = i /\ \A g \in Hash \ {h} : tree'[v][g] = tree[v][g]
        /\ \A w \in Version \ {v} : tree'[w] = tree[w]
    BY <1>1, <1>5, <1>6 DEF TypeOK
  <1>9. Sound(p)'
    <2> SUFFICES ASSUME ~op[p].edited, op[p].ver \notin spoilt, NEW g \in Tree[v] \ (op[p].todo \cup {None})
                 PROVE  tree'[v][g] \in Inode \ bad'
      BY <1>2, <1>4 DEF Sound
    <2>1. g \in Hash
      BY <1>5
    <2>2. CASE g = h
      BY <1>1, <1>2, <1>6, <1>8, <2>2 DEF Sound
    <2>3. CASE g # h
      <3>1. tree[v][g] \in Inode \ bad
        BY <1>1, <1>2, <2>3 DEF Sound, Active, Placing
      <3> QED
        BY <1>5, <1>7, <1>8, <2>1, <2>3, <3>1 DEF NothingSpoilt
    <2> QED
      BY <2>2, <2>3
  <1>10. \A w \in Version : lock[w] = p \/ TreeKept(w)
    BY <1>2, <1>5, <1>8 DEF TreeKept
  <1> QED
    BY <1>1, <1>2, <1>4, <1>7, <1>9, <1>10, RepairOfOne

\* Every step keeps what installs have placed whole, but for edits they know of.
LEMMA RepairStep ==
  ASSUME SameDevice, "symlink" \notin Modes, IInv, RepairInv, [Next]_vars
  PROVE  RepairInv'
  <1>1. /\ TypeOK /\ TypeOK' /\ \A p \in Process : op[p] \in OpType /\ op[p].mode # "symlink"
        /\ \A p \in Process : Holds(p) /\ Progresses(p)
    BY TypeStep DEF IInv, RepairInv, TypeOK, HoldersHold, InstallProgress
  <1> USE DEF Goto, copies, disk, bounds
  <1>2. ASSUME NEW p \in Process, Return(p), UNCHANGED <<object, bad>>,
               \A w \in Version : lock[w] = p \/ TreeKept(w)
        PROVE  RepairInv'
    <2>1. NothingSpoilt
      BY <1>1, <1>2, Unspoilt
    <2>2. pc'[p] \notin Active /\ op'[p].mode # "symlink"
      BY <1>1, <1>2, ReturnEffect, ModesOf DEF Active, Placing
    <2> QED
      BY <1>1, <1>2, <2>1, <2>2, ReturnEffect, RepairAway
  <1>3. ASSUME NEW p \in Process, NEW s \in {"clear", "lock", "rmlock", "remove", "mark"}, NEW r,
               Begin(p, s, r), UNCHANGED <<object, bad, tree, spoilt>>, r.mode # "symlink"
        PROVE  RepairInv'
    <2>1. /\ pc'[p] = s /\ op'[p] = r
          /\ \A q \in Process \ {p} : pc'[q] = pc[q] /\ op'[q] = op[q]
      BY <1>1, <1>3 DEF Begin, TypeOK
    <2>2. NothingSpoilt
      BY <1>1, <1>3, Unspoilt
    <2>3. pc'[p] \notin Active /\ \A w \in Version : TreeKept(w)
      BY <1>3, <2>1 DEF Active, Placing, TreeKept
    <2> QED
      BY <1>3, <2>1, <2>2, <2>3, RepairAway
  <1>4. ASSUME NEW p \in Process, \A q \in Process \ {p} : pc'[q] = pc[q] /\ op'[q] = op[q],
               UNCHANGED <<bad>>, \A h \in Hash : object'[h] \in {object[h], None},
               \A w \in Version : lock[w] = p \/ TreeKept(w),
               op'[p].mode # "symlink", pc'[p] \notin Active
        PROVE  RepairInv'
    BY <1>1, <1>4, Unspoilt, RepairAway
  <1>5. ASSUME NEW p \in Installer, InstallStep(p) PROVE RepairInv'
    <2>0. p \in Process /\ pc[p] \notin {"copy", "publish", "discard"}
      BY DEF Process, RepairInv
    <2>1. ASSUME ClearMarker(p) \/ AcquireLock(p) \/ UseCached(p) \/ Reject(p) \/ ReadReceipt(p)
          PROVE  RepairInv'
      <3>1. /\ \A q \in Process \ {p} : pc'[q] = pc[q]
            /\ UNCHANGED <<op, bad, object, tree, spoilt>>
            /\ pc'[p] \notin Active
        BY <1>1, <2>0, <2>1 DEF ClearMarker, AcquireLock, UseCached, Reject, ReadReceipt, TypeOK, Active, Placing
      <3> QED
        BY <1>1, <1>4, <2>0, <3>1 DEF TreeKept
    <2>2. CASE CleanResidue(p)
      <3>1. /\ \A q \in Process \ {p} : pc'[q] = pc[q]
            /\ UNCHANGED <<op, bad, object>> /\ pc[p] = "check" /\ pc'[p] = "fetch"
            /\ \A w \in Version \ {op[p].ver} : tree'[w] = tree[w]
        BY <1>1, <2>0, <2>2 DEF CleanResidue, TypeOK
      <3>2. \A w \in Version : lock[w] = p \/ TreeKept(w)
        <4>1. spoilt' = spoilt \ {op[p].ver}
          BY <2>2 DEF CleanResidue
        <4> QED
          BY <1>1, <2>0, <3>1, <4>1 DEF Holds, TreeKept
      <3>3. pc'[p] \notin Active
        BY <3>1 DEF Active, Placing
      <3> QED
        BY <1>1, <1>4, <2>0, <3>1, <3>2, <3>3
    <2>3. CASE Download(p)
      <3>1. /\ \A q \in Process \ {p} : pc'[q] = pc[q] /\ op'[q] = op[q]
            /\ UNCHANGED <<bad, object, tree, spoilt>> /\ pc'[p] \notin Active
            /\ op' = [op EXCEPT ![p] = [op[p] EXCEPT !.urls = op[p].urls - 1]]
        BY <1>1, <2>0, <2>3 DEF Download, TypeOK, Active, Placing
      <3>2. op'[p].mode # "symlink"
        BY <1>1, <2>0, <3>1, FieldsKept DEF TypeOK
      <3> QED
        BY <1>4, <2>0, <3>1, <3>2 DEF TreeKept
    <2>4. CASE Accept(p)
      <3>1. /\ pc[p] = "verify" /\ pc'[p] = "place"
            /\ \A q \in Process \ {p} : pc'[q] = pc[q] /\ op'[q] = op[q]
            /\ UNCHANGED <<bad, object, tree, spoilt>>
            /\ op' = [op EXCEPT ![p] = [op[p] EXCEPT !.urls = 0, !.offline = FALSE]]
        BY <1>1, <2>0, <2>4 DEF Accept, TypeOK
      <3>2. op'[p].mode = op[p].mode /\ op'[p].todo = op[p].todo /\ op'[p].ver = op[p].ver
        BY <1>1, <2>0, <3>1, FieldsKept, FieldsAfter DEF TypeOK
      <3>3. op[p].todo = Tree[op[p].ver]
        BY <1>1, <2>0, <3>1 DEF Progresses
      <3>4. Sound(p)'
        BY <3>1, <3>2, <3>3 DEF Sound
      <3>5. NothingSpoilt
        BY <1>1, <3>1, Unspoilt
      <3> QED
        BY <1>1, <2>0, <3>1, <3>2, <3>4, <3>5, RepairOfOne DEF TreeKept
    <2>5. CASE GiveUp(p) \/ Commit(p) \/ KeepReceipt(p) \/ HashFails(p)
      BY <1>2, <2>0, <2>5 DEF GiveUp, Commit, KeepReceipt, HashFails, TreeKept
    <2>14. CASE \/ AlreadyComplete(p) \/ (pc[p] = "renewing" /\ WriteReceipt(p))
                \/ (Goto(p, "renew", "renewing") /\ TruncateReceipt(p))
      <3>1. UNCHANGED <<object, bad, tree, spoilt>>
        BY <2>14 DEF AlreadyComplete, WriteReceipt, TruncateReceipt
      <3>2. CASE Return(p)
        BY <1>2, <2>0, <3>1, <3>2 DEF TreeKept
      <3>3. CASE UNCHANGED op /\ (Goto(p, "check", "evidence") \/ Goto(p, "renew", "renewing"))
        <4>1. (\A q \in Process \ {p} : pc'[q] = pc[q]) /\ pc'[p] \notin Active
          BY <1>1, <2>0, <3>3 DEF TypeOK, Active, Placing
        <4> QED
          BY <1>1, <1>4, <2>0, <3>1, <3>3, <4>1 DEF TreeKept
      <3> QED
        BY <2>14, <3>2, <3>3 DEF AlreadyComplete, WriteReceipt, TruncateReceipt
    <2>6. CASE ObjectVanished(p)
      <3>1. pc[p] = "link" /\ spoilt' = spoilt /\ \A w \in Version \ {op[p].ver} : tree'[w] = tree[w]
        BY <1>1, <2>0, <2>6 DEF ObjectVanished, TypeOK
      <3>2. \A w \in Version : lock[w] = p \/ TreeKept(w)
        BY <1>1, <2>0, <3>1 DEF Holds, Building, Placing, TreeKept
      <3> QED
        BY <1>2, <2>0, <2>6, <3>2 DEF ObjectVanished
    <2>7. ASSUME NEW h \in Hash, Ingest(p, h) PROVE RepairInv'
      BY <2>0, <2>7, IngestRepairs
    <2>15. CASE ReuseObject(p) \/ RejectObject(p) \/ DropObject(p)
      BY <2>0, <2>15, CheckRepairs
    <2>8. CASE Store(p)
      BY <2>0, <2>8, StoreRepairs
    <2>9. CASE Materialize(p)
      BY <2>0, <2>9, MaterializeRepairs
    <2>10. ~CopyTemp(p) /\ ~EndCopy(p) /\ ~PublishObject(p) /\ ~DiscardTemp(p)
      BY <2>0 DEF CopyTemp, EndCopy, PublishObject, DiscardTemp
    <2>11. CASE TruncateManifest(p)
      BY <2>0, <2>11, RepairOn DEF TruncateManifest
    <2>12. CASE WriteManifest(p)
      BY <2>0, <2>12, RepairOn DEF WriteManifest
    <2>13. CASE \/ pc[p] = "describe" /\ WriteReceipt(p)
                \/ Goto(p, "receipt", "describe") /\ TruncateReceipt(p)
      BY <2>0, <2>13, RepairOn DEF WriteReceipt, TruncateReceipt
    <2> QED
      BY <1>5, <2>1, <2>2, <2>3, <2>4, <2>5, <2>6, <2>7, <2>8, <2>9, <2>10, <2>11, <2>12, <2>13, <2>14, <2>15
        DEF InstallStep, TruncateReceipt, WriteReceipt
  <1>6. ASSUME NEW p \in Process, RemoveStep(p) PROVE RepairInv'
    <2>1. CASE AcquireRemovalLock(p)
      <3>1. /\ \A q \in Process \ {p} : pc'[q] = pc[q]
            /\ UNCHANGED <<op, bad, object, tree, spoilt>>
            /\ pc'[p] \notin Active
        BY <1>1, <2>1 DEF AcquireRemovalLock, TypeOK, Active, Placing
      <3> QED
        BY <1>1, <1>4, <3>1 DEF TreeKept
    <2>2. ASSUME NEW e \in Hash \cup Metadata, RemoveEntry(p, e) PROVE RepairInv'
      <3>1. /\ \A q \in Process \ {p} : pc'[q] = pc[q] /\ op'[q] = op[q]
            /\ UNCHANGED <<bad, object>> /\ pc[p] = "remove" /\ pc'[p] = "remove"
            /\ \A w \in Version \ {op[p].ver} : tree'[w] = tree[w]
        BY <1>1, <2>2 DEF RemoveEntry, TypeOK
      <3>2. op' = [op EXCEPT ![p] = [op[p] EXCEPT !.todo = op[p].todo \ {e}]]
        BY <1>1, <2>2 DEF RemoveEntry, TypeOK
      <3>3. op'[p].mode # "symlink"
        BY <1>1, <3>2, FieldsKept DEF TypeOK
      <3>4. \A w \in Version : lock[w] = p \/ TreeKept(w)
        <4>1. spoilt' = spoilt \cup ({op[p].ver} \cap (Version \ Locked))
          BY <2>2 DEF RemoveEntry
        <4> QED
          BY <1>1, <3>1, <4>1 DEF Holds, TreeKept
      <3>5. pc'[p] \notin Active
        BY <3>1 DEF Active, Placing
      <3> QED
        BY <1>4, <3>1, <3>3, <3>4, <3>5
    <2>3. CASE FinishRemove(p)
      <3>1. /\ \A q \in Process \ {p} : pc'[q] = pc[q] /\ op'[q] = op[q]
            /\ UNCHANGED <<bad, object, tree, spoilt>> /\ pc'[p] = "mark" /\ op'[p] = NewCollection
        BY <1>1, <2>3 DEF FinishRemove, TypeOK
      <3>2. pc'[p] \notin Active /\ op'[p].mode # "symlink"
        BY <3>1, ModesOf DEF Active, Placing
      <3> QED
        BY <1>4, <3>1, <3>2 DEF TreeKept
    <2>4. CASE FailRemove(p)
      BY <1>2, <2>4 DEF FailRemove, TreeKept
    <2> QED
      BY <1>6, <2>1, <2>2, <2>3, <2>4 DEF RemoveStep
  <1>7. ASSUME NEW p \in Process, CollectStep(p) PROVE RepairInv'
    <2>1. ASSUME NEW v \in Version, Mark(p, v) PROVE RepairInv'
      <3>1. PICK L : op' = [op EXCEPT ![p] = [op[p] EXCEPT !.unmarked = op[p].unmarked \ {v}, !.live = L]]
        BY <1>1, <2>1 DEF Mark, TypeOK
      <3>2. op'[p].mode # "symlink" /\ \A q \in Process \ {p} : op'[q] = op[q]
        BY <1>1, <3>1, FieldsKept DEF TypeOK
      <3>3. pc' = pc /\ UNCHANGED <<bad, object, tree, spoilt>> /\ pc'[p] \notin Active
        BY <1>1, <2>1 DEF Mark, TypeOK, Active, Placing
      <3> QED
        BY <1>4, <3>2, <3>3 DEF TreeKept
    <2>2. CASE RefuseCollect(p) \/ FinishCollect(p)
      BY <1>2, <2>2 DEF RefuseCollect, FinishCollect, TreeKept
    <2>3. CASE BeginSweep(p)
      <3>1. op' = [op EXCEPT ![p] = [op[p] EXCEPT !.todo = Hash]]
        BY <1>1, <2>3 DEF BeginSweep, TypeOK
      <3>2. op'[p].mode # "symlink" /\ \A q \in Process \ {p} : op'[q] = op[q]
        BY <1>1, <3>1, FieldsKept DEF TypeOK
      <3>3. /\ UNCHANGED <<bad, object, tree, spoilt>> /\ pc'[p] \notin Active
            /\ \A q \in Process \ {p} : pc'[q] = pc[q]
        BY <1>1, <2>3 DEF BeginSweep, TypeOK, Active, Placing
      <3> QED
        BY <1>4, <3>2, <3>3 DEF TreeKept
    <2>4. ASSUME NEW h \in Hash, Sweep(p, h) PROVE RepairInv'
      <3>1. op' = [op EXCEPT ![p] = [op[p] EXCEPT !.todo = op[p].todo \ {h}]]
        BY <1>1, <2>4 DEF Sweep, TypeOK
      <3>2. op'[p].mode # "symlink" /\ \A q \in Process \ {p} : op'[q] = op[q]
        BY <1>1, <3>1, FieldsKept DEF TypeOK
      <3>3. /\ UNCHANGED <<bad, tree, pc, spoilt>> /\ pc'[p] \notin Active
            /\ \A g \in Hash : object'[g] \in {object[g], None}
        BY <1>1, <2>4 DEF Sweep, TypeOK, Active, Placing
      <3> QED
        BY <1>4, <3>2, <3>3 DEF TreeKept
    <2> QED
      BY <1>7, <2>1, <2>2, <2>3, <2>4 DEF CollectStep
  <1>8. ASSUME NEW p \in Process, Kill(p) PROVE RepairInv'
    BY <1>2, <1>8 DEF Kill, TreeKept
  <1>9. ASSUME NEW v \in Version, NEW h \in Hash, Edit(v, h) PROVE RepairInv'
    <2>1. UNCHANGED <<pc, tree, spoilt>>
      BY <1>9 DEF Edit
    <2>2. ASSUME NEW q \in Process PROVE op'[q].mode # "symlink" /\ Sound(q)'
      <3>1. CASE op[q].ver = None
        <4>1. pc[q] \notin Active
          BY <1>1, <2>2, <3>1 DEF Holds, Active, Building, Placing
        <4>2. op'[q] = op[q]
          BY <1>9, <3>1 DEF Edit
        <4> QED
          BY <1>1, <2>1, <2>2, <4>1, <4>2 DEF Sound, Active, Placing
      <3>2. CASE op[q].ver # None
        <4>1. op'[q] = [op[q] EXCEPT !.edited = TRUE]
          BY <1>9, <2>2, <3>2 DEF Edit
        <4>2. op'[q].mode = op[q].mode /\ op'[q].edited
          BY <1>1, <4>1, FieldsKept
        <4> QED
          BY <1>1, <4>2 DEF Sound
      <3> QED
        BY <3>1, <3>2
    <2> QED
      BY <2>1, <2>2 DEF RepairInv
  <1>10. CASE UNCHANGED vars \/ \E v \in Version : EvictArchive(v)
    <2>1. UNCHANGED <<pc, op, tree, object, bad, spoilt>>
      BY <1>10 DEF vars, EvictArchive
    <2> QED
      BY <2>1 DEF RepairInv, Sound
  <1>11. ASSUME NEW p \in Installer, NEW v \in Version, BeginInstall(p, v) PROVE RepairInv'
    <2>1. PICK m \in Modes, off \in BOOLEAN :
            Begin(p, IF marker[v] THEN "clear" ELSE "lock", NewInstall(v, m, off))
      BY <1>11 DEF BeginInstall
    <2> QED
      BY <1>3, <1>11, <2>1, ModesOf DEF BeginInstall, Process
  <1>12. ASSUME NEW p \in Remover, NEW v \in Version, BeginRemove(p, v) PROVE RepairInv'
    BY <1>3, <1>12, ModesOf DEF BeginRemove, Process
  <1>13. ASSUME NEW p \in Collector, BeginCollect(p) PROVE RepairInv'
    BY <1>3, <1>13, ModesOf DEF BeginCollect, Process
  <1> QED
    BY <1>5, <1>6, <1>7, <1>8, <1>9, <1>10, <1>11, <1>12, <1>13 DEF Next, Process

\* A reinstall repairs: what an install is about to commit has the right bytes unless
\* a file was edited while it worked or an uninstall spoilt the version, for any number
\* of installers, removers, collectors, kills and edits, if files are renamed into the
\* store and linked or copied from it.
THEOREM ReinstallRepairs ==
  ASSUME SameDevice, "symlink" \notin Modes
  PROVE  Spec => []RepairedAtCommit
  <1>1. Init => IInv /\ RepairInv
    <2>1. Init => RepairInv
      BY ModesOf DEF Init, RepairInv, Sound, Active, Placing
    <2> QED
      BY <2>1, InitIInv
  <1>2. IInv /\ RepairInv /\ [Next]_vars => (IInv /\ RepairInv)'
    BY IInvStep, RepairStep
  <1>3. IInv /\ RepairInv => RepairedAtCommit
    <2> SUFFICES ASSUME IInv, RepairInv, NEW p \in Installer, pc[p] = "commit", ~op[p].edited,
                        op[p].ver \notin spoilt, NEW h \in Tree[op[p].ver]
                 PROVE  Intact(h, tree[op[p].ver][h])
      BY DEF RepairedAtCommit
    <2>1. p \in Process /\ Sound(p) /\ Progresses(p)
      BY DEF Process, IInv, RepairInv, InstallProgress
    <2>2. op[p].todo = {} /\ op[p].file = None
      BY <2>1 DEF Progresses, Placing
    <2>3. h # None
      BY <2>1 DEF IInv, HoldersHold, Holds, Building
    <2>4. tree[op[p].ver][h] \in Inode \ bad
      BY <2>1, <2>2, <2>3 DEF Sound, Active
    <2> QED
      BY <2>4 DEF Intact
  <1> QED
    BY <1>1, <1>2, <1>3, PTL DEF Spec
=============================================================================

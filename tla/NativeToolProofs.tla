-------------------------- MODULE NativeToolProofs --------------------------
(***************************************************************************)
(* Proofs about NativeTool, for any number of processes, builds, commands,  *)
(* kills, errors, edits and changes.                                        *)
(***************************************************************************)
EXTENDS NativeTool, TLAPS

Staging == {"build", "reset", "rebuild", "retain", "clean", "inspect", "mark", "seal",
            "sealing", "publish"}
Holding == Staging \cup {"prepare", "unseal", "remove", "useal"}

Whole(tree) ==
  tree.bin \in Build /\ tree.receipt = tree.bin /\ tree.manifest /\ tree.marker

LockInv == \A p \in Process : pc[p] \in Holding => lock = p

\* Only what outlives a provider that failed may write executables.
LateInv == \A p \in Process : late[p] = "anything" => pc[p] = "reset"

\* A file of the workspace is in a stage that is inspected only when something wrote it
\* there late.
StageOf(p) ==
  /\ pc[p] \in Staging => stage[p] \in Tree
  /\ pc[p] \in {"retain", "clean"} => stage[p].bin \in Build
  /\ pc[p] \in {"inspect", "mark"} =>
       stage[p].bin \in Build /\ (stage[p].scratch => late[p] # "nothing")
  /\ pc[p] = "mark" => stage[p].receipt = stage[p].bin
  /\ pc[p] \in {"seal", "sealing", "publish"} =>
       Whole(stage[p]) /\ (stage[p].scratch => late[p] # "nothing")

StageInv == \A p \in Process : StageOf(p)

RootInv ==
  \A p \in Process : pc[p] \in Staging \cup {"unseal", "useal"} => root = None

SealInv ==
  \A p \in Process :
    /\ pc[p] \in Staging \ {"sealing", "publish"} => seal = None
    /\ pc[p] = "sealing" => seal = Torn
    /\ pc[p] = "publish" => seal = stage[p] \/ Strayed(p)

WholeInv == seal \in Tree => Whole(seal)

KeptInv == root # None /\ touched = {} => seal = root

\* A root whose seal digests a file of the workspace was a strayed stage.
StrayInv == root # None /\ seal \in Tree /\ seal.scratch => "strayed" \in touched

IInv ==
  /\ TypeOK /\ LockInv /\ LateInv /\ StageInv /\ RootInv /\ SealInv /\ WholeInv /\ KeptInv
  /\ StrayInv

LEMMA Bounds ==
  MaxCommands \in Nat /\ MaxKills \in Nat /\ MaxErrors \in Nat /\ MaxEdits \in Nat /\ MaxChanges \in Nat
  BY ConstantsAssumption

LEMMA InitInv == Init => IInv
  <1> SUFFICES ASSUME Init PROVE IInv
    OBVIOUS
  <1>0. /\ 0 \in 0..MaxCommands /\ 0 \in 0..MaxKills /\ 0 \in 0..MaxErrors
        /\ 0 \in 0..MaxEdits /\ 0 \in 0..MaxChanges
    BY Bounds
  <1>1. TypeOK
    <2>1. /\ stage \in [Process -> Tree \cup {None}] /\ pc \in [Process -> Steps]
          /\ late \in [Process -> {"nothing", "scratch", "anything"}]
          /\ touched \in SUBSET Touch
      BY DEF Init, Steps, Installing
    <2> QED
      BY <1>0, <2>1 DEF Init, TypeOK
  <1>2. \A p \in Process : pc[p] = "idle" /\ late[p] = "nothing"
    BY DEF Init
  <1>3. LockInv /\ RootInv /\ SealInv
    BY <1>2 DEF Init, LockInv, RootInv, SealInv, Staging, Holding
  <1>4. StageInv
    BY <1>2 DEF StageInv, StageOf, Staging
  <1> QED
    BY <1>1, <1>2, <1>3, <1>4, ConstantsAssumption DEF Init, IInv, LateInv, WholeInv, KeptInv, StrayInv

-----------------------------------------------------------------------------
(* Types *)

LEMMA EmptyTree == Empty \in Tree /\ None \notin Content /\ Torn \in Content /\ Torn # None
  BY ConstantsAssumption DEF Empty, Tree, Content

\* A tree with one of its fields replaced.
LEMMA TreeUpdate ==
  ASSUME NEW t \in Tree, NEW b \in Content \cup {None}, NEW v \in BOOLEAN
  PROVE  /\ [t EXCEPT !.bin = b] \in Tree /\ [t EXCEPT !.receipt = b] \in Tree
         /\ [t EXCEPT !.scratch = v] \in Tree /\ [t EXCEPT !.marker = v] \in Tree
         /\ [t EXCEPT !.manifest = v] \in Tree
  BY DEF Tree

\* What a provider leaves, what is retained of it, and what marks it.
LEMMA TreeMade ==
  ASSUME NEW t \in Tree, NEW b \in Content \cup {None}
  PROVE  /\ [Empty EXCEPT !.bin = b, !.scratch = TRUE] \in Tree
         /\ [Empty EXCEPT !.bin = b] \in Tree
         /\ [t EXCEPT !.manifest = TRUE, !.marker = TRUE] \in Tree
         /\ t.bin \in Content \cup {None}
  BY EmptyTree DEF Tree, Empty

LEMMA StageUpdate ==
  ASSUME TypeOK, NEW p \in Process, NEW t \in Tree, Stage(p, t)
  PROVE  /\ stage' \in [Process -> Tree \cup {None}] /\ stage'[p] = t
         /\ \A q \in Process \ {p} : stage'[q] = stage[q]
  BY DEF Stage, TypeOK

LEMMA TypeStep == ASSUME TypeOK, StageInv, RootInv, [Next]_vars PROVE TypeOK'
  <1> USE Bounds DEF Goto, Fails, Late, Leave, files, counters, Steps, Installing, Touch
  <1>1. CASE UNCHANGED vars
    BY <1>1 DEF vars, TypeOK
  <1>2. ASSUME NEW p \in Process, Start(p) PROVE TypeOK'
    BY <1>2 DEF Start, TypeOK
  <1>3. ASSUME NEW p \in Process, ClearMarker(p) PROVE TypeOK'
    <2>1. root' \in Tree \cup {None}
      BY <1>3, TreeUpdate DEF ClearMarker, TypeOK
    <2> QED
      BY <1>3, <2>1 DEF ClearMarker, TypeOK
  <1>4. ASSUME NEW p \in Process, AcquireLock(p) PROVE TypeOK'
    BY <1>4 DEF AcquireLock, TypeOK
  <1>5. ASSUME NEW p \in Process, ReuseOrRefuse(p) PROVE TypeOK'
    BY <1>5 DEF ReuseOrRefuse, TypeOK
  <1>6. ASSUME NEW p \in Process, DiscardRoot(p) PROVE TypeOK'
    <2>0. root # None => [root EXCEPT !.bin = None] \in Tree
      BY TreeUpdate DEF TypeOK
    <2>1. root' \in Tree \cup {None}
      BY <1>6, <2>0 DEF DiscardRoot, TypeOK
    <2> QED
      BY <1>6, <2>1 DEF DiscardRoot, TypeOK
  <1>7. ASSUME NEW p \in Process, StageWithLock(p) PROVE TypeOK'
    <2>1. CASE Stage(p, Empty)
      <3>1. stage' \in [Process -> Tree \cup {None}]
        BY <2>1, StageUpdate, EmptyTree
      <3> QED
        BY <1>7, <3>1 DEF StageWithLock, TypeOK
    <2>2. CASE Leave(p)
      BY <1>7, <2>2 DEF StageWithLock, TypeOK
    <2> QED
      BY <1>7, <2>1, <2>2 DEF StageWithLock
  <1>8. ASSUME NEW p \in Process, Provide(p) PROVE TypeOK'
    <2>1. PICK b \in Build : Stage(p, [Empty EXCEPT !.bin = b, !.scratch = TRUE])
      BY <1>8 DEF Provide
    <2>2. stage' \in [Process -> Tree \cup {None}]
      BY <2>1, StageUpdate, TreeMade, EmptyTree DEF Content
    <2> QED
      BY <1>8, <2>2 DEF Provide, TypeOK
  <1>9. ASSUME NEW p \in Process, FallBack(p) PROVE TypeOK'
    <2>1. PICK b \in {None, Torn} : Stage(p, [Empty EXCEPT !.bin = b, !.scratch = TRUE])
      BY <1>9 DEF FallBack
    <2>2. stage' \in [Process -> Tree \cup {None}]
      BY <2>1, StageUpdate, TreeMade, EmptyTree
    <2> QED
      BY <1>9, <2>2 DEF FallBack, TypeOK
  <1>10. ASSUME NEW p \in Process, ProviderFails(p) PROVE TypeOK'
    BY <1>10 DEF ProviderFails, TypeOK
  <1>11. ASSUME NEW p \in Process, Reset(p) PROVE TypeOK'
    <2>1. stage' \in [Process -> Tree \cup {None}]
      BY <1>11, StageUpdate, EmptyTree DEF Reset
    <2> QED
      BY <1>11, <2>1 DEF Reset, TypeOK
  <1>12. ASSUME NEW p \in Process, RetainBinOnly(p) PROVE TypeOK'
    <2>1. stage[p] \in Tree
      BY <1>12 DEF RetainBinOnly, Goto, StageInv, StageOf, Staging
    <2>2. [Empty EXCEPT !.bin = stage[p].bin] \in Tree
      BY <2>1, TreeUpdate, TreeMade, EmptyTree
    <2>3. stage' \in [Process -> Tree \cup {None}]
      BY <1>12, <2>2, StageUpdate DEF RetainBinOnly
    <2> QED
      BY <1>12, <2>3 DEF RetainBinOnly, TypeOK
  <1>13. ASSUME NEW p \in Process, CleanWorkspace(p) PROVE TypeOK'
    <2>1. stage[p] \in Tree
      BY <1>13 DEF CleanWorkspace, Goto, StageInv, StageOf, Staging
    <2>2. [stage[p] EXCEPT !.scratch = FALSE] \in Tree
      BY <2>1, TreeUpdate, TreeMade, EmptyTree
    <2>3. stage' \in [Process -> Tree \cup {None}]
      BY <1>13, <2>2, StageUpdate DEF CleanWorkspace
    <2> QED
      BY <1>13, <2>3 DEF CleanWorkspace, TypeOK
  <1>14. ASSUME NEW p \in Process, InspectBins(p) PROVE TypeOK'
    <2>1. stage[p] \in Tree
      BY <1>14 DEF InspectBins, Goto, StageInv, StageOf, Staging
    <2>2. [stage[p] EXCEPT !.receipt = stage[p].bin] \in Tree
      BY <2>1, TreeUpdate, TreeMade, EmptyTree
    <2>3. stage' \in [Process -> Tree \cup {None}]
      BY <1>14, <2>2, StageUpdate DEF InspectBins
    <2> QED
      BY <1>14, <2>3 DEF InspectBins, TypeOK
  <1>15. ASSUME NEW p \in Process, Mark(p) PROVE TypeOK'
    <2>1. stage[p] \in Tree
      BY <1>15 DEF Mark, Goto, StageInv, StageOf, Staging
    <2>2. [stage[p] EXCEPT !.manifest = TRUE, !.marker = TRUE] \in Tree
      BY <2>1, TreeUpdate, TreeMade, EmptyTree
    <2>3. stage' \in [Process -> Tree \cup {None}]
      BY <1>15, <2>2, StageUpdate DEF Mark
    <2> QED
      BY <1>15, <2>3 DEF Mark, TypeOK
  <1>16. ASSUME NEW p \in Process, CreateSeal(p) PROVE TypeOK'
    BY <1>16 DEF CreateSeal, TypeOK
  <1>17. ASSUME NEW p \in Process, WriteSeal(p) PROVE TypeOK'
    BY <1>17 DEF WriteSeal, TypeOK
  <1>18. ASSUME NEW p \in Process, PublishFails(p) PROVE TypeOK'
    BY <1>18 DEF PublishFails, TypeOK
  <1>19. ASSUME NEW p \in Process, Publish(p) PROVE TypeOK'
    BY <1>19 DEF Publish, TypeOK
  <1>20. ASSUME NEW p \in Process, RenameFails(p) PROVE TypeOK'
    BY <1>20 DEF RenameFails, TypeOK
  <1>21. ASSUME NEW p \in Process, StartUninstall(p) PROVE TypeOK'
    BY <1>21 DEF StartUninstall, TypeOK
  <1>22. ASSUME NEW p \in Process, AcquireRemovalLock(p) PROVE TypeOK'
    BY <1>22 DEF AcquireRemovalLock, TypeOK
  <1>23. ASSUME NEW p \in Process, RemoveFile(p) PROVE TypeOK'
    <2>1. root \in Tree
      BY <1>23 DEF RemoveFile, TypeOK
    <2>2. /\ [root EXCEPT !.bin = None] \in Tree /\ [root EXCEPT !.receipt = None] \in Tree
          /\ [root EXCEPT !.manifest = FALSE] \in Tree /\ [root EXCEPT !.marker = FALSE] \in Tree
          /\ [root EXCEPT !.scratch = FALSE] \in Tree
      BY <2>1, TreeUpdate
    <2>3. root' \in Tree
      BY <1>23, <2>2 DEF RemoveFile
    <2> QED
      BY <1>23, <2>3 DEF RemoveFile, TypeOK
  <1>24. ASSUME NEW p \in Process, RemoveRoot(p) PROVE TypeOK'
    BY <1>24 DEF RemoveRoot, TypeOK
  <1>25. ASSUME NEW p \in Process, RemoveSeal(p) PROVE TypeOK'
    BY <1>25 DEF RemoveSeal, TypeOK
  <1>26. ASSUME NEW p \in Process, RemovalFails(p) PROVE TypeOK'
    BY <1>26 DEF RemovalFails, TypeOK
  <1>27. ASSUME NEW p \in Process, LateWrite(p) PROVE TypeOK'
    <2>1. stage[p] \in Tree
      BY <1>27 DEF LateWrite, TypeOK
    <2>2. [stage[p] EXCEPT !.scratch = TRUE] \in Tree /\ [stage[p] EXCEPT !.bin = Torn] \in Tree
      BY <2>1, TreeUpdate, EmptyTree
    <2>3. stage' \in [Process -> Tree \cup {None}]
      BY <1>27, <2>2, StageUpdate DEF LateWrite
    <2> QED
      BY <1>27, <2>3 DEF LateWrite, TypeOK
  <1>28. ASSUME NEW p \in Process, Kill(p) PROVE TypeOK'
    BY <1>28 DEF Kill, TypeOK
  <1>29. CASE Edit
    <2>1. root \in Tree
      BY <1>29 DEF Edit, TypeOK
    <2>2. root' \in Tree
      BY <1>29, <2>1, TreeUpdate, EmptyTree DEF Edit
    <2>3. edits' \in 0..MaxEdits
      BY <1>29 DEF Edit, TypeOK
    <2>4. touched' \in SUBSET Touch
      BY <1>29 DEF Edit, TypeOK
    <2>5. UNCHANGED <<family, seal, stage, late, lock, pc, runtime, commands, kills, errors, changes>>
      BY <1>29 DEF Edit
    <2> QED
      BY <2>2, <2>3, <2>4, <2>5 DEF TypeOK
  <1>30. CASE ChangeRuntime
    BY <1>30 DEF ChangeRuntime, TypeOK
  <1> QED
    BY <1>1, <1>2, <1>3, <1>4, <1>5, <1>6, <1>7, <1>8, <1>9, <1>10, <1>11, <1>12, <1>13, <1>14, <1>15, <1>16, <1>17, <1>18, <1>19, <1>20, <1>21, <1>22, <1>23, <1>24, <1>25, <1>26, <1>27, <1>28, <1>29, <1>30 DEF Next, Run

-----------------------------------------------------------------------------
(* The inductive invariant *)

LEMMA LockStep ==
  ASSUME TypeOK, LockInv, TypeOK', [Next]_vars
  PROVE  LockInv'
  <1> USE ConstantsAssumption DEF Goto, Fails, Stage, Late, Leave, files
  <1>1. CASE UNCHANGED vars
    BY <1>1 DEF vars, LockInv, TypeOK, Holding, Staging, Steps, Installing
  <1>2. ASSUME NEW p \in Process, Start(p) PROVE LockInv'
    BY <1>2 DEF Start, LockInv, TypeOK, Holding, Staging, Steps, Installing
  <1>3. ASSUME NEW p \in Process, ClearMarker(p) PROVE LockInv'
    BY <1>3 DEF ClearMarker, LockInv, TypeOK, Holding, Staging, Steps, Installing
  <1>4. ASSUME NEW p \in Process, AcquireLock(p) PROVE LockInv'
    BY <1>4 DEF AcquireLock, LockInv, TypeOK, Holding, Staging, Steps, Installing
  <1>5. ASSUME NEW p \in Process, ReuseOrRefuse(p) PROVE LockInv'
    BY <1>5 DEF ReuseOrRefuse, LockInv, TypeOK, Holding, Staging, Steps, Installing
  <1>6. ASSUME NEW p \in Process, DiscardRoot(p) PROVE LockInv'
    BY <1>6 DEF DiscardRoot, LockInv, TypeOK, Holding, Staging, Steps, Installing
  <1>7. ASSUME NEW p \in Process, StageWithLock(p) PROVE LockInv'
    BY <1>7 DEF StageWithLock, LockInv, TypeOK, Holding, Staging, Steps, Installing
  <1>8. ASSUME NEW p \in Process, Provide(p) PROVE LockInv'
    BY <1>8 DEF Provide, LockInv, TypeOK, Holding, Staging, Steps, Installing
  <1>9. ASSUME NEW p \in Process, FallBack(p) PROVE LockInv'
    BY <1>9 DEF FallBack, LockInv, TypeOK, Holding, Staging, Steps, Installing
  <1>10. ASSUME NEW p \in Process, ProviderFails(p) PROVE LockInv'
    BY <1>10 DEF ProviderFails, LockInv, TypeOK, Holding, Staging, Steps, Installing
  <1>11. ASSUME NEW p \in Process, Reset(p) PROVE LockInv'
    BY <1>11 DEF Reset, LockInv, TypeOK, Holding, Staging, Steps, Installing
  <1>12. ASSUME NEW p \in Process, RetainBinOnly(p) PROVE LockInv'
    BY <1>12 DEF RetainBinOnly, LockInv, TypeOK, Holding, Staging, Steps, Installing
  <1>13. ASSUME NEW p \in Process, CleanWorkspace(p) PROVE LockInv'
    BY <1>13 DEF CleanWorkspace, LockInv, TypeOK, Holding, Staging, Steps, Installing
  <1>14. ASSUME NEW p \in Process, InspectBins(p) PROVE LockInv'
    BY <1>14 DEF InspectBins, LockInv, TypeOK, Holding, Staging, Steps, Installing
  <1>15. ASSUME NEW p \in Process, Mark(p) PROVE LockInv'
    BY <1>15 DEF Mark, LockInv, TypeOK, Holding, Staging, Steps, Installing
  <1>16. ASSUME NEW p \in Process, CreateSeal(p) PROVE LockInv'
    BY <1>16 DEF CreateSeal, LockInv, TypeOK, Holding, Staging, Steps, Installing
  <1>17. ASSUME NEW p \in Process, WriteSeal(p) PROVE LockInv'
    BY <1>17 DEF WriteSeal, LockInv, TypeOK, Holding, Staging, Steps, Installing
  <1>18. ASSUME NEW p \in Process, PublishFails(p) PROVE LockInv'
    BY <1>18 DEF PublishFails, LockInv, TypeOK, Holding, Staging, Steps, Installing
  <1>19. ASSUME NEW p \in Process, Publish(p) PROVE LockInv'
    BY <1>19 DEF Publish, LockInv, TypeOK, Holding, Staging, Steps, Installing
  <1>20. ASSUME NEW p \in Process, RenameFails(p) PROVE LockInv'
    BY <1>20 DEF RenameFails, LockInv, TypeOK, Holding, Staging, Steps, Installing
  <1>21. ASSUME NEW p \in Process, StartUninstall(p) PROVE LockInv'
    BY <1>21 DEF StartUninstall, LockInv, TypeOK, Holding, Staging, Steps, Installing
  <1>22. ASSUME NEW p \in Process, AcquireRemovalLock(p) PROVE LockInv'
    BY <1>22 DEF AcquireRemovalLock, LockInv, TypeOK, Holding, Staging, Steps, Installing
  <1>23. ASSUME NEW p \in Process, RemoveFile(p) PROVE LockInv'
    BY <1>23 DEF RemoveFile, LockInv, TypeOK, Holding, Staging, Steps, Installing
  <1>24. ASSUME NEW p \in Process, RemoveRoot(p) PROVE LockInv'
    BY <1>24 DEF RemoveRoot, LockInv, TypeOK, Holding, Staging, Steps, Installing
  <1>25. ASSUME NEW p \in Process, RemoveSeal(p) PROVE LockInv'
    BY <1>25 DEF RemoveSeal, LockInv, TypeOK, Holding, Staging, Steps, Installing
  <1>26. ASSUME NEW p \in Process, RemovalFails(p) PROVE LockInv'
    BY <1>26 DEF RemovalFails, LockInv, TypeOK, Holding, Staging, Steps, Installing
  <1>27. ASSUME NEW p \in Process, LateWrite(p) PROVE LockInv'
    BY <1>27 DEF LateWrite, LockInv, TypeOK, Holding, Staging, Steps, Installing
  <1>28. ASSUME NEW p \in Process, Kill(p) PROVE LockInv'
    BY <1>28 DEF Kill, LockInv, TypeOK, Holding, Staging, Steps, Installing
  <1>29. CASE Edit
    BY <1>29 DEF Edit, LockInv, TypeOK, Holding, Staging, Steps, Installing
  <1>30. CASE ChangeRuntime
    BY <1>30 DEF ChangeRuntime, LockInv, TypeOK, Holding, Staging, Steps, Installing
  <1> QED
    BY <1>1, <1>2, <1>3, <1>4, <1>5, <1>6, <1>7, <1>8, <1>9, <1>10, <1>11, <1>12, <1>13, <1>14, <1>15, <1>16, <1>17, <1>18, <1>19, <1>20, <1>21, <1>22, <1>23, <1>24, <1>25, <1>26, <1>27, <1>28, <1>29, <1>30 DEF Next, Run

LEMMA LateStep ==
  ASSUME TypeOK, LateInv, TypeOK', [Next]_vars
  PROVE  LateInv'
  <1> USE ConstantsAssumption DEF Goto, Fails, Stage, Late, Leave, files
  <1>1. CASE UNCHANGED vars
    BY <1>1 DEF vars, LateInv, TypeOK
  <1>2. ASSUME NEW p \in Process, Start(p) PROVE LateInv'
    BY <1>2 DEF Start, LateInv, TypeOK
  <1>3. ASSUME NEW p \in Process, ClearMarker(p) PROVE LateInv'
    BY <1>3 DEF ClearMarker, LateInv, TypeOK
  <1>4. ASSUME NEW p \in Process, AcquireLock(p) PROVE LateInv'
    BY <1>4 DEF AcquireLock, LateInv, TypeOK
  <1>5. ASSUME NEW p \in Process, ReuseOrRefuse(p) PROVE LateInv'
    BY <1>5 DEF ReuseOrRefuse, LateInv, TypeOK
  <1>6. ASSUME NEW p \in Process, DiscardRoot(p) PROVE LateInv'
    BY <1>6 DEF DiscardRoot, LateInv, TypeOK
  <1>7. ASSUME NEW p \in Process, StageWithLock(p) PROVE LateInv'
    BY <1>7 DEF StageWithLock, LateInv, TypeOK
  <1>8. ASSUME NEW p \in Process, Provide(p) PROVE LateInv'
    BY <1>8 DEF Provide, LateInv, TypeOK
  <1>9. ASSUME NEW p \in Process, FallBack(p) PROVE LateInv'
    BY <1>9 DEF FallBack, LateInv, TypeOK
  <1>10. ASSUME NEW p \in Process, ProviderFails(p) PROVE LateInv'
    BY <1>10 DEF ProviderFails, LateInv, TypeOK
  <1>11. ASSUME NEW p \in Process, Reset(p) PROVE LateInv'
    BY <1>11 DEF Reset, LateInv, TypeOK
  <1>12. ASSUME NEW p \in Process, RetainBinOnly(p) PROVE LateInv'
    BY <1>12 DEF RetainBinOnly, LateInv, TypeOK
  <1>13. ASSUME NEW p \in Process, CleanWorkspace(p) PROVE LateInv'
    BY <1>13 DEF CleanWorkspace, LateInv, TypeOK
  <1>14. ASSUME NEW p \in Process, InspectBins(p) PROVE LateInv'
    BY <1>14 DEF InspectBins, LateInv, TypeOK
  <1>15. ASSUME NEW p \in Process, Mark(p) PROVE LateInv'
    BY <1>15 DEF Mark, LateInv, TypeOK
  <1>16. ASSUME NEW p \in Process, CreateSeal(p) PROVE LateInv'
    BY <1>16 DEF CreateSeal, LateInv, TypeOK
  <1>17. ASSUME NEW p \in Process, WriteSeal(p) PROVE LateInv'
    BY <1>17 DEF WriteSeal, LateInv, TypeOK
  <1>18. ASSUME NEW p \in Process, PublishFails(p) PROVE LateInv'
    BY <1>18 DEF PublishFails, LateInv, TypeOK
  <1>19. ASSUME NEW p \in Process, Publish(p) PROVE LateInv'
    BY <1>19 DEF Publish, LateInv, TypeOK
  <1>20. ASSUME NEW p \in Process, RenameFails(p) PROVE LateInv'
    BY <1>20 DEF RenameFails, LateInv, TypeOK
  <1>21. ASSUME NEW p \in Process, StartUninstall(p) PROVE LateInv'
    BY <1>21 DEF StartUninstall, LateInv, TypeOK
  <1>22. ASSUME NEW p \in Process, AcquireRemovalLock(p) PROVE LateInv'
    BY <1>22 DEF AcquireRemovalLock, LateInv, TypeOK
  <1>23. ASSUME NEW p \in Process, RemoveFile(p) PROVE LateInv'
    BY <1>23 DEF RemoveFile, LateInv, TypeOK
  <1>24. ASSUME NEW p \in Process, RemoveRoot(p) PROVE LateInv'
    BY <1>24 DEF RemoveRoot, LateInv, TypeOK
  <1>25. ASSUME NEW p \in Process, RemoveSeal(p) PROVE LateInv'
    BY <1>25 DEF RemoveSeal, LateInv, TypeOK
  <1>26. ASSUME NEW p \in Process, RemovalFails(p) PROVE LateInv'
    BY <1>26 DEF RemovalFails, LateInv, TypeOK
  <1>27. ASSUME NEW p \in Process, LateWrite(p) PROVE LateInv'
    BY <1>27 DEF LateWrite, LateInv, TypeOK
  <1>28. ASSUME NEW p \in Process, Kill(p) PROVE LateInv'
    BY <1>28 DEF Kill, LateInv, TypeOK
  <1>29. CASE Edit
    BY <1>29 DEF Edit, LateInv, TypeOK
  <1>30. CASE ChangeRuntime
    BY <1>30 DEF ChangeRuntime, LateInv, TypeOK
  <1> QED
    BY <1>1, <1>2, <1>3, <1>4, <1>5, <1>6, <1>7, <1>8, <1>9, <1>10, <1>11, <1>12, <1>13, <1>14, <1>15, <1>16, <1>17, <1>18, <1>19, <1>20, <1>21, <1>22, <1>23, <1>24, <1>25, <1>26, <1>27, <1>28, <1>29, <1>30 DEF Next, Run

LEMMA StageStep ==
  ASSUME TypeOK, LateInv, StageInv, TypeOK', [Next]_vars
  PROVE  StageInv'
  <1> USE ConstantsAssumption DEF Goto, Fails, Late, Leave, files
  <1>0. ASSUME NEW p \in Process, \A q \in Process \ {p} :
           stage'[q] = stage[q] /\ pc'[q] = pc[q] /\ late'[q] = late[q],
               StageOf(p)' PROVE StageInv'
    BY <1>0 DEF StageInv, StageOf
  <1>1. CASE UNCHANGED vars
    BY <1>1 DEF vars, StageInv, LateInv, StageOf, TypeOK, Whole, Staging
  <1>2. ASSUME NEW p \in Process, Start(p) PROVE StageInv'
    BY <1>2 DEF Start, StageInv, LateInv, StageOf, TypeOK, Whole, Staging
  <1>3. ASSUME NEW p \in Process, ClearMarker(p) PROVE StageInv'
    BY <1>3 DEF ClearMarker, StageInv, LateInv, StageOf, TypeOK, Whole, Staging
  <1>4. ASSUME NEW p \in Process, AcquireLock(p) PROVE StageInv'
    BY <1>4 DEF AcquireLock, StageInv, LateInv, StageOf, TypeOK, Whole, Staging
  <1>5. ASSUME NEW p \in Process, ReuseOrRefuse(p) PROVE StageInv'
    BY <1>5 DEF ReuseOrRefuse, StageInv, LateInv, StageOf, TypeOK, Whole, Staging
  <1>6. ASSUME NEW p \in Process, DiscardRoot(p) PROVE StageInv'
    BY <1>6 DEF DiscardRoot, StageInv, LateInv, StageOf, TypeOK, Whole, Staging
  <1>7. ASSUME NEW p \in Process, StageWithLock(p) PROVE StageInv'
    <2>1. \A q \in Process \ {p} :
           stage'[q] = stage[q] /\ pc'[q] = pc[q] /\ late'[q] = late[q]
      BY <1>7 DEF StageWithLock, Stage, TypeOK
    <2>2. ASSUME Goto(p, "unseal", "build"), Stage(p, Empty) PROVE StageOf(p)'
      <3>1. stage'[p] \in Tree /\ pc'[p] = "build"
        BY <2>2, StageUpdate, EmptyTree DEF TypeOK
      <3> QED
        BY <3>1 DEF StageOf
    <2>3. ASSUME Leave(p) PROVE StageOf(p)'
      <3>1. pc'[p] = "idle"
        BY <2>3 DEF TypeOK
      <3> QED
        BY <3>1 DEF StageOf, Staging
    <2>9. StageOf(p)'
      BY <1>7, <2>2, <2>3 DEF StageWithLock
    <2> QED
      BY <1>0, <2>1, <2>9
  <1>8. ASSUME NEW p \in Process, Provide(p) PROVE StageInv'
    <2>1. \A q \in Process \ {p} :
           stage'[q] = stage[q] /\ pc'[q] = pc[q] /\ late'[q] = late[q]
      BY <1>8 DEF Provide, Stage, TypeOK
    <2>2. PICK b \in Build : Stage(p, [Empty EXCEPT !.bin = b, !.scratch = TRUE])
      BY <1>8 DEF Provide
    <2>3. [Empty EXCEPT !.bin = b, !.scratch = TRUE] \in Tree
      BY TreeMade, EmptyTree DEF Content
    <2>4. stage'[p] = [Empty EXCEPT !.bin = b, !.scratch = TRUE]
      BY <2>2, <2>3, StageUpdate
    <2>5. stage'[p] \in Tree /\ stage'[p].bin \in Build
      BY <2>3, <2>4 DEF Empty
    <2>6. pc'[p] \in {"retain", "clean"}
      BY <1>8 DEF Provide, TypeOK
    <2>9. StageOf(p)'
      BY <2>5, <2>6 DEF StageOf
    <2> QED
      BY <1>0, <2>1, <2>9
  <1>9. ASSUME NEW p \in Process, FallBack(p) PROVE StageInv'
    <2>1. \A q \in Process \ {p} :
           stage'[q] = stage[q] /\ pc'[q] = pc[q] /\ late'[q] = late[q]
      BY <1>9 DEF FallBack, Stage, TypeOK
    <2>2. PICK b \in {None, Torn} : Stage(p, [Empty EXCEPT !.bin = b, !.scratch = TRUE])
      BY <1>9 DEF FallBack
    <2>3. [Empty EXCEPT !.bin = b, !.scratch = TRUE] \in Tree
      BY TreeMade, EmptyTree
    <2>4. stage'[p] \in Tree
      BY <2>2, <2>3, StageUpdate
    <2>5. pc'[p] = "reset"
      BY <1>9 DEF FallBack, TypeOK
    <2>9. StageOf(p)'
      BY <2>4, <2>5 DEF StageOf
    <2> QED
      BY <1>0, <2>1, <2>9
  <1>10. ASSUME NEW p \in Process, ProviderFails(p) PROVE StageInv'
    BY <1>10 DEF ProviderFails, StageInv, LateInv, StageOf, TypeOK, Whole, Staging
  <1>11. ASSUME NEW p \in Process, Reset(p) PROVE StageInv'
    <2>1. \A q \in Process \ {p} :
           stage'[q] = stage[q] /\ pc'[q] = pc[q] /\ late'[q] = late[q]
      BY <1>11 DEF Reset, Stage, TypeOK
    <2>2. stage'[p] = Empty /\ pc'[p] = "rebuild"
      BY <1>11, StageUpdate, EmptyTree DEF Reset, TypeOK
    <2>9. StageOf(p)'
      BY <2>2, EmptyTree DEF StageOf
    <2> QED
      BY <1>0, <2>1, <2>9
  <1>12. ASSUME NEW p \in Process, RetainBinOnly(p) PROVE StageInv'
    <2>1. \A q \in Process \ {p} :
           stage'[q] = stage[q] /\ pc'[q] = pc[q] /\ late'[q] = late[q]
      BY <1>12 DEF RetainBinOnly, Stage, TypeOK
    <2>2. /\ stage[p] \in Tree /\ pc[p] = "retain" /\ pc'[p] = "inspect" /\ StageOf(p)
          /\ Stage(p, [Empty EXCEPT !.bin = stage[p].bin])
      BY <1>12 DEF RetainBinOnly, StageInv, StageOf, Staging, TypeOK
    <2>3. [Empty EXCEPT !.bin = stage[p].bin] \in Tree
      BY <2>2, TreeUpdate, TreeMade, EmptyTree
    <2>4. stage'[p] = [Empty EXCEPT !.bin = stage[p].bin]
      BY <2>2, <2>3, StageUpdate
    <2>5. stage'[p].bin \in Build /\ ~stage'[p].scratch
      BY <2>2, <2>4 DEF StageOf, Whole, Tree, Empty
    <2>9. StageOf(p)'
      BY <2>2, <2>3, <2>4, <2>5 DEF StageOf
    <2> QED
      BY <1>0, <2>1, <2>9
  <1>13. ASSUME NEW p \in Process, CleanWorkspace(p) PROVE StageInv'
    <2>1. \A q \in Process \ {p} :
           stage'[q] = stage[q] /\ pc'[q] = pc[q] /\ late'[q] = late[q]
      BY <1>13 DEF CleanWorkspace, Stage, TypeOK
    <2>2. /\ stage[p] \in Tree /\ pc[p] = "clean" /\ pc'[p] = "inspect" /\ StageOf(p)
          /\ Stage(p, [stage[p] EXCEPT !.scratch = FALSE])
      BY <1>13 DEF CleanWorkspace, StageInv, StageOf, Staging, TypeOK
    <2>3. [stage[p] EXCEPT !.scratch = FALSE] \in Tree
      BY <2>2, TreeUpdate, TreeMade, EmptyTree
    <2>4. stage'[p] = [stage[p] EXCEPT !.scratch = FALSE]
      BY <2>2, <2>3, StageUpdate
    <2>5. stage'[p].bin \in Build /\ ~stage'[p].scratch
      BY <2>2, <2>4 DEF StageOf, Whole, Tree, Empty
    <2>9. StageOf(p)'
      BY <2>2, <2>3, <2>4, <2>5 DEF StageOf
    <2> QED
      BY <1>0, <2>1, <2>9
  <1>14. ASSUME NEW p \in Process, InspectBins(p) PROVE StageInv'
    <2>1. \A q \in Process \ {p} :
           stage'[q] = stage[q] /\ pc'[q] = pc[q] /\ late'[q] = late[q]
      BY <1>14 DEF InspectBins, Stage, TypeOK
    <2>2. /\ stage[p] \in Tree /\ pc[p] = "inspect" /\ pc'[p] = "mark" /\ StageOf(p)
          /\ Stage(p, [stage[p] EXCEPT !.receipt = stage[p].bin])
      BY <1>14 DEF InspectBins, StageInv, StageOf, Staging, TypeOK
    <2>3. [stage[p] EXCEPT !.receipt = stage[p].bin] \in Tree
      BY <2>2, TreeUpdate, TreeMade, EmptyTree
    <2>4. stage'[p] = [stage[p] EXCEPT !.receipt = stage[p].bin]
      BY <2>2, <2>3, StageUpdate
    <2>5. /\ stage'[p].bin \in Build /\ stage'[p].receipt = stage'[p].bin
          /\ stage'[p].scratch = stage[p].scratch
      BY <2>2, <2>4 DEF StageOf, Whole, Tree, Empty
    <2>6. (stage[p].scratch => late[p] # "nothing") /\ late'[p] = late[p]
      BY <1>14, <2>2 DEF StageOf, InspectBins
    <2>9. StageOf(p)'
      BY <2>2, <2>3, <2>4, <2>5, <2>6 DEF StageOf
    <2> QED
      BY <1>0, <2>1, <2>9
  <1>15. ASSUME NEW p \in Process, Mark(p) PROVE StageInv'
    <2>1. \A q \in Process \ {p} :
           stage'[q] = stage[q] /\ pc'[q] = pc[q] /\ late'[q] = late[q]
      BY <1>15 DEF Mark, Stage, TypeOK
    <2>2. /\ stage[p] \in Tree /\ pc[p] = "mark" /\ pc'[p] = "seal" /\ StageOf(p)
          /\ Stage(p, [stage[p] EXCEPT !.manifest = TRUE, !.marker = TRUE])
      BY <1>15 DEF Mark, StageInv, StageOf, Staging, TypeOK
    <2>3. [stage[p] EXCEPT !.manifest = TRUE, !.marker = TRUE] \in Tree
      BY <2>2, TreeUpdate, TreeMade, EmptyTree
    <2>4. stage'[p] = [stage[p] EXCEPT !.manifest = TRUE, !.marker = TRUE]
      BY <2>2, <2>3, StageUpdate
    <2>5. Whole(stage[p])' /\ stage'[p].scratch = stage[p].scratch
      BY <2>2, <2>4 DEF StageOf, Whole, Tree, Empty
    <2>6. (stage[p].scratch => late[p] # "nothing") /\ late'[p] = late[p]
      BY <1>15, <2>2 DEF StageOf, Mark
    <2>9. StageOf(p)'
      BY <2>2, <2>3, <2>4, <2>5, <2>6 DEF StageOf
    <2> QED
      BY <1>0, <2>1, <2>9
  <1>16. ASSUME NEW p \in Process, CreateSeal(p) PROVE StageInv'
    BY <1>16 DEF CreateSeal, StageInv, LateInv, StageOf, TypeOK, Whole, Staging
  <1>17. ASSUME NEW p \in Process, WriteSeal(p) PROVE StageInv'
    BY <1>17 DEF WriteSeal, StageInv, LateInv, StageOf, TypeOK, Whole, Staging
  <1>18. ASSUME NEW p \in Process, PublishFails(p) PROVE StageInv'
    BY <1>18 DEF PublishFails, StageInv, LateInv, StageOf, TypeOK, Whole, Staging
  <1>19. ASSUME NEW p \in Process, Publish(p) PROVE StageInv'
    BY <1>19 DEF Publish, StageInv, LateInv, StageOf, TypeOK, Whole, Staging
  <1>20. ASSUME NEW p \in Process, RenameFails(p) PROVE StageInv'
    BY <1>20 DEF RenameFails, StageInv, LateInv, StageOf, TypeOK, Whole, Staging
  <1>21. ASSUME NEW p \in Process, StartUninstall(p) PROVE StageInv'
    BY <1>21 DEF StartUninstall, StageInv, LateInv, StageOf, TypeOK, Whole, Staging
  <1>22. ASSUME NEW p \in Process, AcquireRemovalLock(p) PROVE StageInv'
    BY <1>22 DEF AcquireRemovalLock, StageInv, LateInv, StageOf, TypeOK, Whole, Staging
  <1>23. ASSUME NEW p \in Process, RemoveFile(p) PROVE StageInv'
    BY <1>23 DEF RemoveFile, StageInv, LateInv, StageOf, TypeOK, Whole, Staging
  <1>24. ASSUME NEW p \in Process, RemoveRoot(p) PROVE StageInv'
    BY <1>24 DEF RemoveRoot, StageInv, LateInv, StageOf, TypeOK, Whole, Staging
  <1>25. ASSUME NEW p \in Process, RemoveSeal(p) PROVE StageInv'
    BY <1>25 DEF RemoveSeal, StageInv, LateInv, StageOf, TypeOK, Whole, Staging
  <1>26. ASSUME NEW p \in Process, RemovalFails(p) PROVE StageInv'
    BY <1>26 DEF RemovalFails, StageInv, LateInv, StageOf, TypeOK, Whole, Staging
  <1>27. ASSUME NEW p \in Process, LateWrite(p) PROVE StageInv'
    <2>1. \A q \in Process \ {p} :
           stage'[q] = stage[q] /\ pc'[q] = pc[q] /\ late'[q] = late[q]
      BY <1>27 DEF LateWrite, Stage, TypeOK
    <2>2. stage[p] \in Tree /\ StageOf(p) /\ pc'[p] = pc[p]
      BY <1>27 DEF LateWrite, TypeOK, StageInv, StageOf
    <2>3. [stage[p] EXCEPT !.scratch = TRUE] \in Tree /\ [stage[p] EXCEPT !.bin = Torn] \in Tree
      BY <2>2, TreeUpdate, EmptyTree
    <2>4. stage'[p] \in Tree
      BY <1>27, <2>3, StageUpdate DEF LateWrite
    <2>5. ASSUME pc[p] = "reset" PROVE StageOf(p)'
      <3>1. pc'[p] = "reset"
        BY <2>2, <2>5
      <3> QED
        BY <2>4, <3>1 DEF StageOf
    <2>6. ASSUME pc[p] # "reset" PROVE StageOf(p)'
      <3>1. late[p] # "anything" /\ late[p] # "nothing" /\ late'[p] = late[p]
        BY <1>27, <2>6 DEF LateInv, LateWrite
      <3>2. stage'[p] = [stage[p] EXCEPT !.scratch = TRUE]
        BY <1>27, <2>3, <3>1, StageUpdate DEF LateWrite
      <3>3. /\ stage'[p].bin = stage[p].bin /\ stage'[p].receipt = stage[p].receipt
            /\ stage'[p].manifest = stage[p].manifest /\ stage'[p].marker = stage[p].marker
        BY <2>2, <3>2 DEF Tree
      <3>4. Whole(stage[p]) => Whole(stage[p])'
        BY <3>3 DEF Whole
      <3> QED
        BY <2>2, <2>4, <3>1, <3>3, <3>4 DEF StageOf
    <2>9. StageOf(p)'
      BY <2>5, <2>6
    <2> QED
      BY <1>0, <2>1, <2>9
  <1>28. ASSUME NEW p \in Process, Kill(p) PROVE StageInv'
    BY <1>28 DEF Kill, StageInv, LateInv, StageOf, TypeOK, Whole, Staging
  <1>29. CASE Edit
    BY <1>29 DEF Edit, StageInv, LateInv, StageOf, TypeOK, Whole, Staging
  <1>30. CASE ChangeRuntime
    BY <1>30 DEF ChangeRuntime, StageInv, LateInv, StageOf, TypeOK, Whole, Staging
  <1> QED
    BY <1>1, <1>2, <1>3, <1>4, <1>5, <1>6, <1>7, <1>8, <1>9, <1>10, <1>11, <1>12, <1>13, <1>14, <1>15, <1>16, <1>17, <1>18, <1>19, <1>20, <1>21, <1>22, <1>23, <1>24, <1>25, <1>26, <1>27, <1>28, <1>29, <1>30 DEF Next, Run

LEMMA RootStep ==
  ASSUME TypeOK, LockInv, RootInv, TypeOK', [Next]_vars
  PROVE  RootInv'
  <1> USE ConstantsAssumption DEF Goto, Fails, Stage, Late, Leave, files
  <1>1. CASE UNCHANGED vars
    BY <1>1 DEF vars, RootInv, LockInv, TypeOK, Holding, Staging
  <1>2. ASSUME NEW p \in Process, Start(p) PROVE RootInv'
    BY <1>2 DEF Start, RootInv, LockInv, TypeOK, Holding, Staging
  <1>3. ASSUME NEW p \in Process, ClearMarker(p) PROVE RootInv'
    BY <1>3 DEF ClearMarker, RootInv, LockInv, TypeOK, Holding, Staging
  <1>4. ASSUME NEW p \in Process, AcquireLock(p) PROVE RootInv'
    BY <1>4 DEF AcquireLock, RootInv, LockInv, TypeOK, Holding, Staging
  <1>5. ASSUME NEW p \in Process, ReuseOrRefuse(p) PROVE RootInv'
    BY <1>5 DEF ReuseOrRefuse, RootInv, LockInv, TypeOK, Holding, Staging
  <1>6. ASSUME NEW p \in Process, DiscardRoot(p) PROVE RootInv'
    BY <1>6 DEF DiscardRoot, RootInv, LockInv, TypeOK, Holding, Staging
  <1>7. ASSUME NEW p \in Process, StageWithLock(p) PROVE RootInv'
    BY <1>7 DEF StageWithLock, RootInv, LockInv, TypeOK, Holding, Staging
  <1>8. ASSUME NEW p \in Process, Provide(p) PROVE RootInv'
    BY <1>8 DEF Provide, RootInv, LockInv, TypeOK, Holding, Staging
  <1>9. ASSUME NEW p \in Process, FallBack(p) PROVE RootInv'
    BY <1>9 DEF FallBack, RootInv, LockInv, TypeOK, Holding, Staging
  <1>10. ASSUME NEW p \in Process, ProviderFails(p) PROVE RootInv'
    BY <1>10 DEF ProviderFails, RootInv, LockInv, TypeOK, Holding, Staging
  <1>11. ASSUME NEW p \in Process, Reset(p) PROVE RootInv'
    BY <1>11 DEF Reset, RootInv, LockInv, TypeOK, Holding, Staging
  <1>12. ASSUME NEW p \in Process, RetainBinOnly(p) PROVE RootInv'
    BY <1>12 DEF RetainBinOnly, RootInv, LockInv, TypeOK, Holding, Staging
  <1>13. ASSUME NEW p \in Process, CleanWorkspace(p) PROVE RootInv'
    BY <1>13 DEF CleanWorkspace, RootInv, LockInv, TypeOK, Holding, Staging
  <1>14. ASSUME NEW p \in Process, InspectBins(p) PROVE RootInv'
    BY <1>14 DEF InspectBins, RootInv, LockInv, TypeOK, Holding, Staging
  <1>15. ASSUME NEW p \in Process, Mark(p) PROVE RootInv'
    BY <1>15 DEF Mark, RootInv, LockInv, TypeOK, Holding, Staging
  <1>16. ASSUME NEW p \in Process, CreateSeal(p) PROVE RootInv'
    BY <1>16 DEF CreateSeal, RootInv, LockInv, TypeOK, Holding, Staging
  <1>17. ASSUME NEW p \in Process, WriteSeal(p) PROVE RootInv'
    BY <1>17 DEF WriteSeal, RootInv, LockInv, TypeOK, Holding, Staging
  <1>18. ASSUME NEW p \in Process, PublishFails(p) PROVE RootInv'
    BY <1>18 DEF PublishFails, RootInv, LockInv, TypeOK, Holding, Staging
  <1>19. ASSUME NEW p \in Process, Publish(p) PROVE RootInv'
    BY <1>19 DEF Publish, RootInv, LockInv, TypeOK, Holding, Staging
  <1>20. ASSUME NEW p \in Process, RenameFails(p) PROVE RootInv'
    BY <1>20 DEF RenameFails, RootInv, LockInv, TypeOK, Holding, Staging
  <1>21. ASSUME NEW p \in Process, StartUninstall(p) PROVE RootInv'
    BY <1>21 DEF StartUninstall, RootInv, LockInv, TypeOK, Holding, Staging
  <1>22. ASSUME NEW p \in Process, AcquireRemovalLock(p) PROVE RootInv'
    BY <1>22 DEF AcquireRemovalLock, RootInv, LockInv, TypeOK, Holding, Staging
  <1>23. ASSUME NEW p \in Process, RemoveFile(p) PROVE RootInv'
    BY <1>23 DEF RemoveFile, RootInv, LockInv, TypeOK, Holding, Staging
  <1>24. ASSUME NEW p \in Process, RemoveRoot(p) PROVE RootInv'
    BY <1>24 DEF RemoveRoot, RootInv, LockInv, TypeOK, Holding, Staging
  <1>25. ASSUME NEW p \in Process, RemoveSeal(p) PROVE RootInv'
    BY <1>25 DEF RemoveSeal, RootInv, LockInv, TypeOK, Holding, Staging
  <1>26. ASSUME NEW p \in Process, RemovalFails(p) PROVE RootInv'
    BY <1>26 DEF RemovalFails, RootInv, LockInv, TypeOK, Holding, Staging
  <1>27. ASSUME NEW p \in Process, LateWrite(p) PROVE RootInv'
    BY <1>27 DEF LateWrite, RootInv, LockInv, TypeOK, Holding, Staging
  <1>28. ASSUME NEW p \in Process, Kill(p) PROVE RootInv'
    BY <1>28 DEF Kill, RootInv, LockInv, TypeOK, Holding, Staging
  <1>29. CASE Edit
    BY <1>29 DEF Edit, RootInv, LockInv, TypeOK, Holding, Staging
  <1>30. CASE ChangeRuntime
    BY <1>30 DEF ChangeRuntime, RootInv, LockInv, TypeOK, Holding, Staging
  <1> QED
    BY <1>1, <1>2, <1>3, <1>4, <1>5, <1>6, <1>7, <1>8, <1>9, <1>10, <1>11, <1>12, <1>13, <1>14, <1>15, <1>16, <1>17, <1>18, <1>19, <1>20, <1>21, <1>22, <1>23, <1>24, <1>25, <1>26, <1>27, <1>28, <1>29, <1>30 DEF Next, Run

LEMMA SealStep ==
  ASSUME TypeOK, LockInv, LateInv, StageInv, SealInv, TypeOK', [Next]_vars
  PROVE  SealInv'
  <1> USE ConstantsAssumption DEF Goto, Fails, Stage, Late, Leave, files
  <1>1. CASE UNCHANGED vars
    BY <1>1 DEF vars, SealInv, Strayed, LockInv, LateInv, TypeOK, Holding, Staging
  <1>2. ASSUME NEW p \in Process, Start(p) PROVE SealInv'
    BY <1>2 DEF Start, SealInv, Strayed, LockInv, LateInv, TypeOK, Holding, Staging
  <1>3. ASSUME NEW p \in Process, ClearMarker(p) PROVE SealInv'
    BY <1>3 DEF ClearMarker, SealInv, Strayed, LockInv, LateInv, TypeOK, Holding, Staging
  <1>4. ASSUME NEW p \in Process, AcquireLock(p) PROVE SealInv'
    BY <1>4 DEF AcquireLock, SealInv, Strayed, LockInv, LateInv, TypeOK, Holding, Staging
  <1>5. ASSUME NEW p \in Process, ReuseOrRefuse(p) PROVE SealInv'
    BY <1>5 DEF ReuseOrRefuse, SealInv, Strayed, LockInv, LateInv, TypeOK, Holding, Staging
  <1>6. ASSUME NEW p \in Process, DiscardRoot(p) PROVE SealInv'
    BY <1>6 DEF DiscardRoot, SealInv, Strayed, LockInv, LateInv, TypeOK, Holding, Staging
  <1>7. ASSUME NEW p \in Process, StageWithLock(p) PROVE SealInv'
    BY <1>7 DEF StageWithLock, SealInv, Strayed, LockInv, LateInv, TypeOK, Holding, Staging
  <1>8. ASSUME NEW p \in Process, Provide(p) PROVE SealInv'
    BY <1>8 DEF Provide, SealInv, Strayed, LockInv, LateInv, TypeOK, Holding, Staging
  <1>9. ASSUME NEW p \in Process, FallBack(p) PROVE SealInv'
    BY <1>9 DEF FallBack, SealInv, Strayed, LockInv, LateInv, TypeOK, Holding, Staging
  <1>10. ASSUME NEW p \in Process, ProviderFails(p) PROVE SealInv'
    BY <1>10 DEF ProviderFails, SealInv, Strayed, LockInv, LateInv, TypeOK, Holding, Staging
  <1>11. ASSUME NEW p \in Process, Reset(p) PROVE SealInv'
    BY <1>11 DEF Reset, SealInv, Strayed, LockInv, LateInv, TypeOK, Holding, Staging
  <1>12. ASSUME NEW p \in Process, RetainBinOnly(p) PROVE SealInv'
    BY <1>12 DEF RetainBinOnly, SealInv, Strayed, LockInv, LateInv, TypeOK, Holding, Staging
  <1>13. ASSUME NEW p \in Process, CleanWorkspace(p) PROVE SealInv'
    BY <1>13 DEF CleanWorkspace, SealInv, Strayed, LockInv, LateInv, TypeOK, Holding, Staging
  <1>14. ASSUME NEW p \in Process, InspectBins(p) PROVE SealInv'
    BY <1>14 DEF InspectBins, SealInv, Strayed, LockInv, LateInv, TypeOK, Holding, Staging
  <1>15. ASSUME NEW p \in Process, Mark(p) PROVE SealInv'
    BY <1>15 DEF Mark, SealInv, Strayed, LockInv, LateInv, TypeOK, Holding, Staging
  <1>16. ASSUME NEW p \in Process, CreateSeal(p) PROVE SealInv'
    BY <1>16 DEF CreateSeal, SealInv, Strayed, LockInv, LateInv, TypeOK, Holding, Staging
  <1>17. ASSUME NEW p \in Process, WriteSeal(p) PROVE SealInv'
    BY <1>17 DEF WriteSeal, SealInv, Strayed, LockInv, LateInv, TypeOK, Holding, Staging
  <1>18. ASSUME NEW p \in Process, PublishFails(p) PROVE SealInv'
    BY <1>18 DEF PublishFails, SealInv, Strayed, LockInv, LateInv, TypeOK, Holding, Staging
  <1>19. ASSUME NEW p \in Process, Publish(p) PROVE SealInv'
    BY <1>19 DEF Publish, SealInv, Strayed, LockInv, LateInv, TypeOK, Holding, Staging
  <1>20. ASSUME NEW p \in Process, RenameFails(p) PROVE SealInv'
    BY <1>20 DEF RenameFails, SealInv, Strayed, LockInv, LateInv, TypeOK, Holding, Staging
  <1>21. ASSUME NEW p \in Process, StartUninstall(p) PROVE SealInv'
    BY <1>21 DEF StartUninstall, SealInv, Strayed, LockInv, LateInv, TypeOK, Holding, Staging
  <1>22. ASSUME NEW p \in Process, AcquireRemovalLock(p) PROVE SealInv'
    BY <1>22 DEF AcquireRemovalLock, SealInv, Strayed, LockInv, LateInv, TypeOK, Holding, Staging
  <1>23. ASSUME NEW p \in Process, RemoveFile(p) PROVE SealInv'
    BY <1>23 DEF RemoveFile, SealInv, Strayed, LockInv, LateInv, TypeOK, Holding, Staging
  <1>24. ASSUME NEW p \in Process, RemoveRoot(p) PROVE SealInv'
    BY <1>24 DEF RemoveRoot, SealInv, Strayed, LockInv, LateInv, TypeOK, Holding, Staging
  <1>25. ASSUME NEW p \in Process, RemoveSeal(p) PROVE SealInv'
    BY <1>25 DEF RemoveSeal, SealInv, Strayed, LockInv, LateInv, TypeOK, Holding, Staging
  <1>26. ASSUME NEW p \in Process, RemovalFails(p) PROVE SealInv'
    BY <1>26 DEF RemovalFails, SealInv, Strayed, LockInv, LateInv, TypeOK, Holding, Staging
  <1>27. ASSUME NEW p \in Process, LateWrite(p) PROVE SealInv'
    <2>1. (\A q \in Process \ {p} : stage'[q] = stage[q]) /\ UNCHANGED <<seal, pc, late>>
      BY <1>27 DEF LateWrite, TypeOK
    <2>2. stage[p] \in Tree
      BY <1>27 DEF LateWrite, TypeOK
    <2>3. pc[p] = "publish" => Strayed(p)'
      <3> SUFFICES ASSUME pc[p] = "publish" PROVE late'[p] # "nothing" /\ stage'[p].scratch
        BY DEF Strayed
      <3>1. late[p] # "nothing" /\ late'[p] = late[p] /\ stage'[p] = [stage[p] EXCEPT !.scratch = TRUE]
        BY <1>27 DEF LateWrite, LateInv, TypeOK
      <3> QED
        BY <2>2, <3>1 DEF Tree
    <2>4. ASSUME NEW q \in Process, pc'[q] = "publish" PROVE seal' = stage'[q] \/ Strayed(q)'
      <3>1. CASE q = p
        BY <2>1, <2>3, <2>4, <3>1 DEF Strayed
      <3>2. CASE q # p
        BY <2>1, <2>4, <3>2 DEF SealInv, Strayed
      <3> QED
        BY <3>1, <3>2
    <2> QED
      BY <2>1, <2>4 DEF SealInv
  <1>28. ASSUME NEW p \in Process, Kill(p) PROVE SealInv'
    BY <1>28 DEF Kill, SealInv, Strayed, LockInv, LateInv, TypeOK, Holding, Staging
  <1>29. CASE Edit
    BY <1>29 DEF Edit, SealInv, Strayed, LockInv, LateInv, TypeOK, Holding, Staging
  <1>30. CASE ChangeRuntime
    BY <1>30 DEF ChangeRuntime, SealInv, Strayed, LockInv, LateInv, TypeOK, Holding, Staging
  <1> QED
    BY <1>1, <1>2, <1>3, <1>4, <1>5, <1>6, <1>7, <1>8, <1>9, <1>10, <1>11, <1>12, <1>13, <1>14, <1>15, <1>16, <1>17, <1>18, <1>19, <1>20, <1>21, <1>22, <1>23, <1>24, <1>25, <1>26, <1>27, <1>28, <1>29, <1>30 DEF Next, Run

LEMMA WholeStep ==
  ASSUME TypeOK, StageInv, WholeInv, TypeOK', [Next]_vars
  PROVE  WholeInv'
  <1> USE ConstantsAssumption DEF Goto, Fails, Stage, Late, Leave, files
  <1>1. CASE UNCHANGED vars
    BY <1>1 DEF vars, WholeInv, StageInv, StageOf, TypeOK
  <1>2. ASSUME NEW p \in Process, Start(p) PROVE WholeInv'
    BY <1>2 DEF Start, WholeInv, StageInv, StageOf, TypeOK
  <1>3. ASSUME NEW p \in Process, ClearMarker(p) PROVE WholeInv'
    BY <1>3 DEF ClearMarker, WholeInv, StageInv, StageOf, TypeOK
  <1>4. ASSUME NEW p \in Process, AcquireLock(p) PROVE WholeInv'
    BY <1>4 DEF AcquireLock, WholeInv, StageInv, StageOf, TypeOK
  <1>5. ASSUME NEW p \in Process, ReuseOrRefuse(p) PROVE WholeInv'
    BY <1>5 DEF ReuseOrRefuse, WholeInv, StageInv, StageOf, TypeOK
  <1>6. ASSUME NEW p \in Process, DiscardRoot(p) PROVE WholeInv'
    BY <1>6 DEF DiscardRoot, WholeInv, StageInv, StageOf, TypeOK
  <1>7. ASSUME NEW p \in Process, StageWithLock(p) PROVE WholeInv'
    BY <1>7 DEF StageWithLock, WholeInv, StageInv, StageOf, TypeOK
  <1>8. ASSUME NEW p \in Process, Provide(p) PROVE WholeInv'
    BY <1>8 DEF Provide, WholeInv, StageInv, StageOf, TypeOK
  <1>9. ASSUME NEW p \in Process, FallBack(p) PROVE WholeInv'
    BY <1>9 DEF FallBack, WholeInv, StageInv, StageOf, TypeOK
  <1>10. ASSUME NEW p \in Process, ProviderFails(p) PROVE WholeInv'
    BY <1>10 DEF ProviderFails, WholeInv, StageInv, StageOf, TypeOK
  <1>11. ASSUME NEW p \in Process, Reset(p) PROVE WholeInv'
    BY <1>11 DEF Reset, WholeInv, StageInv, StageOf, TypeOK
  <1>12. ASSUME NEW p \in Process, RetainBinOnly(p) PROVE WholeInv'
    BY <1>12 DEF RetainBinOnly, WholeInv, StageInv, StageOf, TypeOK
  <1>13. ASSUME NEW p \in Process, CleanWorkspace(p) PROVE WholeInv'
    BY <1>13 DEF CleanWorkspace, WholeInv, StageInv, StageOf, TypeOK
  <1>14. ASSUME NEW p \in Process, InspectBins(p) PROVE WholeInv'
    BY <1>14 DEF InspectBins, WholeInv, StageInv, StageOf, TypeOK
  <1>15. ASSUME NEW p \in Process, Mark(p) PROVE WholeInv'
    BY <1>15 DEF Mark, WholeInv, StageInv, StageOf, TypeOK
  <1>16. ASSUME NEW p \in Process, CreateSeal(p) PROVE WholeInv'
    BY <1>16 DEF CreateSeal, WholeInv, StageInv, StageOf, TypeOK
  <1>17. ASSUME NEW p \in Process, WriteSeal(p) PROVE WholeInv'
    BY <1>17 DEF WriteSeal, WholeInv, StageInv, StageOf, TypeOK
  <1>18. ASSUME NEW p \in Process, PublishFails(p) PROVE WholeInv'
    BY <1>18 DEF PublishFails, WholeInv, StageInv, StageOf, TypeOK
  <1>19. ASSUME NEW p \in Process, Publish(p) PROVE WholeInv'
    BY <1>19 DEF Publish, WholeInv, StageInv, StageOf, TypeOK
  <1>20. ASSUME NEW p \in Process, RenameFails(p) PROVE WholeInv'
    BY <1>20 DEF RenameFails, WholeInv, StageInv, StageOf, TypeOK
  <1>21. ASSUME NEW p \in Process, StartUninstall(p) PROVE WholeInv'
    BY <1>21 DEF StartUninstall, WholeInv, StageInv, StageOf, TypeOK
  <1>22. ASSUME NEW p \in Process, AcquireRemovalLock(p) PROVE WholeInv'
    BY <1>22 DEF AcquireRemovalLock, WholeInv, StageInv, StageOf, TypeOK
  <1>23. ASSUME NEW p \in Process, RemoveFile(p) PROVE WholeInv'
    BY <1>23 DEF RemoveFile, WholeInv, StageInv, StageOf, TypeOK
  <1>24. ASSUME NEW p \in Process, RemoveRoot(p) PROVE WholeInv'
    BY <1>24 DEF RemoveRoot, WholeInv, StageInv, StageOf, TypeOK
  <1>25. ASSUME NEW p \in Process, RemoveSeal(p) PROVE WholeInv'
    BY <1>25 DEF RemoveSeal, WholeInv, StageInv, StageOf, TypeOK
  <1>26. ASSUME NEW p \in Process, RemovalFails(p) PROVE WholeInv'
    BY <1>26 DEF RemovalFails, WholeInv, StageInv, StageOf, TypeOK
  <1>27. ASSUME NEW p \in Process, LateWrite(p) PROVE WholeInv'
    BY <1>27 DEF LateWrite, WholeInv, StageInv, StageOf, TypeOK
  <1>28. ASSUME NEW p \in Process, Kill(p) PROVE WholeInv'
    BY <1>28 DEF Kill, WholeInv, StageInv, StageOf, TypeOK
  <1>29. CASE Edit
    BY <1>29 DEF Edit, WholeInv, StageInv, StageOf, TypeOK
  <1>30. CASE ChangeRuntime
    BY <1>30 DEF ChangeRuntime, WholeInv, StageInv, StageOf, TypeOK
  <1> QED
    BY <1>1, <1>2, <1>3, <1>4, <1>5, <1>6, <1>7, <1>8, <1>9, <1>10, <1>11, <1>12, <1>13, <1>14, <1>15, <1>16, <1>17, <1>18, <1>19, <1>20, <1>21, <1>22, <1>23, <1>24, <1>25, <1>26, <1>27, <1>28, <1>29, <1>30 DEF Next, Run

LEMMA KeptStep ==
  ASSUME TypeOK, StageInv, RootInv, SealInv, WholeInv, KeptInv, TypeOK', [Next]_vars
  PROVE  KeptInv'
  <1> USE ConstantsAssumption DEF Goto, Fails, Stage, Late, Leave, files
  <1>1. CASE UNCHANGED vars
    BY <1>1 DEF vars, KeptInv, Strayed, StageInv, StageOf, RootInv, SealInv, TypeOK, Whole, Marked, Empty, Staging
  <1>2. ASSUME NEW p \in Process, Start(p) PROVE KeptInv'
    BY <1>2 DEF Start, KeptInv, Strayed, StageInv, StageOf, RootInv, SealInv, TypeOK, Whole, Marked, Empty, Staging
  <1>3. ASSUME NEW p \in Process, ClearMarker(p) PROVE KeptInv'
    BY <1>3 DEF ClearMarker, KeptInv, Strayed, StageInv, StageOf, RootInv, SealInv, TypeOK, Whole, Marked, Empty, Staging
  <1>4. ASSUME NEW p \in Process, AcquireLock(p) PROVE KeptInv'
    BY <1>4 DEF AcquireLock, KeptInv, Strayed, StageInv, StageOf, RootInv, SealInv, TypeOK, Whole, Marked, Empty, Staging
  <1>5. ASSUME NEW p \in Process, ReuseOrRefuse(p) PROVE KeptInv'
    BY <1>5 DEF ReuseOrRefuse, KeptInv, Strayed, StageInv, StageOf, RootInv, SealInv, TypeOK, Whole, Marked, Empty, Staging
  <1>6. ASSUME NEW p \in Process, DiscardRoot(p) PROVE KeptInv'
    BY <1>6 DEF DiscardRoot, WholeInv, KeptInv, Strayed, StageInv, StageOf, RootInv, SealInv, TypeOK, Whole, Marked, Empty, Staging
  <1>7. ASSUME NEW p \in Process, StageWithLock(p) PROVE KeptInv'
    BY <1>7 DEF StageWithLock, KeptInv, Strayed, StageInv, StageOf, RootInv, SealInv, TypeOK, Whole, Marked, Empty, Staging
  <1>8. ASSUME NEW p \in Process, Provide(p) PROVE KeptInv'
    BY <1>8 DEF Provide, KeptInv, Strayed, StageInv, StageOf, RootInv, SealInv, TypeOK, Whole, Marked, Empty, Staging
  <1>9. ASSUME NEW p \in Process, FallBack(p) PROVE KeptInv'
    BY <1>9 DEF FallBack, KeptInv, Strayed, StageInv, StageOf, RootInv, SealInv, TypeOK, Whole, Marked, Empty, Staging
  <1>10. ASSUME NEW p \in Process, ProviderFails(p) PROVE KeptInv'
    BY <1>10 DEF ProviderFails, KeptInv, Strayed, StageInv, StageOf, RootInv, SealInv, TypeOK, Whole, Marked, Empty, Staging
  <1>11. ASSUME NEW p \in Process, Reset(p) PROVE KeptInv'
    BY <1>11 DEF Reset, KeptInv, Strayed, StageInv, StageOf, RootInv, SealInv, TypeOK, Whole, Marked, Empty, Staging
  <1>12. ASSUME NEW p \in Process, RetainBinOnly(p) PROVE KeptInv'
    BY <1>12 DEF RetainBinOnly, KeptInv, Strayed, StageInv, StageOf, RootInv, SealInv, TypeOK, Whole, Marked, Empty, Staging
  <1>13. ASSUME NEW p \in Process, CleanWorkspace(p) PROVE KeptInv'
    BY <1>13 DEF CleanWorkspace, KeptInv, Strayed, StageInv, StageOf, RootInv, SealInv, TypeOK, Whole, Marked, Empty, Staging
  <1>14. ASSUME NEW p \in Process, InspectBins(p) PROVE KeptInv'
    BY <1>14 DEF InspectBins, KeptInv, Strayed, StageInv, StageOf, RootInv, SealInv, TypeOK, Whole, Marked, Empty, Staging
  <1>15. ASSUME NEW p \in Process, Mark(p) PROVE KeptInv'
    BY <1>15 DEF Mark, KeptInv, Strayed, StageInv, StageOf, RootInv, SealInv, TypeOK, Whole, Marked, Empty, Staging
  <1>16. ASSUME NEW p \in Process, CreateSeal(p) PROVE KeptInv'
    BY <1>16 DEF CreateSeal, KeptInv, Strayed, StageInv, StageOf, RootInv, SealInv, TypeOK, Whole, Marked, Empty, Staging
  <1>17. ASSUME NEW p \in Process, WriteSeal(p) PROVE KeptInv'
    BY <1>17 DEF WriteSeal, KeptInv, Strayed, StageInv, StageOf, RootInv, SealInv, TypeOK, Whole, Marked, Empty, Staging
  <1>18. ASSUME NEW p \in Process, PublishFails(p) PROVE KeptInv'
    BY <1>18 DEF PublishFails, KeptInv, Strayed, StageInv, StageOf, RootInv, SealInv, TypeOK, Whole, Marked, Empty, Staging
  <1>19. ASSUME NEW p \in Process, Publish(p) PROVE KeptInv'
    BY <1>19 DEF Publish, KeptInv, Strayed, StageInv, StageOf, RootInv, SealInv, TypeOK, Whole, Marked, Empty, Staging
  <1>20. ASSUME NEW p \in Process, RenameFails(p) PROVE KeptInv'
    BY <1>20 DEF RenameFails, KeptInv, Strayed, StageInv, StageOf, RootInv, SealInv, TypeOK, Whole, Marked, Empty, Staging
  <1>21. ASSUME NEW p \in Process, StartUninstall(p) PROVE KeptInv'
    BY <1>21 DEF StartUninstall, KeptInv, Strayed, StageInv, StageOf, RootInv, SealInv, TypeOK, Whole, Marked, Empty, Staging
  <1>22. ASSUME NEW p \in Process, AcquireRemovalLock(p) PROVE KeptInv'
    BY <1>22 DEF AcquireRemovalLock, KeptInv, Strayed, StageInv, StageOf, RootInv, SealInv, TypeOK, Whole, Marked, Empty, Staging
  <1>23. ASSUME NEW p \in Process, RemoveFile(p) PROVE KeptInv'
    BY <1>23 DEF RemoveFile, KeptInv, Strayed, StageInv, StageOf, RootInv, SealInv, TypeOK, Whole, Marked, Empty, Staging
  <1>24. ASSUME NEW p \in Process, RemoveRoot(p) PROVE KeptInv'
    BY <1>24 DEF RemoveRoot, KeptInv, Strayed, StageInv, StageOf, RootInv, SealInv, TypeOK, Whole, Marked, Empty, Staging
  <1>25. ASSUME NEW p \in Process, RemoveSeal(p) PROVE KeptInv'
    BY <1>25 DEF RemoveSeal, KeptInv, Strayed, StageInv, StageOf, RootInv, SealInv, TypeOK, Whole, Marked, Empty, Staging
  <1>26. ASSUME NEW p \in Process, RemovalFails(p) PROVE KeptInv'
    BY <1>26 DEF RemovalFails, KeptInv, Strayed, StageInv, StageOf, RootInv, SealInv, TypeOK, Whole, Marked, Empty, Staging
  <1>27. ASSUME NEW p \in Process, LateWrite(p) PROVE KeptInv'
    BY <1>27 DEF LateWrite, KeptInv, Strayed, StageInv, StageOf, RootInv, SealInv, TypeOK, Whole, Marked, Empty, Staging
  <1>28. ASSUME NEW p \in Process, Kill(p) PROVE KeptInv'
    BY <1>28 DEF Kill, KeptInv, Strayed, StageInv, StageOf, RootInv, SealInv, TypeOK, Whole, Marked, Empty, Staging
  <1>29. CASE Edit
    BY <1>29 DEF Edit, KeptInv, Strayed, StageInv, StageOf, RootInv, SealInv, TypeOK, Whole, Marked, Empty, Staging
  <1>30. CASE ChangeRuntime
    BY <1>30 DEF ChangeRuntime, KeptInv, Strayed, StageInv, StageOf, RootInv, SealInv, TypeOK, Whole, Marked, Empty, Staging
  <1> QED
    BY <1>1, <1>2, <1>3, <1>4, <1>5, <1>6, <1>7, <1>8, <1>9, <1>10, <1>11, <1>12, <1>13, <1>14, <1>15, <1>16, <1>17, <1>18, <1>19, <1>20, <1>21, <1>22, <1>23, <1>24, <1>25, <1>26, <1>27, <1>28, <1>29, <1>30 DEF Next, Run

LEMMA StrayStep ==
  ASSUME TypeOK, StageInv, RootInv, SealInv, StrayInv, TypeOK', [Next]_vars
  PROVE  StrayInv'
  <1> USE ConstantsAssumption DEF Goto, Fails, Stage, Late, Leave, files
  <1>1. CASE UNCHANGED vars
    BY <1>1 DEF vars, StrayInv, Strayed, StageInv, StageOf, RootInv, SealInv, TypeOK, Whole, Marked, Empty, Staging
  <1>2. ASSUME NEW p \in Process, Start(p) PROVE StrayInv'
    BY <1>2 DEF Start, StrayInv, Strayed, StageInv, StageOf, RootInv, SealInv, TypeOK, Whole, Marked, Empty, Staging
  <1>3. ASSUME NEW p \in Process, ClearMarker(p) PROVE StrayInv'
    BY <1>3 DEF ClearMarker, StrayInv, Strayed, StageInv, StageOf, RootInv, SealInv, TypeOK, Whole, Marked, Empty, Staging
  <1>4. ASSUME NEW p \in Process, AcquireLock(p) PROVE StrayInv'
    BY <1>4 DEF AcquireLock, StrayInv, Strayed, StageInv, StageOf, RootInv, SealInv, TypeOK, Whole, Marked, Empty, Staging
  <1>5. ASSUME NEW p \in Process, ReuseOrRefuse(p) PROVE StrayInv'
    BY <1>5 DEF ReuseOrRefuse, StrayInv, Strayed, StageInv, StageOf, RootInv, SealInv, TypeOK, Whole, Marked, Empty, Staging
  <1>6. ASSUME NEW p \in Process, DiscardRoot(p) PROVE StrayInv'
    BY <1>6 DEF DiscardRoot, StrayInv, Strayed, StageInv, StageOf, RootInv, SealInv, TypeOK, Whole, Marked, Empty, Staging
  <1>7. ASSUME NEW p \in Process, StageWithLock(p) PROVE StrayInv'
    BY <1>7 DEF StageWithLock, StrayInv, Strayed, StageInv, StageOf, RootInv, SealInv, TypeOK, Whole, Marked, Empty, Staging
  <1>8. ASSUME NEW p \in Process, Provide(p) PROVE StrayInv'
    BY <1>8 DEF Provide, StrayInv, Strayed, StageInv, StageOf, RootInv, SealInv, TypeOK, Whole, Marked, Empty, Staging
  <1>9. ASSUME NEW p \in Process, FallBack(p) PROVE StrayInv'
    BY <1>9 DEF FallBack, StrayInv, Strayed, StageInv, StageOf, RootInv, SealInv, TypeOK, Whole, Marked, Empty, Staging
  <1>10. ASSUME NEW p \in Process, ProviderFails(p) PROVE StrayInv'
    BY <1>10 DEF ProviderFails, StrayInv, Strayed, StageInv, StageOf, RootInv, SealInv, TypeOK, Whole, Marked, Empty, Staging
  <1>11. ASSUME NEW p \in Process, Reset(p) PROVE StrayInv'
    BY <1>11 DEF Reset, StrayInv, Strayed, StageInv, StageOf, RootInv, SealInv, TypeOK, Whole, Marked, Empty, Staging
  <1>12. ASSUME NEW p \in Process, RetainBinOnly(p) PROVE StrayInv'
    BY <1>12 DEF RetainBinOnly, StrayInv, Strayed, StageInv, StageOf, RootInv, SealInv, TypeOK, Whole, Marked, Empty, Staging
  <1>13. ASSUME NEW p \in Process, CleanWorkspace(p) PROVE StrayInv'
    BY <1>13 DEF CleanWorkspace, StrayInv, Strayed, StageInv, StageOf, RootInv, SealInv, TypeOK, Whole, Marked, Empty, Staging
  <1>14. ASSUME NEW p \in Process, InspectBins(p) PROVE StrayInv'
    BY <1>14 DEF InspectBins, StrayInv, Strayed, StageInv, StageOf, RootInv, SealInv, TypeOK, Whole, Marked, Empty, Staging
  <1>15. ASSUME NEW p \in Process, Mark(p) PROVE StrayInv'
    BY <1>15 DEF Mark, StrayInv, Strayed, StageInv, StageOf, RootInv, SealInv, TypeOK, Whole, Marked, Empty, Staging
  <1>16. ASSUME NEW p \in Process, CreateSeal(p) PROVE StrayInv'
    BY <1>16 DEF CreateSeal, StrayInv, Strayed, StageInv, StageOf, RootInv, SealInv, TypeOK, Whole, Marked, Empty, Staging
  <1>17. ASSUME NEW p \in Process, WriteSeal(p) PROVE StrayInv'
    BY <1>17 DEF WriteSeal, StrayInv, Strayed, StageInv, StageOf, RootInv, SealInv, TypeOK, Whole, Marked, Empty, Staging
  <1>18. ASSUME NEW p \in Process, PublishFails(p) PROVE StrayInv'
    BY <1>18 DEF PublishFails, StrayInv, Strayed, StageInv, StageOf, RootInv, SealInv, TypeOK, Whole, Marked, Empty, Staging
  <1>19. ASSUME NEW p \in Process, Publish(p) PROVE StrayInv'
    BY <1>19 DEF Publish, StrayInv, Strayed, StageInv, StageOf, RootInv, SealInv, TypeOK, Whole, Marked, Empty, Staging
  <1>20. ASSUME NEW p \in Process, RenameFails(p) PROVE StrayInv'
    BY <1>20 DEF RenameFails, StrayInv, Strayed, StageInv, StageOf, RootInv, SealInv, TypeOK, Whole, Marked, Empty, Staging
  <1>21. ASSUME NEW p \in Process, StartUninstall(p) PROVE StrayInv'
    BY <1>21 DEF StartUninstall, StrayInv, Strayed, StageInv, StageOf, RootInv, SealInv, TypeOK, Whole, Marked, Empty, Staging
  <1>22. ASSUME NEW p \in Process, AcquireRemovalLock(p) PROVE StrayInv'
    BY <1>22 DEF AcquireRemovalLock, StrayInv, Strayed, StageInv, StageOf, RootInv, SealInv, TypeOK, Whole, Marked, Empty, Staging
  <1>23. ASSUME NEW p \in Process, RemoveFile(p) PROVE StrayInv'
    BY <1>23 DEF RemoveFile, StrayInv, Strayed, StageInv, StageOf, RootInv, SealInv, TypeOK, Whole, Marked, Empty, Staging
  <1>24. ASSUME NEW p \in Process, RemoveRoot(p) PROVE StrayInv'
    BY <1>24 DEF RemoveRoot, StrayInv, Strayed, StageInv, StageOf, RootInv, SealInv, TypeOK, Whole, Marked, Empty, Staging
  <1>25. ASSUME NEW p \in Process, RemoveSeal(p) PROVE StrayInv'
    BY <1>25 DEF RemoveSeal, StrayInv, Strayed, StageInv, StageOf, RootInv, SealInv, TypeOK, Whole, Marked, Empty, Staging
  <1>26. ASSUME NEW p \in Process, RemovalFails(p) PROVE StrayInv'
    BY <1>26 DEF RemovalFails, StrayInv, Strayed, StageInv, StageOf, RootInv, SealInv, TypeOK, Whole, Marked, Empty, Staging
  <1>27. ASSUME NEW p \in Process, LateWrite(p) PROVE StrayInv'
    BY <1>27 DEF LateWrite, StrayInv, Strayed, StageInv, StageOf, RootInv, SealInv, TypeOK, Whole, Marked, Empty, Staging
  <1>28. ASSUME NEW p \in Process, Kill(p) PROVE StrayInv'
    BY <1>28 DEF Kill, StrayInv, Strayed, StageInv, StageOf, RootInv, SealInv, TypeOK, Whole, Marked, Empty, Staging
  <1>29. CASE Edit
    BY <1>29 DEF Edit, StrayInv, Strayed, StageInv, StageOf, RootInv, SealInv, TypeOK, Whole, Marked, Empty, Staging
  <1>30. CASE ChangeRuntime
    BY <1>30 DEF ChangeRuntime, StrayInv, Strayed, StageInv, StageOf, RootInv, SealInv, TypeOK, Whole, Marked, Empty, Staging
  <1> QED
    BY <1>1, <1>2, <1>3, <1>4, <1>5, <1>6, <1>7, <1>8, <1>9, <1>10, <1>11, <1>12, <1>13, <1>14, <1>15, <1>16, <1>17, <1>18, <1>19, <1>20, <1>21, <1>22, <1>23, <1>24, <1>25, <1>26, <1>27, <1>28, <1>29, <1>30 DEF Next, Run

LEMMA StepInv == ASSUME IInv, [Next]_vars PROVE IInv'
  <1>1. TypeOK'
    BY TypeStep DEF IInv
  <1> QED
    BY <1>1, LockStep, LateStep, StageStep, RootStep, SealStep, WholeStep, KeptStep, StrayStep DEF IInv

LEMMA Inductive == Spec => []IInv
  <1>1. IInv /\ [Next]_vars => IInv'
    BY StepInv
  <1> QED
    BY <1>1, InitInv, PTL DEF Spec

-----------------------------------------------------------------------------
(* The properties *)

\* What nothing has touched since it was published is valid while its runtime is there.
LEMMA PublishedValid == ASSUME IInv, root # None, touched = {}, runtime PROVE Valid
  <1>1. root # None /\ seal = root /\ root \in Tree
    BY DEF IInv, KeptInv, TypeOK
  <1>2. Whole(root) /\ root.bin \in Build
    BY <1>1 DEF IInv, WholeInv, Whole
  <1>3. root.receipt # None
    BY <1>2, ConstantsAssumption DEF Whole, Content
  <1> QED
    BY <1>1, <1>2, <1>3 DEF Valid, Marked, Whole

\* Every variable stays in its type, whatever the code does with its trees.
THEOREM TypeCorrect == Spec => []TypeOK
  BY Inductive, PTL DEF IInv

\* What passes validation was built by a provider that succeeded, and has a file of its
\* workspace only when something wrote it late into the stage that was published.
THEOREM OnlyBuiltCorrect == Spec => []OnlyBuiltIsUsed
  <1>1. IInv => OnlyBuiltIsUsed
    <2> SUFFICES ASSUME IInv, Valid PROVE root.bin \in Build /\ (~root.scratch \/ "strayed" \in touched)
      BY DEF OnlyBuiltIsUsed
    <2>1. root # None /\ seal = root /\ root \in Tree
      BY DEF IInv, Valid, Marked, TypeOK
    <2>2. Whole(root)
      BY <2>1 DEF IInv, WholeInv
    <2>3. root.scratch => "strayed" \in touched
      BY <2>1 DEF IInv, StrayInv
    <2> QED
      BY <2>2, <2>3 DEF Whole
  <1> QED
    BY <1>1, Inductive, PTL

\* What a command has published stays valid until a command, a user or a descendant of
\* go touches it.
THEOREM PublishedCorrect == Spec => []PublishedIsUsable
  <1>1. IInv => PublishedIsUsable
    BY PublishedValid DEF PublishedIsUsable
  <1> QED
    BY <1>1, Inductive, PTL

\* No install fails on what a command before it has left behind, but for the marked
\* roots that LeftoversNeverBlock names.
THEOREM NeverBlocked == Spec => LeftoversNeverBlock
  <1>1. ASSUME IInv, [Next]_vars,
               NEW p \in Process, pc[p] \in Installing, pc'[p] = "idle",
               kills' = kills, errors' = errors
        PROVE  Returns(p) \/ Publishes(p) \/ Refused(p)
    <2> USE Bounds DEF Goto, Fails, Stage, Late, Leave, files, counters
    <2> USE DEF Installing
    <2>0. pc[p] = "publish" => root = None
      BY <1>1 DEF IInv, RootInv, Staging
    <2>1. CASE UNCHANGED vars
      BY <1>1, <2>1 DEF vars
    <2>2. ASSUME NEW q \in Process, Start(q) PROVE Returns(p) \/ Publishes(p) \/ Refused(p)
      BY <1>1, <2>2 DEF Start, IInv, TypeOK
    <2>3. ASSUME NEW q \in Process, ClearMarker(q) PROVE Returns(p) \/ Publishes(p) \/ Refused(p)
      BY <1>1, <2>3 DEF ClearMarker, IInv, TypeOK
    <2>4. ASSUME NEW q \in Process, AcquireLock(q) PROVE Returns(p) \/ Publishes(p) \/ Refused(p)
      BY <1>1, <2>4 DEF AcquireLock, IInv, TypeOK
    <2>5. ASSUME NEW q \in Process, ReuseOrRefuse(q) PROVE Returns(p) \/ Publishes(p) \/ Refused(p)
      <3>1. pc[p] = "prepare" /\ (Valid \/ Marked)
        BY <1>1, <2>5 DEF ReuseOrRefuse, IInv, TypeOK
      <3>2. Marked /\ ~Valid => touched # {} \/ ~runtime
        BY <1>1, PublishedValid DEF Marked
      <3> QED
        BY <3>1, <3>2 DEF Returns, Refused
    <2>6. ASSUME NEW q \in Process, DiscardRoot(q) PROVE Returns(p) \/ Publishes(p) \/ Refused(p)
      BY <1>1, <2>6 DEF DiscardRoot, IInv, TypeOK
    <2>7. ASSUME NEW q \in Process, StageWithLock(q) PROVE Returns(p) \/ Publishes(p) \/ Refused(p)
      BY <1>1, <2>7 DEF StageWithLock, IInv, TypeOK
    <2>8. ASSUME NEW q \in Process, Provide(q) PROVE Returns(p) \/ Publishes(p) \/ Refused(p)
      BY <1>1, <2>8 DEF Provide, IInv, TypeOK
    <2>9. ASSUME NEW q \in Process, FallBack(q) PROVE Returns(p) \/ Publishes(p) \/ Refused(p)
      BY <1>1, <2>9 DEF FallBack, IInv, TypeOK
    <2>10. ASSUME NEW q \in Process, ProviderFails(q) PROVE Returns(p) \/ Publishes(p) \/ Refused(p)
      BY <1>1, <2>10 DEF ProviderFails, IInv, TypeOK
    <2>11. ASSUME NEW q \in Process, Reset(q) PROVE Returns(p) \/ Publishes(p) \/ Refused(p)
      BY <1>1, <2>11 DEF Reset, IInv, TypeOK
    <2>12. ASSUME NEW q \in Process, RetainBinOnly(q) PROVE Returns(p) \/ Publishes(p) \/ Refused(p)
      BY <1>1, <2>12 DEF RetainBinOnly, IInv, TypeOK
    <2>13. ASSUME NEW q \in Process, CleanWorkspace(q) PROVE Returns(p) \/ Publishes(p) \/ Refused(p)
      BY <1>1, <2>13 DEF CleanWorkspace, IInv, TypeOK
    <2>14. ASSUME NEW q \in Process, InspectBins(q) PROVE Returns(p) \/ Publishes(p) \/ Refused(p)
      BY <1>1, <2>14 DEF InspectBins, IInv, TypeOK
    <2>15. ASSUME NEW q \in Process, Mark(q) PROVE Returns(p) \/ Publishes(p) \/ Refused(p)
      BY <1>1, <2>15 DEF Mark, IInv, TypeOK
    <2>16. ASSUME NEW q \in Process, CreateSeal(q) PROVE Returns(p) \/ Publishes(p) \/ Refused(p)
      BY <1>1, <2>16 DEF CreateSeal, IInv, TypeOK
    <2>17. ASSUME NEW q \in Process, WriteSeal(q) PROVE Returns(p) \/ Publishes(p) \/ Refused(p)
      BY <1>1, <2>17 DEF WriteSeal, IInv, TypeOK
    <2>18. ASSUME NEW q \in Process, PublishFails(q) PROVE Returns(p) \/ Publishes(p) \/ Refused(p)
      BY <1>1, <2>18 DEF PublishFails, IInv, TypeOK, SealInv, Staging
    <2>19. ASSUME NEW q \in Process, Publish(q) PROVE Returns(p) \/ Publishes(p) \/ Refused(p)
      BY <1>1, <2>19, <2>0 DEF Publish, IInv, TypeOK, Publishes
    <2>20. ASSUME NEW q \in Process, RenameFails(q) PROVE Returns(p) \/ Publishes(p) \/ Refused(p)
      BY <1>1, <2>20, <2>0 DEF RenameFails, IInv, TypeOK
    <2>21. ASSUME NEW q \in Process, StartUninstall(q) PROVE Returns(p) \/ Publishes(p) \/ Refused(p)
      BY <1>1, <2>21 DEF StartUninstall, IInv, TypeOK
    <2>22. ASSUME NEW q \in Process, AcquireRemovalLock(q) PROVE Returns(p) \/ Publishes(p) \/ Refused(p)
      BY <1>1, <2>22 DEF AcquireRemovalLock, IInv, TypeOK
    <2>23. ASSUME NEW q \in Process, RemoveFile(q) PROVE Returns(p) \/ Publishes(p) \/ Refused(p)
      BY <1>1, <2>23 DEF RemoveFile, IInv, TypeOK
    <2>24. ASSUME NEW q \in Process, RemoveRoot(q) PROVE Returns(p) \/ Publishes(p) \/ Refused(p)
      BY <1>1, <2>24 DEF RemoveRoot, IInv, TypeOK
    <2>25. ASSUME NEW q \in Process, RemoveSeal(q) PROVE Returns(p) \/ Publishes(p) \/ Refused(p)
      BY <1>1, <2>25 DEF RemoveSeal, IInv, TypeOK
    <2>26. ASSUME NEW q \in Process, RemovalFails(q) PROVE Returns(p) \/ Publishes(p) \/ Refused(p)
      BY <1>1, <2>26 DEF RemovalFails, IInv, TypeOK
    <2>27. ASSUME NEW q \in Process, LateWrite(q) PROVE Returns(p) \/ Publishes(p) \/ Refused(p)
      BY <1>1, <2>27 DEF LateWrite, IInv, TypeOK
    <2>28. ASSUME NEW q \in Process, Kill(q) PROVE Returns(p) \/ Publishes(p) \/ Refused(p)
      BY <1>1, <2>28 DEF Kill, IInv, TypeOK
    <2>29. CASE Edit
      BY <1>1, <2>29 DEF Edit
    <2>30. CASE ChangeRuntime
      BY <1>1, <2>30 DEF ChangeRuntime
    <2> QED
      BY <1>1, <2>1, <2>2, <2>3, <2>4, <2>5, <2>6, <2>7, <2>8, <2>9, <2>10, <2>11, <2>12, <2>13, <2>14, <2>15, <2>16, <2>17, <2>18, <2>19, <2>20, <2>21, <2>22, <2>23, <2>24, <2>25, <2>26, <2>27, <2>28, <2>29, <2>30 DEF Next, Run
  <1>2. IInv /\ [Next]_vars =>
          [\A p \in Process :
             /\ pc[p] \in Installing /\ pc'[p] = "idle" /\ kills' = kills /\ errors' = errors
             => Returns(p) \/ Publishes(p) \/ Refused(p)]_vars
    BY <1>1
  <1> QED
    BY <1>2, Inductive, PTL DEF Spec, LeftoversNeverBlock
=============================================================================

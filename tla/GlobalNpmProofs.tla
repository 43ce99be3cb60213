---------------------------- MODULE GlobalNpmProofs ----------------------------
(***************************************************************************)
(* Proofs about GlobalNpm, for any processes, versions, commands, kills and *)
(* errors.  The argument: whoever changes a file holds the global state     *)
(* lock, so that one command at a time is in a section of steps and what    *)
(* each step of it finds can be said of the files and of its command alone. *)
(***************************************************************************)
EXTENDS GlobalNpm, TLAPS

USE ConstantsAssumption

\* The records of TypeOK: what a command carries, and the two journals.
Sections == {"none", "recover", "publish", "find", "remove", "discard"}
CmdType == [do : Sections, ver : Version \cup {None}, new : Place, aside : Place, old : Place,
            config : Version \cup {None}, lock : Version \cup {None}, tries : 0..2]
PromotionType == [phase : {"none", "prepared", "old_moved", "new_promoted", "activated"},
                  had : BOOLEAN]
PcType == {"idle", "state", "undo"} \cup InstallSteps \cup UninstallSteps
RemovalType == [phase : {"none", "moving", "committed"}, config : BOOLEAN, lock : BOOLEAN]

-----------------------------------------------------------------------------
(* What a step does to the command that takes it, field by field *)

AfterDo(c, d) ==
  [do |-> d, ver |-> c.ver, new |-> c.new, aside |-> c.aside, old |-> c.old,
   config |-> c.config, lock |-> c.lock, tries |-> c.tries]
AfterStart(c, d, w) ==
  [do |-> d, ver |-> w, new |-> c.new, aside |-> c.aside, old |-> c.old, config |-> c.config,
   lock |-> c.lock, tries |-> c.tries]
AfterStage(c, t) ==
  [do |-> "publish", ver |-> c.ver, new |-> t, aside |-> c.aside, old |-> c.old,
   config |-> c.config, lock |-> c.lock, tries |-> c.tries]
AfterAside(c, t) ==
  [do |-> c.do, ver |-> c.ver, new |-> c.new, aside |-> t, old |-> c.old, config |-> c.config,
   lock |-> c.lock, tries |-> c.tries]
AfterTries(c, n) ==
  [do |-> c.do, ver |-> c.ver, new |-> c.new, aside |-> c.aside, old |-> c.old,
   config |-> c.config, lock |-> c.lock, tries |-> n]
AfterCapture(c, d, g, l, t) ==
  [do |-> d, ver |-> c.ver, new |-> c.new, aside |-> c.aside, old |-> t, config |-> g,
   lock |-> l, tries |-> c.tries]

\* One field of a command is replaced, the others stay.
LEMMA FieldReplaced ==
  ASSUME NEW c \in CmdType, NEW d, NEW t, NEW n
  PROVE  /\ [c EXCEPT !.do = d] = AfterDo(c, d)
         /\ [c EXCEPT !.aside = t] = AfterAside(c, t)
         /\ [c EXCEPT !.tries = n] = AfterTries(c, n)
<1>1. [c EXCEPT !.do = d] = AfterDo(c, d)
  BY DEF CmdType, AfterDo
<1>2. [c EXCEPT !.aside = t] = AfterAside(c, t)
  BY DEF CmdType, AfterAside
<1>3. [c EXCEPT !.tries = n] = AfterTries(c, n)
  BY DEF CmdType, AfterTries
<1> QED
  BY <1>1, <1>2, <1>3

\* A command begins, an install stages a tree.
LEMMA FieldsReplaced ==
  ASSUME NEW c \in CmdType, NEW d, NEW w, NEW t
  PROVE  /\ [c EXCEPT !.do = d, !.ver = w] = AfterStart(c, d, w)
         /\ [c EXCEPT !.do = "publish", !.new = t] = AfterStage(c, t)
<1>1. [c EXCEPT !.do = d, !.ver = w] = [[c EXCEPT !.do = d] EXCEPT !.ver = w]
  OBVIOUS
<1>2. [AfterDo(c, d) EXCEPT !.ver = w] = AfterStart(c, d, w)
  BY DEF AfterDo, AfterStart
<1>3. [c EXCEPT !.do = "publish", !.new = t] = [[c EXCEPT !.do = "publish"] EXCEPT !.new = t]
  OBVIOUS
<1>4. [AfterDo(c, "publish") EXCEPT !.new = t] = AfterStage(c, t)
  BY DEF AfterDo, AfterStage
<1>5. [c EXCEPT !.do = d] = AfterDo(c, d) /\ [c EXCEPT !.do = "publish"] = AfterDo(c, "publish")
  BY FieldReplaced
<1> QED
  BY <1>1, <1>2, <1>3, <1>4, <1>5

\* All of them are commands again.
LEMMA UpdatesTyped ==
  ASSUME NEW c \in CmdType
  PROVE  /\ \A d \in Sections, w \in Version \cup {None} : AfterStart(c, d, w) \in CmdType
         /\ \A d \in Sections : AfterDo(c, d) \in CmdType
         /\ \A t \in Place : AfterStage(c, t) \in CmdType
         /\ \A t \in Place : AfterAside(c, t) \in CmdType
         /\ \A n \in 0..2 : AfterTries(c, n) \in CmdType
         /\ \A d \in Sections, g \in Version \cup {None}, l \in Version \cup {None}, t \in Place :
              AfterCapture(c, d, g, l, t) \in CmdType
<1>1. \A d \in Sections, w \in Version \cup {None} : AfterStart(c, d, w) \in CmdType
  BY DEF CmdType, AfterStart
<1>2. \A d \in Sections : AfterDo(c, d) \in CmdType
  BY DEF CmdType, AfterDo
<1>3. \A t \in Place : AfterStage(c, t) \in CmdType
  BY DEF CmdType, AfterStage, Sections
<1>4. \A t \in Place : AfterAside(c, t) \in CmdType
  BY DEF CmdType, AfterAside
<1>5. \A n \in 0..2 : AfterTries(c, n) \in CmdType
  BY DEF CmdType, AfterTries
<1>6. \A d \in Sections, g \in Version \cup {None}, l \in Version \cup {None}, t \in Place :
        AfterCapture(c, d, g, l, t) \in CmdType
  BY DEF CmdType, AfterCapture
<1> QED
  BY <1>1, <1>2, <1>3, <1>4, <1>5, <1>6

\* With, for the fields it is used for.
LEMMA WithField ==
  ASSUME cmd \in [Process -> CmdType], NEW p \in Process, NEW d, NEW t, NEW n
  PROVE  /\ With(p, "do", d) => cmd' = [cmd EXCEPT ![p] = AfterDo(cmd[p], d)]
         /\ With(p, "aside", t) => cmd' = [cmd EXCEPT ![p] = AfterAside(cmd[p], t)]
         /\ With(p, "tries", n) => cmd' = [cmd EXCEPT ![p] = AfterTries(cmd[p], n)]
<1>1. cmd[p] \in CmdType
  OBVIOUS
<1>2. ASSUME With(p, "do", d) PROVE cmd' = [cmd EXCEPT ![p] = AfterDo(cmd[p], d)]
  <2>1. cmd' = [cmd EXCEPT ![p] = [cmd[p] EXCEPT !.do = d]]
    BY <1>2 DEF With
  <2>2. [cmd[p] EXCEPT !.do = d] = AfterDo(cmd[p], d)
    BY <1>1, FieldReplaced
  <2> QED
    BY <2>1, <2>2
<1>3. ASSUME With(p, "aside", t) PROVE cmd' = [cmd EXCEPT ![p] = AfterAside(cmd[p], t)]
  <2>1. cmd' = [cmd EXCEPT ![p] = [cmd[p] EXCEPT !.aside = t]]
    BY <1>3 DEF With
  <2>2. [cmd[p] EXCEPT !.aside = t] = AfterAside(cmd[p], t)
    BY <1>1, FieldReplaced
  <2> QED
    BY <2>1, <2>2
<1>4. ASSUME With(p, "tries", n) PROVE cmd' = [cmd EXCEPT ![p] = AfterTries(cmd[p], n)]
  <2>1. cmd' = [cmd EXCEPT ![p] = [cmd[p] EXCEPT !.tries = n]]
    BY <1>4 DEF With
  <2>2. [cmd[p] EXCEPT !.tries = n] = AfterTries(cmd[p], n)
    BY <1>1, FieldReplaced
  <2> QED
    BY <2>1, <2>2
<1> QED
  BY <1>2, <1>3, <1>4

\* The updates of more than one field: a command begins,
LEMMA WithStart ==
  ASSUME cmd \in [Process -> CmdType], NEW p \in Process, NEW d, NEW w,
         cmd' = [cmd EXCEPT ![p].do = d, ![p].ver = w]
  PROVE  cmd' = [cmd EXCEPT ![p] = AfterStart(cmd[p], d, w)]
<1>1. cmd' = [cmd EXCEPT ![p] = [cmd[p] EXCEPT !.do = d, !.ver = w]]
  OBVIOUS
<1>2. [cmd[p] EXCEPT !.do = d, !.ver = w] = AfterStart(cmd[p], d, w)
  BY cmd[p] \in CmdType, FieldsReplaced
<1> QED
  BY <1>1, <1>2

\* an install stages a tree,
LEMMA WithStage ==
  ASSUME cmd \in [Process -> CmdType], NEW p \in Process, NEW t,
         cmd' = [cmd EXCEPT ![p].do = "publish", ![p].new = t]
  PROVE  cmd' = [cmd EXCEPT ![p] = AfterStage(cmd[p], t)]
<1>1. cmd' = [cmd EXCEPT ![p] = [cmd[p] EXCEPT !.do = "publish", !.new = t]]
  OBVIOUS
<1>2. [cmd[p] EXCEPT !.do = "publish", !.new = t] = AfterStage(cmd[p], t)
  BY cmd[p] \in CmdType, FieldsReplaced
<1> QED
  BY <1>1, <1>2

\* and what is captured of the metadata and of the root, and with it the section.
LEMMA FieldsCaptured ==
  ASSUME NEW c \in CmdType, NEW g, NEW l, NEW t
  PROVE  [c EXCEPT !.config = g, !.lock = l, !.old = t] = AfterCapture(c, c.do, g, l, t)
<1> DEFINE pinned == [do |-> c.do, ver |-> c.ver, new |-> c.new, aside |-> c.aside,
                      old |-> c.old, config |-> g, lock |-> c.lock, tries |-> c.tries]
           both == [do |-> c.do, ver |-> c.ver, new |-> c.new, aside |-> c.aside,
                    old |-> c.old, config |-> g, lock |-> l, tries |-> c.tries]
<1>1. [c EXCEPT !.config = g] = pinned
  BY DEF CmdType
<1>2. [pinned EXCEPT !.lock = l] = both
  OBVIOUS
<1>3. [both EXCEPT !.old = t] = AfterCapture(c, c.do, g, l, t)
  BY DEF AfterCapture
<1>4. [c EXCEPT !.config = g, !.lock = l, !.old = t]
        = [[[c EXCEPT !.config = g] EXCEPT !.lock = l] EXCEPT !.old = t]
  OBVIOUS
<1> HIDE DEF pinned, both
<1> QED
  BY <1>1, <1>2, <1>3, <1>4

\* What the steps that change a command make of it.
LEMMA Carrying ==
  ASSUME cmd \in [Process -> CmdType], NEW p \in Process
  PROVE  /\ Start(p) => \E c \in Command :
              /\ cmd' = [cmd EXCEPT ![p] = AfterStart(cmd[p], IF c.op = "install" THEN "recover"
                                                              ELSE "find", c.ver)]
              /\ pc' = [pc EXCEPT ![p] = IF c.op = "install" THEN "version" ELSE "state"]
         /\ RecoverAside(p) =>
              cmd' = [cmd EXCEPT ![p] = AfterAside(cmd[p], root[cmd[p].ver])]
         /\ Reuse(p) => cmd' = [cmd EXCEPT ![p] = AfterDo(cmd[p], "publish")]
         /\ Stage(p) => \E t \in Tree \ {root[cmd[p].ver]} :
              cmd' = [cmd EXCEPT ![p] = AfterStage(cmd[p], t)]
         /\ Open(p) =>
              cmd' = [cmd EXCEPT ![p] = AfterCapture(cmd[p], cmd[p].do, config, lock,
                                                     root[cmd[p].ver])]
         /\ Prepare(p) =>
              cmd' = [cmd EXCEPT ![p] = AfterCapture(cmd[p], IF errors' = errors THEN "remove"
                                                             ELSE "discard", config, lock,
                                                     root[cmd[p].ver])]
<1>1. ASSUME Start(p)
      PROVE  \E c \in Command :
               /\ cmd' = [cmd EXCEPT ![p] = AfterStart(cmd[p], IF c.op = "install"
                                                               THEN "recover"
                                                               ELSE "find", c.ver)]
               /\ pc' = [pc EXCEPT ![p] = IF c.op = "install" THEN "version" ELSE "state"]
  <2>1. PICK c \in Command :
          /\ cmd' = [cmd EXCEPT ![p].do = IF c.op = "install" THEN "recover" ELSE "find",
                                ![p].ver = c.ver]
          /\ Step(p, "idle", IF c.op = "install" THEN "version" ELSE "state")
    BY <1>1 DEF Start
  <2> DEFINE d == IF c.op = "install" THEN "recover" ELSE "find"
  <2>3. cmd' = [cmd EXCEPT ![p].do = d, ![p].ver = c.ver]
    BY <2>1
  <2> HIDE DEF d
  <2>4. cmd' = [cmd EXCEPT ![p] = AfterStart(cmd[p], d, c.ver)]
    BY <2>3, WithStart
  <2>2. cmd' = [cmd EXCEPT ![p] = AfterStart(cmd[p], IF c.op = "install" THEN "recover"
                                                     ELSE "find", c.ver)]
    BY <2>4 DEF d
  <2>5. pc' = [pc EXCEPT ![p] = IF c.op = "install" THEN "version" ELSE "state"]
    BY <2>1 DEF Step
  <2> QED
    BY <2>2, <2>5
<1>2. ASSUME RecoverAside(p)
      PROVE  cmd' = [cmd EXCEPT ![p] = AfterAside(cmd[p], root[cmd[p].ver])]
  BY <1>2, WithField DEF RecoverAside
<1>3. ASSUME Reuse(p) PROVE cmd' = [cmd EXCEPT ![p] = AfterDo(cmd[p], "publish")]
  BY <1>3, WithField DEF Reuse
<1>4. ASSUME Stage(p)
      PROVE  \E t \in Tree \ {root[cmd[p].ver]} :
               cmd' = [cmd EXCEPT ![p] = AfterStage(cmd[p], t)]
  <2>1. PICK t \in Tree \ {root[cmd[p].ver]} :
          cmd' = [cmd EXCEPT ![p].do = "publish", ![p].new = t]
    BY <1>4 DEF Stage
  <2>2. cmd' = [cmd EXCEPT ![p] = AfterStage(cmd[p], t)]
    BY <2>1, WithStage
  <2> QED
    BY <2>2
<1>5. ASSUME Open(p)
      PROVE  cmd' = [cmd EXCEPT ![p] = AfterCapture(cmd[p], cmd[p].do, config, lock,
                                                    root[cmd[p].ver])]
  <2>1. cmd' = [cmd EXCEPT ![p].config = config, ![p].lock = lock,
                           ![p].old = root[cmd[p].ver]]
    BY <1>5 DEF Open
  <2> DEFINE t == root[cmd[p].ver]
  <2>2. cmd' = [cmd EXCEPT ![p].config = config, ![p].lock = lock, ![p].old = t]
    BY <2>1
  <2> HIDE DEF t
  <2>3. cmd' = [cmd EXCEPT ![p] = [cmd[p] EXCEPT !.config = config, !.lock = lock, !.old = t]]
    BY <2>2
  <2>4. [cmd[p] EXCEPT !.config = config, !.lock = lock, !.old = t]
          = AfterCapture(cmd[p], cmd[p].do, config, lock, t)
    BY cmd[p] \in CmdType, FieldsCaptured
  <2> QED
    BY <2>3, <2>4 DEF t
<1>6. ASSUME Prepare(p)
      PROVE  cmd' = [cmd EXCEPT ![p] = AfterCapture(cmd[p], IF errors' = errors THEN "remove"
                                                            ELSE "discard", config, lock,
                                                    root[cmd[p].ver])]
  <2>1. cmd' = [cmd EXCEPT ![p].config = config, ![p].lock = lock,
                           ![p].old = root[cmd[p].ver],
                           ![p].do = IF errors' = errors THEN "remove" ELSE "discard"]
    BY <1>6 DEF Prepare
  <2> DEFINE t == root[cmd[p].ver]
             d == IF errors' = errors THEN "remove" ELSE "discard"
  <2>2. cmd' = [cmd EXCEPT ![p].config = config, ![p].lock = lock, ![p].old = t,
                           ![p].do = d]
    BY <2>1
  <2> HIDE DEF t, d
  <2> DEFINE c == cmd[p]
  <2>3. cmd' = [cmd EXCEPT ![p] = [[c EXCEPT !.config = config, !.lock = lock, !.old = t]
                                     EXCEPT !.do = d]]
    BY <2>2
  <2>4. [c EXCEPT !.config = config, !.lock = lock, !.old = t]
          = AfterCapture(c, c.do, config, lock, t)
    BY c \in CmdType, FieldsCaptured
  <2>5. [AfterCapture(c, c.do, config, lock, t) EXCEPT !.do = d]
          = AfterCapture(c, d, config, lock, t)
    BY DEF AfterCapture
  <2> HIDE DEF c
  <2>6. cmd' = [cmd EXCEPT ![p] = AfterCapture(c, d, config, lock, t)]
    BY <2>3, <2>4, <2>5
  <2> QED
    BY <2>6 DEF c, t, d
<1> QED
  BY <1>1, <1>2, <1>3, <1>4, <1>5, <1>6

\* Those that note it in one of their outcomes only.
LEMMA Discarding ==
  ASSUME cmd \in [Process -> CmdType], NEW p \in Process
  PROVE  /\ With(p, "do", "discard") => cmd' = [cmd EXCEPT ![p] = AfterDo(cmd[p], "discard")]
         /\ With(p, "do", "remove") => cmd' = [cmd EXCEPT ![p] = AfterDo(cmd[p], "remove")]
  BY WithField

\* A rollback that has ended leaves, or has its outcome noted.
LEMMA RollingBack ==
  ASSUME cmd \in [Process -> CmdType], NEW p \in Process
  PROVE  /\ RollbackEnds(p, FALSE) =>
              \/ Leave(p)
              \/ /\ pc' = [pc EXCEPT ![p] = IF cmd[p].do = "discard" THEN "rollback"
                                            ELSE "reconcile"]
                 /\ cmd' = [cmd EXCEPT ![p] = AfterTries(cmd[p], 1)]
                 /\ held' = held /\ state' = state /\ cmd[p].tries # 1
         /\ RollbackEnds(p, TRUE) =>
              \/ Leave(p)
              \/ /\ pc' = [pc EXCEPT ![p] = "reconcile"]
                 /\ cmd' = [cmd EXCEPT ![p] = AfterTries(cmd[p], 2)]
                 /\ held' = held /\ state' = state
                 /\ cmd[p].tries # 1 /\ cmd[p].do # "discard"
<1>1. ASSUME NEW done \in BOOLEAN, RollbackEnds(p, done), ~Leave(p)
      PROVE  /\ pc' = [pc EXCEPT ![p] = IF cmd[p].do = "discard" THEN "rollback"
                                        ELSE "reconcile"]
             /\ cmd' = [cmd EXCEPT ![p] = AfterTries(cmd[p], IF done THEN 2 ELSE 1)]
             /\ held' = held /\ state' = state
             /\ cmd[p].tries # 1 /\ (done => cmd[p].do # "discard")
  <2>1. With(p, "tries", IF done THEN 2 ELSE 1)
    BY <1>1 DEF RollbackEnds
  <2>2. cmd' = [cmd EXCEPT ![p] = AfterTries(cmd[p], IF done THEN 2 ELSE 1)]
    BY <2>1, WithField
  <2> QED
    BY <1>1, <2>2 DEF RollbackEnds, locks
<1>2. RollbackEnds(p, FALSE) =>
        \/ Leave(p)
        \/ /\ pc' = [pc EXCEPT ![p] = IF cmd[p].do = "discard" THEN "rollback"
                                      ELSE "reconcile"]
           /\ cmd' = [cmd EXCEPT ![p] = AfterTries(cmd[p], 1)]
           /\ held' = held /\ state' = state /\ cmd[p].tries # 1
  BY <1>1, FALSE \in BOOLEAN
<1>3. RollbackEnds(p, TRUE) =>
        \/ Leave(p)
        \/ /\ pc' = [pc EXCEPT ![p] = "reconcile"]
           /\ cmd' = [cmd EXCEPT ![p] = AfterTries(cmd[p], 2)]
           /\ held' = held /\ state' = state
           /\ cmd[p].tries # 1 /\ cmd[p].do # "discard"
  BY <1>1, TRUE \in BOOLEAN
<1> QED
  BY <1>2, <1>3

-----------------------------------------------------------------------------
(* Types *)

\* Every step there is.
LEMMA StepsTyped ==
  {"idle", "state", "undo", "version", "recover", "check", "open", "move", "moved",
   "place", "placed", "unplace", "drop", "validate", "shim", "pin", "record", "stale",
   "activate", "finish", "cleared", "relock", "relocked", "repin", "repinned",
   "rollback", "restore", "unjournal", "reconcile", "select", "prepare", "take",
   "commit", "unpin", "unrecord", "unshim", "clean", "tidy", "back_lock", "back_pin",
   "back_root", "back_journal", "back_shim"} \subseteq PcType
  BY DEF PcType, InstallSteps, UninstallSteps

\* A command at rest, and journals that say nothing, are of their types.
LEMMA IdleTyped == Idle \in CmdType /\ NoPromotion \in PromotionType /\ NoRemoval \in RemovalType
  BY DEF Idle, CmdType, Sections, Place, NoPromotion, PromotionType, NoRemoval, RemovalType

\* What a removal leaves may be at a place.
LEMMA RemovedTyped == \A t : Removed(t) \subseteq Place
  BY DEF Removed, Place

\* The phases a promotion journal is rewritten with.
LEMMA JournalTyped ==
  ASSUME promotion \in [Version -> PromotionType], NEW v,
         NEW phase \in {"none", "prepared", "old_moved", "new_promoted", "activated"}
  PROVE  Journal(v, phase) \in [Version -> PromotionType]
  BY DEF Journal, PromotionType

\* The journal of an uninstall stays one when it is committed.
LEMMA CommittedTyped ==
  ASSUME removal \in [Version -> RemovalType], NEW v
  PROVE  [removal EXCEPT ![v].phase = "committed"] \in [Version -> RemovalType]
  BY DEF RemovalType

\* What is at no place, and what a command carries, may be at a place.
LEMMA PlaceTyped ==
  ASSUME NEW c \in CmdType
  PROVE  "gone" \in Place /\ c.new \in Place /\ c.aside \in Place /\ c.ver \in Version \cup {None}
         /\ c.do \in Sections
         /\ c.config \in Version \cup {None} /\ c.lock \in Version \cup {None}
  BY DEF CmdType, Place

\* The steps lead to steps.
LEMMA PcTyped ==
  ASSUME pc \in [Process -> PcType], NEW p \in Process, Start(p) \/ Kill(p) \/ Run(p)
  PROVE  pc' \in [Process -> PcType]
<1>1. CASE UndoRoot(p) \/ UndoShim(p) \/ CompleteConfig(p) \/ CompleteLock(p)
           \/ CompleteShim(p) \/ CompleteRoot(p)
  BY <1>1
    DEF UndoRoot, UndoShim, CompleteConfig, CompleteLock, CompleteShim, CompleteRoot,
      trees, journals, metadata, locks, counters
<1>2. CASE UndoJournal(p)
  BY <1>2 DEF UndoJournal, trees, metadata, locks, counters
<1>3. CASE Start(p)
  BY <1>3, StepsTyped DEF Start, Step, trees, journals, metadata, locks
<1>4. CASE TakeVersion(p)
  BY <1>4, StepsTyped DEF TakeVersion, Step, trees, journals, metadata, counters
<1>5. CASE TakeState(p)
  BY <1>5, StepsTyped DEF TakeState, Step, trees, journals, metadata, counters
<1>6. CASE Kill(p)
  BY <1>6, StepsTyped DEF Kill, Leave, trees, journals, metadata
<1>7. CASE RecoverAside(p)
  BY <1>7, StepsTyped DEF RecoverAside, With, Step, journals, metadata, locks, counters
<1>8. CASE RecoverBackup(p)
  BY <1>8, StepsTyped DEF RecoverBackup, Step, journals, metadata, locks, counters
<1>9. CASE RecoverClear(p)
  BY <1>9, StepsTyped DEF RecoverClear, Step, journals, metadata, locks, counters
<1>10. CASE RecoverDebris(p)
  BY <1>10, StepsTyped DEF RecoverDebris, Step, journals, metadata, locks, counters
<1>11. CASE RecoverJournal(p)
  BY <1>11, StepsTyped DEF RecoverJournal, Step, trees, metadata, locks, counters
<1>12. CASE Recovered(p)
  BY <1>12, StepsTyped DEF Recovered, Step, trees, journals, metadata, counters
<1>13. CASE RecoverFails(p)
  BY <1>13, StepsTyped DEF RecoverFails, FailsAndLeaves, Leave, journals, metadata
<1>14. CASE Refuse(p)
  BY <1>14, StepsTyped DEF Refuse, Leave, trees, journals, metadata, counters
<1>15. CASE UndoRefuses(p)
  BY <1>15, StepsTyped DEF UndoRefuses, Leave, trees, journals, metadata, counters
<1>16. CASE UndoFails(p)
  BY <1>16, StepsTyped DEF UndoFails, FailsAndLeaves, Leave, trees, journals, metadata
<1>17. CASE Undone(p)
  BY <1>17, StepsTyped DEF Undone, Step, trees, journals, metadata, counters
<1>18. CASE Reuse(p)
  BY <1>18, StepsTyped DEF Reuse, With, Step, trees, journals, metadata, locks, counters
<1>19. CASE Stage(p)
  BY <1>19, StepsTyped DEF Stage, Step, trees, journals, metadata, locks, counters
<1>20. CASE StageFails(p)
  BY <1>20, StepsTyped DEF StageFails, FailsAndLeaves, Leave, trees, journals, metadata
<1>21. CASE ReuseIsGone(p)
  BY <1>21, StepsTyped DEF ReuseIsGone, Leave, trees, journals, metadata, counters
<1>22. CASE Open(p)
  BY <1>22, StepsTyped DEF Open, Fails, Step, trees, metadata, locks
<1>23. CASE MoveOld(p)
  BY <1>23, StepsTyped DEF MoveOld, Fails, Step, journals, metadata, locks
<1>24. CASE OldMoved(p)
  BY <1>24, StepsTyped DEF OldMoved, Fails, Step, trees, metadata, locks
<1>25. CASE PlaceNew(p)
  BY <1>25, StepsTyped DEF PlaceNew, Fails, Step, journals, metadata, locks
<1>26. CASE NewPromoted(p)
  BY <1>26, StepsTyped DEF NewPromoted, Fails, Step, trees, metadata, locks
<1>27. CASE Unplace(p)
  BY <1>27, StepsTyped DEF Unplace, Fails, Step, journals, metadata, locks
<1>28. CASE DropBackup(p)
  BY <1>28, StepsTyped DEF DropBackup, FailsAndLeaves, Leave, journals, metadata, locks
<1>29. CASE DropJournal(p)
  BY <1>29, StepsTyped DEF DropJournal, FailsAndLeaves, Leave, trees, metadata
<1>30. CASE Validate(p)
  BY <1>30, StepsTyped DEF Validate, Fails, With, Step, trees, journals, metadata, locks
<1>31. CASE GenerateShim(p)
  BY <1>31, StepsTyped DEF GenerateShim, Step, trees, journals, locks, counters
<1>32. CASE Generated(p)
  BY <1>32, StepsTyped DEF Generated, Step, trees, journals, metadata, locks, counters
<1>33. CASE PersistConfig(p)
  BY <1>33, StepsTyped DEF PersistConfig, Fails, Step, trees, journals, locks
<1>34. CASE PersistLock(p)
  BY <1>34, StepsTyped DEF PersistLock, Fails, Step, trees, journals, locks
<1>35. CASE RemoveStale(p)
  BY <1>35, StepsTyped DEF RemoveStale, Step, trees, journals, locks, counters
<1>36. CASE Published(p)
  BY <1>36, StepsTyped DEF Published, Step, Leave, trees, journals, metadata, locks, counters
<1>37. CASE ShimFails(p)
  BY <1>37, StepsTyped DEF ShimFails, Fails, Step, trees, journals, metadata, locks
<1>38. CASE Activate(p)
  BY <1>38, StepsTyped DEF Activate, Fails, Step, trees, metadata, locks
<1>39. CASE Finish(p)
  BY <1>39, StepsTyped DEF Finish, Fails, Step, journals, metadata, locks
<1>40. CASE Cleared(p)
  BY <1>40, StepsTyped DEF Cleared, FailsAndLeaves, Leave, trees, metadata
<1>41. CASE Relock(p)
  BY <1>41, StepsTyped DEF Relock, Fails, Step, trees, journals, locks
<1>42. CASE Repin(p)
  BY <1>42, StepsTyped DEF Repin, Repinned, Fails, Step, trees, journals, locks
<1>43. CASE Rollback(p)
  BY <1>43, StepsTyped
    DEF Rollback, RollbackEnds, Step, With, Leave, journals, metadata, locks
<1>44. CASE Restore(p)
  BY <1>44, StepsTyped
    DEF Restore, RollbackEnds, Step, With, Leave, journals, metadata, locks
<1>45. CASE Unjournal(p)
  BY <1>45, StepsTyped DEF Unjournal, RollbackEnds, With, Leave, trees, metadata, locks
<1>46. CASE Reconcile(p)
  BY <1>46, StepsTyped DEF Reconcile, Step, trees, journals, locks, counters
<1>47. CASE Reconciled(p)
  BY <1>47, StepsTyped DEF Reconciled, Step, Leave, trees, journals, metadata, locks
<1>48. CASE Select(p)
  BY <1>48, StepsTyped
    DEF Select, With, Step, Leave, trees, journals, metadata, locks, counters
<1>49. CASE NotInstalled(p)
  BY <1>49, StepsTyped DEF NotInstalled, Leave, trees, journals, metadata, counters
<1>50. CASE Prepare(p)
  BY <1>50, StepsTyped DEF Prepare, Fails, Step, trees, metadata, locks
<1>51. CASE Take(p)
  BY <1>51, StepsTyped DEF Take, Fails, With, Step, journals, metadata, locks
<1>52. CASE Commit(p)
  BY <1>52, StepsTyped DEF Commit, Fails, With, Step, trees, metadata, locks
<1>53. CASE RemoveConfig(p)
  BY <1>53, StepsTyped DEF RemoveConfig, Fails, Step, trees, journals, locks
<1>54. CASE RemoveLock(p)
  BY <1>54, StepsTyped DEF RemoveLock, Fails, Step, trees, journals, locks
<1>55. CASE RemoveShim(p)
  BY <1>55, StepsTyped DEF RemoveShim, Step, trees, journals, locks, counters
<1>56. CASE ShimsRemoved(p)
  BY <1>56, StepsTyped DEF ShimsRemoved, Fails, Step, trees, journals, metadata, locks
<1>57. CASE Clean(p)
  BY <1>57, StepsTyped DEF Clean, FailsAndLeaves, Step, Leave, journals, metadata, locks
<1>58. CASE Tidy(p)
  BY <1>58, StepsTyped DEF Tidy, FailsAndLeaves, Leave, trees, metadata
<1>59. CASE BackMetadata(p)
  BY <1>59, StepsTyped DEF BackMetadata, Fails, Step, trees, journals, locks
<1>60. CASE BackRoot(p)
  BY <1>60, StepsTyped DEF BackRoot, RootsBack, Step, Leave, journals, metadata, locks
<1>61. CASE BackJournal(p)
  BY <1>61, StepsTyped DEF BackJournal, RootsBack, Leave, trees, metadata, locks
<1>62. CASE BackShim(p)
  BY <1>62, StepsTyped DEF BackShim, Step, trees, journals, locks, counters
<1>63. CASE Back(p)
  BY <1>63, StepsTyped DEF Back, Leave, trees, journals, metadata
<1> QED
  BY <1>1, <1>2, <1>3, <1>4, <1>5, <1>6, <1>7, <1>8, <1>9, <1>10, <1>11, <1>12, <1>13,
     <1>14, <1>15, <1>16, <1>17, <1>18, <1>19, <1>20, <1>21, <1>22, <1>23, <1>24, <1>25,
     <1>26, <1>27, <1>28, <1>29, <1>30, <1>31, <1>32, <1>33, <1>34, <1>35, <1>36, <1>37,
     <1>38, <1>39, <1>40, <1>41, <1>42, <1>43, <1>44, <1>45, <1>46, <1>47, <1>48, <1>49,
     <1>50, <1>51, <1>52, <1>53, <1>54, <1>55, <1>56, <1>57, <1>58, <1>59, <1>60, <1>61,
     <1>62, <1>63 DEF Run, Recovery, Install, Uninstall

\* A command stays a command.
LEMMA CmdTyped ==
  ASSUME cmd \in [Process -> CmdType], root \in [Version -> Place],
         config \in Version \cup {None}, lock \in Version \cup {None},
         NEW p \in Process, pc[p] # "idle" => cmd[p].ver \in Version,
         Start(p) \/ Kill(p) \/ Run(p)
  PROVE  cmd' \in [Process -> CmdType]
<1>1. CASE TakeVersion(p) \/ TakeState(p) \/ RecoverBackup(p) \/ RecoverClear(p)
           \/ RecoverDebris(p) \/ RecoverJournal(p)
  BY <1>1
    DEF TakeVersion, TakeState, RecoverBackup, RecoverClear, RecoverDebris, RecoverJournal,
      Step, trees, journals, metadata, locks, counters
<1>2. CASE Recovered(p) \/ UndoRoot(p) \/ UndoShim(p) \/ CompleteConfig(p)
           \/ CompleteLock(p) \/ CompleteShim(p)
  BY <1>2
    DEF Recovered, UndoRoot, UndoShim, CompleteConfig, CompleteLock, CompleteShim, Step,
      trees, journals, metadata, locks, counters
<1>3. CASE CompleteRoot(p) \/ UndoJournal(p) \/ Undone(p) \/ MoveOld(p) \/ OldMoved(p)
           \/ PlaceNew(p)
  BY <1>3
    DEF CompleteRoot, UndoJournal, Undone, MoveOld, OldMoved, PlaceNew, Step, Fails, trees,
      journals, metadata, locks, counters
<1>4. CASE NewPromoted(p) \/ Unplace(p) \/ GenerateShim(p) \/ Generated(p)
           \/ PersistConfig(p) \/ PersistLock(p)
  BY <1>4
    DEF NewPromoted, Unplace, GenerateShim, Generated, PersistConfig, PersistLock, Fails,
      Step, trees, journals, metadata, locks, counters
<1>5. CASE RemoveStale(p) \/ ShimFails(p) \/ Activate(p) \/ Finish(p) \/ Relock(p)
           \/ Repin(p)
  BY <1>5
    DEF RemoveStale, ShimFails, Activate, Finish, Relock, Repin, Step, Fails, trees,
      journals, metadata, locks, counters
<1>6. CASE Reconcile(p) \/ RemoveConfig(p) \/ RemoveLock(p) \/ RemoveShim(p)
           \/ ShimsRemoved(p) \/ BackMetadata(p)
  BY <1>6
    DEF Reconcile, RemoveConfig, RemoveLock, RemoveShim, ShimsRemoved, BackMetadata, Step,
      Fails, trees, journals, metadata, locks, counters
<1>7. CASE BackShim(p)
  BY <1>7 DEF BackShim, Step, trees, journals, locks, counters
<1>8. CASE Start(p)
  <2> DEFINE d(c) == IF c.op = "install" THEN "recover" ELSE "find"
  <2>1. PICK c \in Command : cmd' = [cmd EXCEPT ![p] = AfterStart(cmd[p], d(c), c.ver)]
    BY <1>8, Carrying
  <2>2. d(c) \in Sections /\ c.ver \in Version \cup {None}
    BY DEF Sections
  <2> HIDE DEF d
  <2>3. AfterStart(cmd[p], d(c), c.ver) \in CmdType
    BY <2>2, cmd[p] \in CmdType, UpdatesTyped
  <2> QED
    BY <2>1, <2>3
<1>9. CASE Kill(p)
  BY <1>9, IdleTyped DEF Kill, Leave, trees, journals, metadata
<1>10. CASE RecoverAside(p)
  <2>0. cmd[p].ver \in Version
    BY <1>10 DEF RecoverAside, Step
  <2>1. cmd' = [cmd EXCEPT ![p] = AfterAside(cmd[p], root[cmd[p].ver])]
    BY <1>10, Carrying
  <2>2. AfterAside(cmd[p], root[cmd[p].ver]) \in CmdType
    BY cmd[p] \in CmdType, <2>0, UpdatesTyped, PlaceTyped DEF Sections
  <2> QED
    BY <2>1, <2>2
<1>11. CASE RecoverFails(p)
  BY <1>11, IdleTyped DEF RecoverFails, FailsAndLeaves, Leave, journals, metadata
<1>12. CASE Refuse(p)
  BY <1>12, IdleTyped DEF Refuse, Leave, trees, journals, metadata, counters
<1>13. CASE UndoRefuses(p)
  BY <1>13, IdleTyped DEF UndoRefuses, Leave, trees, journals, metadata, counters
<1>14. CASE UndoFails(p)
  BY <1>14, IdleTyped DEF UndoFails, FailsAndLeaves, Leave, trees, journals, metadata
<1>15. CASE Reuse(p)
  <2>0. cmd[p].ver \in Version
    BY <1>15 DEF Reuse, Step
  <2>1. cmd' = [cmd EXCEPT ![p] = AfterDo(cmd[p], "publish")]
    BY <1>15, Carrying
  <2>2. AfterDo(cmd[p], "publish") \in CmdType
    BY cmd[p] \in CmdType, <2>0, UpdatesTyped, PlaceTyped DEF Sections
  <2> QED
    BY <2>1, <2>2
<1>16. CASE Stage(p)
  <2>1. PICK t \in Tree : cmd' = [cmd EXCEPT ![p] = AfterStage(cmd[p], t)]
    BY <1>16, Carrying
  <2>2. t \in Place
    BY DEF Place
  <2>3. AfterStage(cmd[p], t) \in CmdType
    BY <2>2, cmd[p] \in CmdType, UpdatesTyped
  <2> QED
    BY <2>1, <2>3
<1>17. CASE StageFails(p)
  BY <1>17, IdleTyped DEF StageFails, FailsAndLeaves, Leave, trees, journals, metadata
<1>18. CASE ReuseIsGone(p)
  BY <1>18, IdleTyped DEF ReuseIsGone, Leave, trees, journals, metadata, counters
<1>19. CASE Open(p)
  <2>0. cmd[p].ver \in Version
    BY <1>19 DEF Open, Step
  <2>1. cmd' = [cmd EXCEPT ![p] = AfterCapture(cmd[p], cmd[p].do, config, lock, root[cmd[p].ver])]
    BY <1>19, Carrying
  <2>2. AfterCapture(cmd[p], cmd[p].do, config, lock, root[cmd[p].ver]) \in CmdType
    BY cmd[p] \in CmdType, <2>0, UpdatesTyped, PlaceTyped DEF Sections
  <2> QED
    BY <2>1, <2>2
<1>20. CASE DropBackup(p)
  BY <1>20, IdleTyped DEF DropBackup, FailsAndLeaves, Leave, journals, metadata, locks
<1>21. CASE DropJournal(p)
  BY <1>21, IdleTyped DEF DropJournal, FailsAndLeaves, Leave, trees, metadata
<1>22. CASE Validate(p)
  <2>1. cmd' = cmd \/ cmd' = [cmd EXCEPT ![p] = AfterDo(cmd[p], "discard")]
    BY <1>22, Discarding DEF Validate
  <2>2. "discard" \in Sections
    BY DEF Sections
  <2>3. AfterDo(cmd[p], "discard") \in CmdType
    BY <2>2, cmd[p] \in CmdType, UpdatesTyped
  <2>4. Leave(p) => cmd' \in [Process -> CmdType]
    BY IdleTyped DEF Leave
  <2> QED
    BY <2>1, <2>3, <2>4
<1>23. CASE Published(p)
  BY <1>23, IdleTyped DEF Published, Leave, trees, journals, metadata, locks, counters
<1>24. CASE Cleared(p)
  BY <1>24, IdleTyped DEF Cleared, FailsAndLeaves, Leave, trees, metadata
<1>25. CASE Rollback(p)
  <2>1. cmd' = cmd \/ RollbackEnds(p, TRUE) \/ RollbackEnds(p, FALSE)
    BY <1>25 DEF Rollback
  <2>2. \/ cmd' = cmd \/ Leave(p)
        \/ cmd' = [cmd EXCEPT ![p] = AfterTries(cmd[p], 1)]
        \/ cmd' = [cmd EXCEPT ![p] = AfterTries(cmd[p], 2)]
    BY <2>1, RollingBack
  <2>3. AfterTries(cmd[p], 2) \in CmdType /\ AfterTries(cmd[p], 1) \in CmdType
    BY cmd[p] \in CmdType, UpdatesTyped
  <2> QED
    BY <2>2, <2>3, IdleTyped DEF Leave
<1>26. CASE Restore(p)
  <2>1. cmd' = cmd \/ RollbackEnds(p, TRUE) \/ RollbackEnds(p, FALSE)
    BY <1>26 DEF Restore
  <2>2. \/ cmd' = cmd \/ Leave(p)
        \/ cmd' = [cmd EXCEPT ![p] = AfterTries(cmd[p], 1)]
        \/ cmd' = [cmd EXCEPT ![p] = AfterTries(cmd[p], 2)]
    BY <2>1, RollingBack
  <2>3. AfterTries(cmd[p], 2) \in CmdType /\ AfterTries(cmd[p], 1) \in CmdType
    BY cmd[p] \in CmdType, UpdatesTyped
  <2> QED
    BY <2>2, <2>3, IdleTyped DEF Leave
<1>27. CASE Unjournal(p)
  <2>1. cmd' = cmd \/ RollbackEnds(p, TRUE) \/ RollbackEnds(p, FALSE)
    BY <1>27 DEF Unjournal
  <2>2. \/ cmd' = cmd \/ Leave(p)
        \/ cmd' = [cmd EXCEPT ![p] = AfterTries(cmd[p], 1)]
        \/ cmd' = [cmd EXCEPT ![p] = AfterTries(cmd[p], 2)]
    BY <2>1, RollingBack
  <2>3. AfterTries(cmd[p], 2) \in CmdType /\ AfterTries(cmd[p], 1) \in CmdType
    BY cmd[p] \in CmdType, UpdatesTyped
  <2> QED
    BY <2>2, <2>3, IdleTyped DEF Leave
<1>28. CASE Reconciled(p)
  BY <1>28, IdleTyped DEF Reconciled, Leave, trees, journals, metadata, locks
<1>29. CASE Select(p)
  <2>1. Leave(p) \/ cmd' = [cmd EXCEPT ![p] = AfterDo(cmd[p], "remove")]
    BY <1>29, Discarding DEF Select
  <2>2. "remove" \in Sections
    BY DEF Sections
  <2>3. AfterDo(cmd[p], "remove") \in CmdType
    BY <2>2, cmd[p] \in CmdType, UpdatesTyped
  <2>4. Leave(p) => cmd' \in [Process -> CmdType]
    BY IdleTyped DEF Leave
  <2> QED
    BY <2>1, <2>3, <2>4
<1>30. CASE NotInstalled(p)
  BY <1>30, IdleTyped DEF NotInstalled, Leave, trees, journals, metadata, counters
<1>31. CASE Prepare(p)
  <2>0. cmd[p].ver \in Version
    BY <1>31 DEF Prepare, Step
  <2> DEFINE d == IF errors' = errors THEN "remove" ELSE "discard"
  <2>1. cmd' = [cmd EXCEPT ![p] = AfterCapture(cmd[p], d, config, lock, root[cmd[p].ver])]
    BY <1>31, Carrying
  <2>2. d \in Sections
    BY DEF Sections
  <2> HIDE DEF d
  <2>3. AfterCapture(cmd[p], d, config, lock, root[cmd[p].ver]) \in CmdType
    BY <2>2, cmd[p] \in CmdType, <2>0, UpdatesTyped
  <2> QED
    BY <2>1, <2>3
<1>32. CASE Take(p)
  <2>1. cmd' = cmd \/ cmd' = [cmd EXCEPT ![p] = AfterDo(cmd[p], "discard")]
    BY <1>32, Discarding DEF Take
  <2>2. "discard" \in Sections
    BY DEF Sections
  <2>3. AfterDo(cmd[p], "discard") \in CmdType
    BY <2>2, cmd[p] \in CmdType, UpdatesTyped
  <2>4. Leave(p) => cmd' \in [Process -> CmdType]
    BY IdleTyped DEF Leave
  <2> QED
    BY <2>1, <2>3, <2>4
<1>33. CASE Commit(p)
  <2>1. cmd' = cmd \/ cmd' = [cmd EXCEPT ![p] = AfterDo(cmd[p], "discard")]
    BY <1>33, Discarding DEF Commit
  <2>2. "discard" \in Sections
    BY DEF Sections
  <2>3. AfterDo(cmd[p], "discard") \in CmdType
    BY <2>2, cmd[p] \in CmdType, UpdatesTyped
  <2>4. Leave(p) => cmd' \in [Process -> CmdType]
    BY IdleTyped DEF Leave
  <2> QED
    BY <2>1, <2>3, <2>4
<1>34. CASE Clean(p)
  BY <1>34, IdleTyped DEF Clean, FailsAndLeaves, Leave, journals, metadata, locks
<1>35. CASE Tidy(p)
  BY <1>35, IdleTyped DEF Tidy, FailsAndLeaves, Leave, trees, metadata
<1>36. CASE BackRoot(p)
  BY <1>36, IdleTyped DEF BackRoot, RootsBack, Leave, journals, metadata, locks
<1>37. CASE BackJournal(p)
  BY <1>37, IdleTyped DEF BackJournal, RootsBack, Leave, trees, metadata, locks
<1>38. CASE Back(p)
  BY <1>38, IdleTyped DEF Back, Leave, trees, journals, metadata
<1> QED
  BY <1>1, <1>2, <1>3, <1>4, <1>5, <1>6, <1>7, <1>8, <1>9, <1>10, <1>11, <1>12, <1>13,
     <1>14, <1>15, <1>16, <1>17, <1>18, <1>19, <1>20, <1>21, <1>22, <1>23, <1>24, <1>25,
     <1>26, <1>27, <1>28, <1>29, <1>30, <1>31, <1>32, <1>33, <1>34, <1>35, <1>36, <1>37,
     <1>38 DEF Run, Recovery, Install, Uninstall

\* The locks are held by processes.
LEMMA LocksTyped ==
  ASSUME held \in [Version -> Process \cup {None}], state \in Process \cup {None},
         NEW p \in Process, Start(p) \/ Kill(p) \/ Run(p)
  PROVE  held' \in [Version -> Process \cup {None}] /\ state' \in Process \cup {None}
<1>1. CASE Start(p) \/ RecoverAside(p) \/ RecoverBackup(p) \/ RecoverClear(p)
           \/ RecoverDebris(p) \/ RecoverJournal(p)
  BY <1>1
    DEF Start, RecoverAside, RecoverBackup, RecoverClear, RecoverDebris, RecoverJournal,
      Step, trees, journals, metadata, locks, counters
<1>2. CASE UndoRoot(p) \/ UndoShim(p) \/ CompleteConfig(p) \/ CompleteLock(p)
           \/ CompleteShim(p) \/ CompleteRoot(p)
  BY <1>2
    DEF UndoRoot, UndoShim, CompleteConfig, CompleteLock, CompleteShim, CompleteRoot,
      trees, journals, metadata, locks, counters
<1>3. CASE UndoJournal(p) \/ Reuse(p) \/ Stage(p) \/ Open(p) \/ MoveOld(p) \/ OldMoved(p)
  BY <1>3
    DEF UndoJournal, Reuse, Stage, Open, MoveOld, OldMoved, Step, Fails, trees, journals,
      metadata, locks, counters
<1>4. CASE PlaceNew(p) \/ NewPromoted(p) \/ Unplace(p) \/ Validate(p) \/ GenerateShim(p)
           \/ Generated(p)
  BY <1>4
    DEF PlaceNew, NewPromoted, Unplace, Validate, GenerateShim, Generated, Fails, Step,
      trees, journals, metadata, locks, counters
<1>5. CASE PersistConfig(p) \/ PersistLock(p) \/ RemoveStale(p) \/ ShimFails(p)
           \/ Activate(p) \/ Finish(p)
  BY <1>5
    DEF PersistConfig, PersistLock, RemoveStale, ShimFails, Activate, Finish, Fails, Step,
      trees, journals, metadata, locks, counters
<1>6. CASE Relock(p) \/ Repin(p) \/ Reconcile(p) \/ Prepare(p) \/ Take(p) \/ Commit(p)
  BY <1>6
    DEF Relock, Repin, Reconcile, Prepare, Take, Commit, Fails, Step, trees, journals,
      metadata, locks, counters
<1>7. CASE RemoveConfig(p) \/ RemoveLock(p) \/ RemoveShim(p) \/ ShimsRemoved(p)
           \/ BackMetadata(p) \/ BackShim(p)
  BY <1>7
    DEF RemoveConfig, RemoveLock, RemoveShim, ShimsRemoved, BackMetadata, BackShim, Fails,
      Step, trees, journals, metadata, locks, counters
<1>8. CASE TakeVersion(p)
  BY <1>8 DEF TakeVersion, trees, journals, metadata, counters
<1>9. CASE TakeState(p)
  BY <1>9 DEF TakeState, trees, journals, metadata, counters
<1>10. CASE Kill(p)
  BY <1>10 DEF Kill, Leave, trees, journals, metadata
<1>11. CASE Recovered(p)
  BY <1>11 DEF Recovered, trees, journals, metadata, counters
<1>12. CASE RecoverFails(p)
  BY <1>12 DEF RecoverFails, FailsAndLeaves, Leave, journals, metadata
<1>13. CASE Refuse(p)
  BY <1>13 DEF Refuse, Leave, trees, journals, metadata, counters
<1>14. CASE UndoRefuses(p)
  BY <1>14 DEF UndoRefuses, Leave, trees, journals, metadata, counters
<1>15. CASE UndoFails(p)
  BY <1>15 DEF UndoFails, FailsAndLeaves, Leave, trees, journals, metadata
<1>16. CASE Undone(p)
  BY <1>16 DEF Undone, trees, journals, metadata, counters
<1>17. CASE StageFails(p)
  BY <1>17 DEF StageFails, FailsAndLeaves, Leave, trees, journals, metadata
<1>18. CASE ReuseIsGone(p)
  BY <1>18 DEF ReuseIsGone, Leave, trees, journals, metadata, counters
<1>19. CASE DropBackup(p)
  BY <1>19 DEF DropBackup, FailsAndLeaves, Leave, journals, metadata, locks
<1>20. CASE DropJournal(p)
  BY <1>20 DEF DropJournal, FailsAndLeaves, Leave, trees, metadata
<1>21. CASE Published(p)
  BY <1>21 DEF Published, Leave, trees, journals, metadata, locks, counters
<1>22. CASE Cleared(p)
  BY <1>22 DEF Cleared, FailsAndLeaves, Leave, trees, metadata
<1>23. CASE Rollback(p)
  BY <1>23 DEF Rollback, RollbackEnds, Leave, journals, metadata, locks
<1>24. CASE Restore(p)
  BY <1>24 DEF Restore, RollbackEnds, Leave, journals, metadata, locks
<1>25. CASE Unjournal(p)
  BY <1>25 DEF Unjournal, RollbackEnds, Leave, trees, metadata, locks
<1>26. CASE Reconciled(p)
  BY <1>26 DEF Reconciled, Leave, trees, journals, metadata, locks
<1>27. CASE Select(p)
  BY <1>27 DEF Select, Leave, trees, journals, metadata, locks, counters
<1>28. CASE NotInstalled(p)
  BY <1>28 DEF NotInstalled, Leave, trees, journals, metadata, counters
<1>29. CASE Clean(p)
  BY <1>29 DEF Clean, FailsAndLeaves, Leave, journals, metadata, locks
<1>30. CASE Tidy(p)
  BY <1>30 DEF Tidy, FailsAndLeaves, Leave, trees, metadata
<1>31. CASE BackRoot(p)
  BY <1>31 DEF BackRoot, RootsBack, Leave, journals, metadata, locks
<1>32. CASE BackJournal(p)
  BY <1>32 DEF BackJournal, RootsBack, Leave, trees, metadata, locks
<1>33. CASE Back(p)
  BY <1>33 DEF Back, Leave, trees, journals, metadata
<1> QED
  BY <1>1, <1>2, <1>3, <1>4, <1>5, <1>6, <1>7, <1>8, <1>9, <1>10, <1>11, <1>12, <1>13,
     <1>14, <1>15, <1>16, <1>17, <1>18, <1>19, <1>20, <1>21, <1>22, <1>23, <1>24, <1>25,
     <1>26, <1>27, <1>28, <1>29, <1>30, <1>31, <1>32, <1>33 DEF Run, Recovery, Install, Uninstall

\* What is at a place may be there.
LEMMA TreesTyped ==
  ASSUME root \in [Version -> Place], backup \in [Version -> Place],
         away \in [Version -> Place], cmd \in [Process -> CmdType],
         NEW p \in Process, Start(p) \/ Kill(p) \/ Run(p)
  PROVE  /\ root' \in [Version -> Place] /\ backup' \in [Version -> Place]
         /\ away' \in [Version -> Place]
<1>1. CASE Start(p) \/ TakeVersion(p) \/ TakeState(p) \/ Kill(p) \/ RecoverJournal(p)
           \/ Recovered(p)
  BY <1>1
    DEF Start, TakeVersion, TakeState, Kill, RecoverJournal, Recovered, Step, trees,
      journals, metadata, locks, counters
<1>2. CASE Refuse(p) \/ UndoShim(p) \/ CompleteConfig(p) \/ CompleteLock(p)
           \/ CompleteShim(p) \/ UndoJournal(p)
  BY <1>2
    DEF Refuse, UndoShim, CompleteConfig, CompleteLock, CompleteShim, UndoJournal, trees,
      journals, metadata, locks, counters
<1>3. CASE UndoRefuses(p) \/ UndoFails(p) \/ Undone(p) \/ Reuse(p) \/ Stage(p)
           \/ StageFails(p)
  BY <1>3
    DEF UndoRefuses, UndoFails, Undone, Reuse, Stage, StageFails, Step, trees, journals,
      metadata, locks, counters
<1>4. CASE ReuseIsGone(p) \/ Open(p) \/ OldMoved(p) \/ NewPromoted(p) \/ DropJournal(p)
           \/ Validate(p)
  BY <1>4
    DEF ReuseIsGone, Open, OldMoved, NewPromoted, DropJournal, Validate, Fails, Step,
      trees, journals, metadata, locks, counters
<1>5. CASE GenerateShim(p) \/ Generated(p) \/ PersistConfig(p) \/ PersistLock(p)
           \/ RemoveStale(p) \/ Published(p)
  BY <1>5
    DEF GenerateShim, Generated, PersistConfig, PersistLock, RemoveStale, Published, Step,
      Fails, trees, journals, metadata, locks, counters
<1>6. CASE ShimFails(p) \/ Activate(p) \/ Cleared(p) \/ Relock(p) \/ Repin(p)
           \/ Unjournal(p)
  BY <1>6
    DEF ShimFails, Activate, Cleared, Relock, Repin, Unjournal, Fails, Step, trees,
      journals, metadata, locks
<1>7. CASE Reconcile(p) \/ Reconciled(p) \/ Select(p) \/ NotInstalled(p) \/ Prepare(p)
           \/ Commit(p)
  BY <1>7
    DEF Reconcile, Reconciled, Select, NotInstalled, Prepare, Commit, Step, Fails, trees,
      journals, metadata, locks, counters
<1>8. CASE RemoveConfig(p) \/ RemoveLock(p) \/ RemoveShim(p) \/ ShimsRemoved(p)
           \/ Tidy(p) \/ BackMetadata(p)
  BY <1>8
    DEF RemoveConfig, RemoveLock, RemoveShim, ShimsRemoved, Tidy, BackMetadata, Fails,
      Step, trees, journals, metadata, locks, counters
<1>9. CASE BackJournal(p) \/ BackShim(p) \/ Back(p)
  BY <1>9 DEF BackJournal, BackShim, Back, Step, trees, journals, metadata, locks, counters
<1>10. CASE RecoverAside(p)
  <2>1. root' = Put(root, cmd[p].ver, "gone") /\ backup' = backup /\ away' = away
    BY <1>10 DEF RecoverAside
  <2> QED
    BY <2>1, PlaceTyped DEF Put
<1>11. CASE RecoverBackup(p)
  BY <1>11, RemovedTyped, PlaceTyped
    DEF RecoverBackup, Put, journals, metadata, locks, counters
<1>12. CASE RecoverClear(p)
  BY <1>12, RemovedTyped, PlaceTyped
    DEF RecoverClear, Put, journals, metadata, locks, counters
<1>13. CASE RecoverDebris(p)
  <2>1. PICK t \in Removed(backup[cmd[p].ver]) : backup' = Put(backup, cmd[p].ver, t)
    BY <1>13 DEF RecoverDebris
  <2>2. t \in Place /\ root' = root /\ away' = away
    BY <1>13, <2>1, RemovedTyped DEF RecoverDebris
  <2> QED
    BY <2>1, <2>2 DEF Put
<1>14. CASE RecoverFails(p)
  BY <1>14, RemovedTyped, PlaceTyped DEF RecoverFails, Put, journals, metadata
<1>15. CASE UndoRoot(p)
  BY <1>15, RemovedTyped, PlaceTyped DEF UndoRoot, Put, journals, metadata, locks, counters
<1>16. CASE CompleteRoot(p)
  BY <1>16, RemovedTyped, PlaceTyped
    DEF CompleteRoot, Put, journals, metadata, locks, counters
<1>17. CASE MoveOld(p)
  BY <1>17, RemovedTyped, PlaceTyped DEF MoveOld, Put, journals, metadata, locks
<1>18. CASE PlaceNew(p)
  BY <1>18, RemovedTyped, PlaceTyped DEF PlaceNew, Put, journals, metadata, locks
<1>19. CASE Unplace(p)
  BY <1>19, RemovedTyped, PlaceTyped DEF Unplace, Put, journals, metadata, locks
<1>20. CASE DropBackup(p)
  BY <1>20, RemovedTyped, PlaceTyped DEF DropBackup, Put, journals, metadata, locks
<1>21. CASE Finish(p)
  BY <1>21, RemovedTyped, PlaceTyped DEF Finish, Put, journals, metadata, locks
<1>22. CASE Rollback(p)
  <2>1. /\ root' = root \/ root' = Put(root, cmd[p].ver, "gone")
        /\ backup' = backup /\ away' = away
    BY <1>22 DEF Rollback
  <2> QED
    BY <2>1, PlaceTyped DEF Put
<1>23. CASE Restore(p)
  <2>1. /\ \/ root' = root /\ backup' = backup
           \/ /\ root' = Put(root, cmd[p].ver, backup[cmd[p].ver])
              /\ backup' = Put(backup, cmd[p].ver, "gone")
        /\ away' = away
    BY <1>23 DEF Restore
  <2> QED
    BY <2>1, PlaceTyped DEF Put
<1>24. CASE Take(p)
  BY <1>24, RemovedTyped, PlaceTyped DEF Take, Put, journals, metadata, locks
<1>25. CASE Clean(p)
  BY <1>25, RemovedTyped, PlaceTyped DEF Clean, Put, journals, metadata, locks
<1>26. CASE BackRoot(p)
  BY <1>26, RemovedTyped, PlaceTyped DEF BackRoot, Put, journals, metadata, locks
<1> QED
  BY <1>1, <1>2, <1>3, <1>4, <1>5, <1>6, <1>7, <1>8, <1>9, <1>10, <1>11, <1>12, <1>13,
     <1>14, <1>15, <1>16, <1>17, <1>18, <1>19, <1>20, <1>21, <1>22, <1>23, <1>24, <1>25,
     <1>26 DEF Run, Recovery, Install, Uninstall

\* The journal of a promotion that begins,
LEMMA PreparedTyped ==
  ASSUME promotion \in [Version -> PromotionType], NEW v, NEW had \in BOOLEAN
  PROVE  [promotion EXCEPT ![v] = [phase |-> "prepared", had |-> had]] \in [Version -> PromotionType]
  BY DEF PromotionType

\* and that of an uninstall.
LEMMA MovingTyped ==
  ASSUME removal \in [Version -> RemovalType], NEW v, NEW g \in BOOLEAN, NEW l \in BOOLEAN
  PROVE  [removal EXCEPT ![v] = [phase |-> "moving", config |-> g, lock |-> l]]
           \in [Version -> RemovalType]
  BY DEF RemovalType

\* The journals stay journals.
LEMMA JournalsTyped ==
  ASSUME promotion \in [Version -> PromotionType], removal \in [Version -> RemovalType],
         NEW p \in Process, Start(p) \/ Kill(p) \/ Run(p)
  PROVE  /\ promotion' \in [Version -> PromotionType]
         /\ removal' \in [Version -> RemovalType]
<1>1. CASE Start(p) \/ TakeVersion(p) \/ TakeState(p) \/ Kill(p) \/ RecoverAside(p)
           \/ RecoverBackup(p)
  BY <1>1
    DEF Start, TakeVersion, TakeState, Kill, RecoverAside, RecoverBackup, Step, trees,
      journals, metadata, locks, counters
<1>2. CASE RecoverClear(p) \/ RecoverDebris(p) \/ Recovered(p) \/ RecoverFails(p)
           \/ Refuse(p) \/ UndoRoot(p)
  BY <1>2
    DEF RecoverClear, RecoverDebris, Recovered, RecoverFails, Refuse, UndoRoot, Step,
      trees, journals, metadata, locks, counters
<1>3. CASE UndoShim(p) \/ CompleteConfig(p) \/ CompleteLock(p) \/ CompleteShim(p)
           \/ CompleteRoot(p) \/ UndoRefuses(p)
  BY <1>3
    DEF UndoShim, CompleteConfig, CompleteLock, CompleteShim, CompleteRoot, UndoRefuses,
      trees, journals, metadata, locks, counters
<1>4. CASE UndoFails(p) \/ Undone(p) \/ Reuse(p) \/ Stage(p) \/ StageFails(p)
           \/ ReuseIsGone(p)
  BY <1>4
    DEF UndoFails, Undone, Reuse, Stage, StageFails, ReuseIsGone, Step, trees, journals,
      metadata, locks, counters
<1>5. CASE MoveOld(p) \/ PlaceNew(p) \/ Unplace(p) \/ DropBackup(p) \/ Validate(p)
           \/ GenerateShim(p)
  BY <1>5
    DEF MoveOld, PlaceNew, Unplace, DropBackup, Validate, GenerateShim, Fails, Step, trees,
      journals, metadata, locks, counters
<1>6. CASE Generated(p) \/ PersistConfig(p) \/ PersistLock(p) \/ RemoveStale(p)
           \/ Published(p) \/ ShimFails(p)
  BY <1>6
    DEF Generated, PersistConfig, PersistLock, RemoveStale, Published, ShimFails, Step,
      Fails, trees, journals, metadata, locks, counters
<1>7. CASE Finish(p) \/ Relock(p) \/ Repin(p) \/ Rollback(p) \/ Restore(p)
           \/ Reconcile(p)
  BY <1>7
    DEF Finish, Relock, Repin, Rollback, Restore, Reconcile, Fails, Step, trees, journals,
      metadata, locks, counters
<1>8. CASE Reconciled(p) \/ Select(p) \/ NotInstalled(p) \/ Take(p) \/ RemoveConfig(p)
           \/ RemoveLock(p)
  BY <1>8
    DEF Reconciled, Select, NotInstalled, Take, RemoveConfig, RemoveLock, Step, Fails,
      trees, journals, metadata, locks, counters
<1>9. CASE RemoveShim(p) \/ ShimsRemoved(p) \/ Clean(p) \/ BackMetadata(p) \/ BackRoot(p)
           \/ BackShim(p)
  BY <1>9
    DEF RemoveShim, ShimsRemoved, Clean, BackMetadata, BackRoot, BackShim, Step, Fails,
      trees, journals, metadata, locks, counters
<1>10. CASE Back(p)
  BY <1>10 DEF Back, trees, journals, metadata
<1>11. CASE RecoverJournal(p)
  BY <1>11, IdleTyped, JournalTyped, CommittedTyped
    DEF RecoverJournal, trees, metadata, locks, counters
<1>12. CASE UndoJournal(p)
  BY <1>12, IdleTyped, JournalTyped, CommittedTyped
    DEF UndoJournal, trees, metadata, locks, counters
<1>13. CASE Open(p)
  <2> DEFINE v == cmd[p].ver
             announced == [promotion EXCEPT ![v] = [phase |-> "prepared", had |-> root[v] # "gone"]]
  <2>1. promotion' \in {promotion, announced} /\ removal' = removal
    BY <1>13 DEF Open
  <2>2. (root[v] # "gone") \in BOOLEAN
    OBVIOUS
  <2>3. announced \in [Version -> PromotionType]
    BY <2>2, PreparedTyped
  <2> HIDE DEF announced
  <2> QED
    BY <2>1, <2>3
<1>14. CASE OldMoved(p)
  BY <1>14, IdleTyped, JournalTyped, CommittedTyped DEF OldMoved, trees, metadata, locks
<1>15. CASE NewPromoted(p)
  BY <1>15, IdleTyped, JournalTyped, CommittedTyped DEF NewPromoted, trees, metadata, locks
<1>16. CASE DropJournal(p)
  BY <1>16, IdleTyped, JournalTyped, CommittedTyped DEF DropJournal, trees, metadata
<1>17. CASE Activate(p)
  BY <1>17, IdleTyped, JournalTyped, CommittedTyped DEF Activate, trees, metadata, locks
<1>18. CASE Cleared(p)
  BY <1>18, IdleTyped, JournalTyped, CommittedTyped DEF Cleared, trees, metadata
<1>19. CASE Unjournal(p)
  <2>1. promotion' \in {promotion, [promotion EXCEPT ![cmd[p].ver] = NoPromotion]}
        /\ removal' = removal
    BY <1>19 DEF Unjournal
  <2> QED
    BY <2>1, IdleTyped
<1>20. CASE Prepare(p)
  <2> DEFINE v == cmd[p].ver
             begun == [removal EXCEPT ![v] = [phase |-> "moving", config |-> config = v,
                                              lock |-> lock = v]]
  <2>1. removal' \in {removal, begun} /\ promotion' = promotion
    BY <1>20 DEF Prepare
  <2>2. (config = v) \in BOOLEAN /\ (lock = v) \in BOOLEAN
    OBVIOUS
  <2>3. begun \in [Version -> RemovalType]
    BY <2>2, MovingTyped
  <2> HIDE DEF begun
  <2> QED
    BY <2>1, <2>3
<1>21. CASE Commit(p)
  BY <1>21, IdleTyped, JournalTyped, CommittedTyped DEF Commit, trees, metadata, locks
<1>22. CASE Tidy(p)
  BY <1>22, IdleTyped, JournalTyped, CommittedTyped DEF Tidy, trees, metadata
<1>23. CASE BackJournal(p)
  BY <1>23, IdleTyped, JournalTyped, CommittedTyped DEF BackJournal, trees, metadata
<1> QED
  BY <1>1, <1>2, <1>3, <1>4, <1>5, <1>6, <1>7, <1>8, <1>9, <1>10, <1>11, <1>12, <1>13,
     <1>14, <1>15, <1>16, <1>17, <1>18, <1>19, <1>20, <1>21, <1>22, <1>23
     DEF Run, Recovery, Install, Uninstall

\* The config and the lock name versions, the shims are commands.
LEMMA MetadataTyped ==
  ASSUME config \in Version \cup {None}, lock \in Version \cup {None}, shims \in SUBSET Name,
         cmd \in [Process -> CmdType], NEW p \in Process, pc[p] # "idle" => cmd[p].ver \in Version,
         Start(p) \/ Kill(p) \/ Run(p)
  PROVE  /\ config' \in Version \cup {None} /\ lock' \in Version \cup {None}
         /\ shims' \in SUBSET Name
<1>1. CASE Start(p) \/ TakeVersion(p) \/ TakeState(p) \/ Kill(p) \/ RecoverAside(p)
           \/ RecoverBackup(p)
  BY <1>1
    DEF Start, TakeVersion, TakeState, Kill, RecoverAside, RecoverBackup, Step, trees,
      journals, metadata, locks, counters
<1>2. CASE RecoverClear(p) \/ RecoverDebris(p) \/ RecoverJournal(p) \/ Recovered(p)
           \/ RecoverFails(p) \/ Refuse(p)
  BY <1>2
    DEF RecoverClear, RecoverDebris, RecoverJournal, Recovered, RecoverFails, Refuse, Step,
      trees, journals, metadata, locks, counters
<1>3. CASE UndoRoot(p) \/ CompleteRoot(p) \/ UndoJournal(p) \/ UndoRefuses(p)
           \/ UndoFails(p) \/ Undone(p)
  BY <1>3
    DEF UndoRoot, CompleteRoot, UndoJournal, UndoRefuses, UndoFails, Undone, Step, trees,
      journals, metadata, locks, counters
<1>4. CASE Reuse(p) \/ Stage(p) \/ StageFails(p) \/ ReuseIsGone(p) \/ Open(p)
           \/ MoveOld(p)
  BY <1>4
    DEF Reuse, Stage, StageFails, ReuseIsGone, Open, MoveOld, Step, Fails, trees, journals,
      metadata, locks, counters
<1>5. CASE OldMoved(p) \/ PlaceNew(p) \/ NewPromoted(p) \/ Unplace(p) \/ DropBackup(p)
           \/ DropJournal(p)
  BY <1>5
    DEF OldMoved, PlaceNew, NewPromoted, Unplace, DropBackup, DropJournal, Fails, Step,
      trees, journals, metadata, locks
<1>6. CASE Validate(p) \/ Generated(p) \/ Published(p) \/ ShimFails(p) \/ Activate(p)
           \/ Finish(p)
  BY <1>6
    DEF Validate, Generated, Published, ShimFails, Activate, Finish, Fails, Step, trees,
      journals, metadata, locks, counters
<1>7. CASE Cleared(p) \/ Rollback(p) \/ Restore(p) \/ Unjournal(p) \/ Reconciled(p)
           \/ Select(p)
  BY <1>7
    DEF Cleared, Rollback, Restore, Unjournal, Reconciled, Select, Step, trees, journals,
      metadata, locks, counters
<1>8. CASE NotInstalled(p) \/ Prepare(p) \/ Take(p) \/ Commit(p) \/ ShimsRemoved(p)
           \/ Clean(p)
  BY <1>8
    DEF NotInstalled, Prepare, Take, Commit, ShimsRemoved, Clean, Fails, Step, trees,
      journals, metadata, locks, counters
<1>9. CASE Tidy(p) \/ BackRoot(p) \/ BackJournal(p) \/ Back(p)
  BY <1>9 DEF Tidy, BackRoot, BackJournal, Back, Step, trees, journals, metadata, locks
<1>10. CASE UndoShim(p)
  BY <1>10, PlaceTyped DEF UndoShim, trees, journals, locks, counters
<1>11. CASE CompleteConfig(p)
  BY <1>11, PlaceTyped DEF CompleteConfig, trees, journals, locks, counters
<1>12. CASE CompleteLock(p)
  BY <1>12, PlaceTyped DEF CompleteLock, trees, journals, locks, counters
<1>13. CASE CompleteShim(p)
  BY <1>13, PlaceTyped DEF CompleteShim, trees, journals, locks, counters
<1>14. CASE GenerateShim(p)
  BY <1>14, PlaceTyped DEF GenerateShim, trees, journals, locks, counters
<1>15. CASE PersistConfig(p)
  BY <1>15, PlaceTyped DEF PersistConfig, trees, journals, locks
<1>16. CASE PersistLock(p)
  BY <1>16, PlaceTyped DEF PersistLock, trees, journals, locks
<1>17. CASE RemoveStale(p)
  BY <1>17, PlaceTyped DEF RemoveStale, trees, journals, locks, counters
<1>18. CASE Relock(p)
  BY <1>18, PlaceTyped DEF Relock, trees, journals, locks
<1>19. CASE Repin(p)
  BY <1>19, PlaceTyped DEF Repin, trees, journals, locks
<1>20. CASE Reconcile(p)
  BY <1>20, PlaceTyped DEF Reconcile, trees, journals, locks, counters
<1>21. CASE RemoveConfig(p)
  BY <1>21, PlaceTyped DEF RemoveConfig, trees, journals, locks
<1>22. CASE RemoveLock(p)
  BY <1>22, PlaceTyped DEF RemoveLock, trees, journals, locks
<1>23. CASE RemoveShim(p)
  BY <1>23, PlaceTyped DEF RemoveShim, Unowned, trees, journals, locks, counters
<1>24. CASE BackMetadata(p)
  BY <1>24, PlaceTyped DEF BackMetadata, trees, journals, locks
<1>25. CASE BackShim(p)
  BY <1>25, PlaceTyped DEF BackShim, trees, journals, locks, counters
<1> QED
  BY <1>1, <1>2, <1>3, <1>4, <1>5, <1>6, <1>7, <1>8, <1>9, <1>10, <1>11, <1>12, <1>13,
     <1>14, <1>15, <1>16, <1>17, <1>18, <1>19, <1>20, <1>21, <1>22, <1>23, <1>24, <1>25
     DEF Run, Recovery, Install, Uninstall

\* The bounds hold.
LEMMA CountersTyped ==
  ASSUME promised \in SUBSET Version, commands \in 0..MaxCommands, kills \in 0..MaxKills,
         errors \in 0..MaxErrors, NEW p \in Process, pc[p] # "idle" => cmd[p].ver \in Version,
         Start(p) \/ Kill(p) \/ Run(p)
  PROVE  /\ promised' \in SUBSET Version /\ commands' \in 0..MaxCommands
         /\ kills' \in 0..MaxKills /\ errors' \in 0..MaxErrors
<1>1. CASE Start(p)
  BY <1>1 DEF Start, Step, trees, journals, metadata, locks
<1>2. CASE TakeVersion(p)
  BY <1>2 DEF TakeVersion, Step, trees, journals, metadata, counters
<1>3. CASE TakeState(p)
  BY <1>3 DEF TakeState, Step, trees, journals, metadata, counters
<1>4. CASE Kill(p)
  BY <1>4 DEF Kill, trees, journals, metadata
<1>5. CASE RecoverAside(p)
  BY <1>5 DEF RecoverAside, Step, journals, metadata, locks, counters
<1>6. CASE RecoverBackup(p)
  BY <1>6 DEF RecoverBackup, Step, journals, metadata, locks, counters
<1>7. CASE RecoverClear(p)
  BY <1>7 DEF RecoverClear, Step, journals, metadata, locks, counters
<1>8. CASE RecoverDebris(p)
  BY <1>8 DEF RecoverDebris, Step, journals, metadata, locks, counters
<1>9. CASE RecoverJournal(p)
  BY <1>9 DEF RecoverJournal, Step, trees, metadata, locks, counters
<1>10. CASE Recovered(p)
  BY <1>10 DEF Recovered, Step, trees, journals, metadata, counters
<1>11. CASE RecoverFails(p)
  BY <1>11 DEF RecoverFails, FailsAndLeaves, journals, metadata
<1>12. CASE Refuse(p)
  BY <1>12 DEF Refuse, trees, journals, metadata, counters
<1>13. CASE UndoRoot(p)
  BY <1>13 DEF UndoRoot, journals, metadata, locks, counters
<1>14. CASE UndoShim(p)
  BY <1>14 DEF UndoShim, trees, journals, locks, counters
<1>15. CASE CompleteConfig(p)
  BY <1>15 DEF CompleteConfig, trees, journals, locks, counters
<1>16. CASE CompleteLock(p)
  BY <1>16 DEF CompleteLock, trees, journals, locks, counters
<1>17. CASE CompleteShim(p)
  BY <1>17 DEF CompleteShim, trees, journals, locks, counters
<1>18. CASE CompleteRoot(p)
  BY <1>18 DEF CompleteRoot, journals, metadata, locks, counters
<1>19. CASE UndoJournal(p)
  BY <1>19 DEF UndoJournal, trees, metadata, locks, counters
<1>20. CASE UndoRefuses(p)
  BY <1>20 DEF UndoRefuses, trees, journals, metadata, counters
<1>21. CASE UndoFails(p)
  BY <1>21 DEF UndoFails, FailsAndLeaves, trees, journals, metadata
<1>22. CASE Undone(p)
  BY <1>22 DEF Undone, Step, trees, journals, metadata, counters
<1>23. CASE Reuse(p)
  BY <1>23 DEF Reuse, Step, trees, journals, metadata, locks, counters
<1>24. CASE Stage(p)
  BY <1>24 DEF Stage, Step, trees, journals, metadata, locks, counters
<1>25. CASE StageFails(p)
  BY <1>25 DEF StageFails, FailsAndLeaves, trees, journals, metadata
<1>26. CASE ReuseIsGone(p)
  BY <1>26 DEF ReuseIsGone, trees, journals, metadata, counters
<1>27. CASE Open(p)
  BY <1>27 DEF Open, Fails, Step, trees, metadata, locks
<1>28. CASE MoveOld(p)
  BY <1>28 DEF MoveOld, Fails, Step, journals, metadata, locks
<1>29. CASE OldMoved(p)
  BY <1>29 DEF OldMoved, Fails, Step, trees, metadata, locks
<1>30. CASE PlaceNew(p)
  BY <1>30 DEF PlaceNew, Fails, Step, journals, metadata, locks
<1>31. CASE NewPromoted(p)
  BY <1>31 DEF NewPromoted, Fails, Step, trees, metadata, locks
<1>32. CASE Unplace(p)
  BY <1>32 DEF Unplace, Fails, Step, journals, metadata, locks
<1>33. CASE DropBackup(p)
  BY <1>33 DEF DropBackup, FailsAndLeaves, journals, metadata, locks
<1>34. CASE DropJournal(p)
  BY <1>34 DEF DropJournal, FailsAndLeaves, trees, metadata
<1>35. CASE Validate(p)
  BY <1>35 DEF Validate, Fails, Step, trees, journals, metadata, locks
<1>36. CASE GenerateShim(p)
  BY <1>36 DEF GenerateShim, Step, trees, journals, locks, counters
<1>37. CASE Generated(p)
  BY <1>37 DEF Generated, Step, trees, journals, metadata, locks, counters
<1>38. CASE PersistConfig(p)
  BY <1>38 DEF PersistConfig, Fails, Step, trees, journals, locks
<1>39. CASE PersistLock(p)
  BY <1>39 DEF PersistLock, Fails, Step, trees, journals, locks
<1>40. CASE RemoveStale(p)
  BY <1>40 DEF RemoveStale, Step, trees, journals, locks, counters
<1>41. CASE Published(p)
  BY <1>41 DEF Published, Step, trees, journals, metadata, locks, counters
<1>42. CASE ShimFails(p)
  BY <1>42 DEF ShimFails, Fails, Step, trees, journals, metadata, locks
<1>43. CASE Activate(p)
  BY <1>43 DEF Activate, Fails, Step, trees, metadata, locks
<1>44. CASE Finish(p)
  BY <1>44 DEF Finish, Fails, Step, journals, metadata, locks
<1>45. CASE Cleared(p)
  BY <1>45 DEF Cleared, FailsAndLeaves, trees, metadata
<1>46. CASE Relock(p)
  BY <1>46 DEF Relock, Fails, Step, trees, journals, locks
<1>47. CASE Repin(p)
  BY <1>47 DEF Repin, Fails, Step, trees, journals, locks
<1>48. CASE Rollback(p)
  <2>1. \/ errors' = errors
        \/ errors < MaxErrors /\ errors' = errors + 1
    BY <1>48 DEF Rollback
  <2>2. promised' = promised /\ commands' = commands /\ kills' = kills
    BY <1>48 DEF Rollback
  <2>3. errors' \in 0..MaxErrors
    BY <2>1
  <2> QED
    BY <2>2, <2>3
<1>49. CASE Restore(p)
  <2>1. \/ errors' = errors
        \/ errors < MaxErrors /\ errors' = errors + 1
    BY <1>49 DEF Restore
  <2>2. promised' = promised /\ commands' = commands /\ kills' = kills
    BY <1>49 DEF Restore
  <2>3. errors' \in 0..MaxErrors
    BY <2>1
  <2> QED
    BY <2>2, <2>3
<1>50. CASE Unjournal(p)
  <2>1. \/ errors' = errors
        \/ errors < MaxErrors /\ errors' = errors + 1
    BY <1>50 DEF Unjournal
  <2>2. promised' = promised /\ commands' = commands /\ kills' = kills
    BY <1>50 DEF Unjournal
  <2>3. errors' \in 0..MaxErrors
    BY <2>1
  <2> QED
    BY <2>2, <2>3
<1>51. CASE Reconcile(p)
  BY <1>51 DEF Reconcile, Step, trees, journals, locks, counters
<1>52. CASE Reconciled(p)
  BY <1>52 DEF Reconciled, Step, trees, journals, metadata, locks
<1>53. CASE Select(p)
  BY <1>53 DEF Select, Step, trees, journals, metadata, locks, counters
<1>54. CASE NotInstalled(p)
  BY <1>54 DEF NotInstalled, trees, journals, metadata, counters
<1>55. CASE Prepare(p)
  BY <1>55 DEF Prepare, Fails, Step, trees, metadata, locks
<1>56. CASE Take(p)
  BY <1>56 DEF Take, Fails, Step, journals, metadata, locks
<1>57. CASE Commit(p)
  BY <1>57 DEF Commit, Fails, Step, trees, metadata, locks
<1>58. CASE RemoveConfig(p)
  BY <1>58 DEF RemoveConfig, Fails, Step, trees, journals, locks
<1>59. CASE RemoveLock(p)
  BY <1>59 DEF RemoveLock, Fails, Step, trees, journals, locks
<1>60. CASE RemoveShim(p)
  BY <1>60 DEF RemoveShim, Step, trees, journals, locks, counters
<1>61. CASE ShimsRemoved(p)
  BY <1>61 DEF ShimsRemoved, Fails, Step, trees, journals, metadata, locks
<1>62. CASE Clean(p)
  BY <1>62 DEF Clean, FailsAndLeaves, Step, journals, metadata, locks
<1>63. CASE Tidy(p)
  BY <1>63 DEF Tidy, FailsAndLeaves, trees, metadata
<1>64. CASE BackMetadata(p)
  BY <1>64 DEF BackMetadata, Fails, Step, trees, journals, locks
<1>65. CASE BackRoot(p)
  BY <1>65 DEF BackRoot, Step, journals, metadata, locks
<1>66. CASE BackJournal(p)
  BY <1>66 DEF BackJournal, trees, metadata
<1>67. CASE BackShim(p)
  BY <1>67 DEF BackShim, Step, trees, journals, locks, counters
<1>68. CASE Back(p)
  BY <1>68 DEF Back, trees, journals, metadata
<1> QED
  BY <1>1, <1>2, <1>3, <1>4, <1>5, <1>6, <1>7, <1>8, <1>9, <1>10, <1>11, <1>12, <1>13,
     <1>14, <1>15, <1>16, <1>17, <1>18, <1>19, <1>20, <1>21, <1>22, <1>23, <1>24, <1>25,
     <1>26, <1>27, <1>28, <1>29, <1>30, <1>31, <1>32, <1>33, <1>34, <1>35, <1>36, <1>37,
     <1>38, <1>39, <1>40, <1>41, <1>42, <1>43, <1>44, <1>45, <1>46, <1>47, <1>48, <1>49,
     <1>50, <1>51, <1>52, <1>53, <1>54, <1>55, <1>56, <1>57, <1>58, <1>59, <1>60, <1>61,
     <1>62, <1>63, <1>64, <1>65, <1>66, <1>67, <1>68 DEF Run, Recovery, Install, Uninstall

-----------------------------------------------------------------------------
(* The inductive invariant *)

\* The steps taken under the global state lock.
Locked == {"undo"} \cup (InstallSteps \ {"version", "check"}) \cup (UninstallSteps \ {"select"})
\* Those of a command that has failed, and those of a rollback.
Failing == {"unplace", "drop", "relock", "relocked", "repin", "repinned", "rollback", "restore",
            "unjournal", "reconcile", "back_lock", "back_pin", "back_root", "back_journal",
            "back_shim"}
Rolling == {"rollback", "restore", "unjournal"}
Backing == {"back_root", "back_journal"}
\* Those only an install that stages a tree takes.
Staged == {"move", "moved", "place", "placed", "unplace", "drop", "validate", "activate",
           "finish", "cleared"} \cup Rolling
\* Those of a publication, whose old metadata is captured; those of an uninstall.
Opened == InstallSteps \ {"version", "recover", "check", "open"}
Removing == UninstallSteps \ {"select", "prepare"}

\* p is an install that holds the mutation lock of its version.
Holds(p) ==
  \/ pc[p] \in InstallSteps \ {"version"}
  \/ pc[p] \in {"state", "undo"} /\ cmd[p].do \in {"recover", "publish"}

\* What the command at each step carries.
Carries(p) ==
  LET c == cmd[p] IN
  /\ pc[p] # "idle" => c.ver \in Version
  /\ pc[p] \in {"version", "recover", "check"} => c.do = "recover"
  /\ pc[p] \in InstallSteps \ ({"version", "recover", "check"} \cup Rolling) => c.do = "publish"
  /\ pc[p] \in Rolling => c.do \in {"publish", "discard"}
  /\ pc[p] = "select" => c.do = "find"
  /\ pc[p] \in UninstallSteps \ ({"select"} \cup Backing) => c.do = "remove"
  /\ pc[p] \in Backing => c.do \in {"remove", "discard"}
  /\ pc[p] = "state" => c.do \in {"recover", "publish", "find", "remove"}
  /\ pc[p] = "undo" => c.do \in {"publish", "find", "remove"}
  /\ c.new \in Tree \cup {"gone"} /\ (c.do = "recover" => c.new = "gone")
  /\ pc[p] \in Staged \/ c.tries # 0 => c.new \in Tree
  /\ pc[p] = "version" \/ (pc[p] = "state" /\ c.do = "recover") => c.aside = "gone"
  /\ pc[p] \notin Rolling \cup {"reconcile"} => c.tries = 0
  /\ pc[p] \in Failing => errors >= 1
  /\ pc[p] = "idle" => c = Idle

\* Who is at a step under the state lock is who holds it; an install holds the
\* mutation lock of its version.
Control(p) ==
  /\ pc[p] \in Locked <=> state = p
  /\ Holds(p) => held[cmd[p].ver] = p
  /\ Carries(p)

\* A tree is away only while a journal says so.
Removals ==
  /\ \A v \in Version : removal[v].phase = "none" => away[v] = "gone"
  /\ \A v \in Version : promotion[v].phase = "none" => ~promotion[v].had

\* Nothing is left of a promotion of v.
Unpublished(v) == promotion[v].phase = "none" /\ backup[v] = "gone"

\* An install that is through with the recovery of its version, and has not yet
\* begun to publish it, finds no promotion of it.
Settling(p) ==
  \/ pc[p] \in {"check", "open"}
  \/ pc[p] \in {"state", "undo"} /\ cmd[p].do = "publish"

\* The steps of a publication, and of what undoes it, before it is activated.
Publishing == {"shim", "pin", "record", "stale", "relock", "relocked", "repin", "repinned"}

\* The trees and the promotion journal at each step of an install.
PromotionSection(p) ==
  LET c == cmd[p]  v == c.ver  had == c.old # "gone" IN
  /\ pc[p] = "recover" /\ c.aside # "gone" =>
       \/ root[v] = "gone" /\ backup[v] # "gone" /\ Early(v) /\ promotion[v].had
       \/ /\ root[v] # "gone" /\ backup[v] = "gone"
          /\ promotion[v].phase = "none" \/ (Early(v) /\ promotion[v].had)
  /\ pc[p] = "move" =>
       /\ promotion[v].phase = "prepared" /\ promotion[v].had
       /\ root[v] = c.old /\ had /\ backup[v] = "gone"
  /\ pc[p] = "moved" =>
       /\ promotion[v].phase = "prepared" /\ promotion[v].had
       /\ root[v] = "gone" /\ had /\ backup[v] = c.old
  /\ pc[p] = "place" =>
       Early(v) /\ (promotion[v].had <=> had) /\ root[v] = "gone" /\ backup[v] = c.old
  /\ pc[p] = "placed" =>
       Early(v) /\ (promotion[v].had <=> had) /\ root[v] = c.new /\ backup[v] = c.old
  /\ pc[p] = "unplace" =>
       /\ promotion[v].phase # "none" /\ (promotion[v].had <=> had)
       /\ root[v] = c.new /\ backup[v] = c.old
  /\ pc[p] = "drop" =>
       /\ promotion[v].phase # "none" => (promotion[v].had <=> had)
       /\ \/ root[v] = c.old /\ backup[v] = "gone"
          \/ root[v] = "gone" /\ backup[v] = c.old /\ promotion[v].phase # "none"
  /\ pc[p] \in {"validate", "activate", "rollback"} \cup
        (IF c.new # "gone" THEN Publishing ELSE {}) =>
       Late(v) /\ root[v] = c.new /\ backup[v] = c.old
  /\ pc[p] \in Publishing /\ c.new = "gone" => Unpublished(v) /\ root[v] = c.old /\ had
  /\ pc[p] \in {"finish", "cleared"} => Late(v) /\ root[v] = c.new
  /\ pc[p] = "restore" => Late(v) /\ root[v] = "gone" /\ backup[v] = c.old /\ had
  /\ pc[p] = "unjournal" => Late(v) /\ root[v] = c.old /\ backup[v] = "gone"
  /\ pc[p] = "reconcile" => Unpublished(v) /\ root[v] = c.old /\ c.tries # 1
  /\ pc[p] \in Rolling => c.tries = 0

\* Config and lock at each step, next to those that were captured.
MetadataSection(p) ==
  LET c == cmd[p]  v == c.ver IN
  /\ pc[p] \in {"move", "moved", "place", "placed", "unplace", "drop", "validate", "shim", "pin",
                "rollback", "restore", "unjournal", "reconcile", "take", "commit", "unpin",
                "back_root", "back_journal", "back_shim"} =>
       config = c.config /\ lock = c.lock
  /\ pc[p] = "record" => config = v /\ lock = c.lock
  /\ pc[p] \in {"stale", "activate", "finish", "cleared"} => config = v /\ lock = v
  /\ pc[p] \in {"relock", "relocked"} => config \in {c.config, v}
  /\ pc[p] \in {"repin", "repinned"} => config \in {c.config, v, None} /\ lock = c.lock
  /\ pc[p] = "unrecord" => config = (IF c.config = v THEN None ELSE c.config) /\ lock = c.lock
  /\ pc[p] \in {"unshim", "clean", "tidy"} =>
       /\ config = (IF c.config = v THEN None ELSE c.config)
       /\ lock = (IF c.lock = v THEN None ELSE c.lock)
  /\ pc[p] = "back_lock" => config \in {c.config, None} /\ lock \in {c.lock, None}
  /\ pc[p] = "back_pin" => config \in {c.config, None} /\ lock = c.lock

\* The trees and the journals of uninstalls at each step.
RemovalSection(p) ==
  LET c == cmd[p]  v == c.ver IN
  /\ pc[p] \in {"open", "prepare", "back_shim"} \cup Opened =>
       \A u \in Version : removal[u].phase = "none"
  /\ pc[p] \in Removing => /\ \A u \in Version \ {v} : removal[u].phase = "none"
                           /\ Passes(c.old)
                           /\ removal[v].phase # "none" =>
                                /\ (removal[v].config <=> c.config = v)
                                /\ (removal[v].lock <=> c.lock = v)
  /\ pc[p] = "take" => removal[v].phase = "moving" /\ root[v] = c.old /\ away[v] = "gone"
  /\ pc[p] = "commit" => removal[v].phase = "moving" /\ root[v] = "gone" /\ away[v] = c.old
  /\ pc[p] \in {"unpin", "unrecord", "unshim", "back_lock", "back_pin"} =>
       removal[v].phase = "committed" /\ root[v] = "gone" /\ away[v] = c.old
  /\ pc[p] \in {"clean", "tidy"} => removal[v].phase = "committed" /\ root[v] = "gone"
  /\ pc[p] = "tidy" => away[v] = "gone"
  /\ pc[p] = "back_root" =>
       \/ root[v] = c.old /\ away[v] = "gone" /\ removal[v].phase # "committed"
       \/ root[v] = "gone" /\ away[v] = c.old /\ removal[v].phase # "none"
  /\ pc[p] \in {"back_journal", "back_shim"} => root[v] = c.old /\ away[v] = "gone"

\* After at most one error, what a command finds at the step it is at.
Found(p) == PromotionSection(p) /\ MetadataSection(p) /\ RemovalSection(p)
Sectioned ==
  errors <= 1 =>
    /\ Removals
    /\ \A p \in Process : (Settling(p) => Unpublished(cmd[p].ver)) /\ Found(p)

-----------------------------------------------------------------------------
(* A step leaves the other processes alone, and outside the state lock the files *)

\* The steps of p are its own.
LEMMA Alone ==
  ASSUME pc \in [Process -> PcType], cmd \in [Process -> CmdType],
         NEW p \in Process, Start(p) \/ Kill(p) \/ Run(p)
  PROVE  \A q \in Process \ {p} : pc'[q] = pc[q] /\ cmd'[q] = cmd[q]
<1>1. CASE UndoRoot(p) \/ UndoShim(p) \/ CompleteConfig(p) \/ CompleteLock(p)
           \/ CompleteShim(p) \/ CompleteRoot(p) \/ UndoJournal(p)
  BY <1>1
    DEF UndoRoot, UndoShim, CompleteConfig, CompleteLock, CompleteShim, CompleteRoot,
      UndoJournal, trees, journals, metadata, locks, counters
<1>2. CASE Start(p)
  <2>1. \A q \in Process \ {p} : pc'[q] = pc[q]
    BY <1>2 DEF Start, Step, Fails
  <2>2. \A q \in Process \ {p} : cmd'[q] = cmd[q]
    BY <1>2, Carrying
  <2> QED
    BY <2>1, <2>2
<1>3. CASE TakeVersion(p)
  BY <1>3, Discarding DEF TakeVersion, Step, trees, journals, metadata, counters
<1>4. CASE TakeState(p)
  BY <1>4, Discarding DEF TakeState, Step, trees, journals, metadata, counters
<1>5. CASE Kill(p)
  BY <1>5, Discarding DEF Kill, Leave, trees, journals, metadata
<1>6. CASE RecoverAside(p)
  <2>1. \A q \in Process \ {p} : pc'[q] = pc[q]
    BY <1>6 DEF RecoverAside, Step, Fails
  <2>2. \A q \in Process \ {p} : cmd'[q] = cmd[q]
    BY <1>6, Carrying
  <2> QED
    BY <2>1, <2>2
<1>7. CASE RecoverBackup(p)
  BY <1>7, Discarding DEF RecoverBackup, Step, journals, metadata, locks, counters
<1>8. CASE RecoverClear(p)
  BY <1>8, Discarding DEF RecoverClear, Step, journals, metadata, locks, counters
<1>9. CASE RecoverDebris(p)
  BY <1>9, Discarding DEF RecoverDebris, Step, journals, metadata, locks, counters
<1>10. CASE RecoverJournal(p)
  BY <1>10, Discarding DEF RecoverJournal, Step, trees, metadata, locks, counters
<1>11. CASE Recovered(p)
  BY <1>11, Discarding DEF Recovered, Step, trees, journals, metadata, counters
<1>12. CASE RecoverFails(p)
  BY <1>12, Discarding DEF RecoverFails, FailsAndLeaves, Leave, journals, metadata
<1>13. CASE Refuse(p)
  BY <1>13, Discarding DEF Refuse, Leave, trees, journals, metadata, counters
<1>14. CASE UndoRefuses(p)
  BY <1>14, Discarding DEF UndoRefuses, Leave, trees, journals, metadata, counters
<1>15. CASE UndoFails(p)
  BY <1>15, Discarding DEF UndoFails, FailsAndLeaves, Leave, trees, journals, metadata
<1>16. CASE Undone(p)
  BY <1>16, Discarding DEF Undone, Step, trees, journals, metadata, counters
<1>17. CASE Reuse(p)
  <2>1. \A q \in Process \ {p} : pc'[q] = pc[q]
    BY <1>17 DEF Reuse, Step, Fails
  <2>2. \A q \in Process \ {p} : cmd'[q] = cmd[q]
    BY <1>17, Carrying
  <2> QED
    BY <2>1, <2>2
<1>18. CASE Stage(p)
  <2>1. \A q \in Process \ {p} : pc'[q] = pc[q]
    BY <1>18 DEF Stage, Step, Fails
  <2>2. \A q \in Process \ {p} : cmd'[q] = cmd[q]
    BY <1>18, Carrying
  <2> QED
    BY <2>1, <2>2
<1>19. CASE StageFails(p)
  BY <1>19, Discarding DEF StageFails, FailsAndLeaves, Leave, trees, journals, metadata
<1>20. CASE ReuseIsGone(p)
  BY <1>20, Discarding DEF ReuseIsGone, Leave, trees, journals, metadata, counters
<1>21. CASE Open(p)
  <2>1. \A q \in Process \ {p} : pc'[q] = pc[q]
    BY <1>21 DEF Open, Step, Fails
  <2>2. \A q \in Process \ {p} : cmd'[q] = cmd[q]
    BY <1>21, Carrying
  <2> QED
    BY <2>1, <2>2
<1>22. CASE MoveOld(p)
  BY <1>22, Discarding DEF MoveOld, Fails, Step, journals, metadata, locks
<1>23. CASE OldMoved(p)
  BY <1>23, Discarding DEF OldMoved, Fails, Step, trees, metadata, locks
<1>24. CASE PlaceNew(p)
  BY <1>24, Discarding DEF PlaceNew, Fails, Step, journals, metadata, locks
<1>25. CASE NewPromoted(p)
  BY <1>25, Discarding DEF NewPromoted, Fails, Step, trees, metadata, locks
<1>26. CASE Unplace(p)
  BY <1>26, Discarding DEF Unplace, Fails, Step, journals, metadata, locks
<1>27. CASE DropBackup(p)
  BY <1>27, Discarding DEF DropBackup, FailsAndLeaves, Leave, journals, metadata, locks
<1>28. CASE DropJournal(p)
  BY <1>28, Discarding DEF DropJournal, FailsAndLeaves, Leave, trees, metadata
<1>29. CASE Validate(p)
  BY <1>29, Discarding DEF Validate, Fails, Step, trees, journals, metadata, locks
<1>30. CASE GenerateShim(p)
  BY <1>30, Discarding DEF GenerateShim, Step, trees, journals, locks, counters
<1>31. CASE Generated(p)
  BY <1>31, Discarding DEF Generated, Step, trees, journals, metadata, locks, counters
<1>32. CASE PersistConfig(p)
  BY <1>32, Discarding DEF PersistConfig, Fails, Step, trees, journals, locks
<1>33. CASE PersistLock(p)
  BY <1>33, Discarding DEF PersistLock, Fails, Step, trees, journals, locks
<1>34. CASE RemoveStale(p)
  BY <1>34, Discarding DEF RemoveStale, Step, trees, journals, locks, counters
<1>35. CASE Published(p)
  BY <1>35, Discarding DEF Published, Step, Leave, trees, journals, metadata, locks, counters
<1>36. CASE ShimFails(p)
  BY <1>36, Discarding DEF ShimFails, Fails, Step, trees, journals, metadata, locks
<1>37. CASE Activate(p)
  BY <1>37, Discarding DEF Activate, Fails, Step, trees, metadata, locks
<1>38. CASE Finish(p)
  BY <1>38, Discarding DEF Finish, Fails, Step, journals, metadata, locks
<1>39. CASE Cleared(p)
  BY <1>39, Discarding DEF Cleared, FailsAndLeaves, Leave, trees, metadata
<1>40. CASE Relock(p)
  BY <1>40, Discarding DEF Relock, Fails, Step, trees, journals, locks
<1>41. CASE Repin(p)
  BY <1>41, Discarding DEF Repin, Fails, Step, trees, journals, locks
<1>42. CASE Rollback(p)
  <2>1. \/ \A q \in Process \ {p} : pc'[q] = pc[q] /\ cmd'[q] = cmd[q]
        \/ RollbackEnds(p, TRUE) \/ RollbackEnds(p, FALSE)
    BY <1>42 DEF Rollback, Step
  <2>2. Leave(p) => \A q \in Process \ {p} : pc'[q] = pc[q] /\ cmd'[q] = cmd[q]
    BY DEF Leave
  <2>3. ASSUME NEW done, RollbackEnds(p, done)
        PROVE  \A q \in Process \ {p} : pc'[q] = pc[q] /\ cmd'[q] = cmd[q]
    <3>1. CASE Leave(p)
      BY <2>2, <3>1
    <3>2. CASE ~Leave(p)
      <4>1. \A q \in Process \ {p} : pc'[q] = pc[q]
        BY <2>3, <3>2 DEF RollbackEnds
      <4>2. \A q \in Process \ {p} : cmd'[q] = cmd[q]
        BY <2>3, <3>2 DEF RollbackEnds, With
      <4> QED
        BY <4>1, <4>2
    <3> QED
      BY <3>1, <3>2
  <2> QED
    BY <2>1, <2>3
<1>43. CASE Restore(p)
  <2>1. \/ \A q \in Process \ {p} : pc'[q] = pc[q] /\ cmd'[q] = cmd[q]
        \/ RollbackEnds(p, TRUE) \/ RollbackEnds(p, FALSE)
    BY <1>43 DEF Restore, Step
  <2>2. Leave(p) => \A q \in Process \ {p} : pc'[q] = pc[q] /\ cmd'[q] = cmd[q]
    BY DEF Leave
  <2>3. ASSUME NEW done, RollbackEnds(p, done)
        PROVE  \A q \in Process \ {p} : pc'[q] = pc[q] /\ cmd'[q] = cmd[q]
    <3>1. CASE Leave(p)
      BY <2>2, <3>1
    <3>2. CASE ~Leave(p)
      <4>1. \A q \in Process \ {p} : pc'[q] = pc[q]
        BY <2>3, <3>2 DEF RollbackEnds
      <4>2. \A q \in Process \ {p} : cmd'[q] = cmd[q]
        BY <2>3, <3>2 DEF RollbackEnds, With
      <4> QED
        BY <4>1, <4>2
    <3> QED
      BY <3>1, <3>2
  <2> QED
    BY <2>1, <2>3
<1>44. CASE Unjournal(p)
  <2>1. \/ \A q \in Process \ {p} : pc'[q] = pc[q] /\ cmd'[q] = cmd[q]
        \/ RollbackEnds(p, TRUE) \/ RollbackEnds(p, FALSE)
    BY <1>44 DEF Unjournal, Step
  <2>2. Leave(p) => \A q \in Process \ {p} : pc'[q] = pc[q] /\ cmd'[q] = cmd[q]
    BY DEF Leave
  <2>3. ASSUME NEW done, RollbackEnds(p, done)
        PROVE  \A q \in Process \ {p} : pc'[q] = pc[q] /\ cmd'[q] = cmd[q]
    <3>1. CASE Leave(p)
      BY <2>2, <3>1
    <3>2. CASE ~Leave(p)
      <4>1. \A q \in Process \ {p} : pc'[q] = pc[q]
        BY <2>3, <3>2 DEF RollbackEnds
      <4>2. \A q \in Process \ {p} : cmd'[q] = cmd[q]
        BY <2>3, <3>2 DEF RollbackEnds, With
      <4> QED
        BY <4>1, <4>2
    <3> QED
      BY <3>1, <3>2
  <2> QED
    BY <2>1, <2>3
<1>45. CASE Reconcile(p)
  BY <1>45, Discarding DEF Reconcile, Step, trees, journals, locks, counters
<1>46. CASE Reconciled(p)
  BY <1>46, Discarding DEF Reconciled, Step, Leave, trees, journals, metadata, locks
<1>47. CASE Select(p)
  BY <1>47, Discarding DEF Select, Step, Leave, trees, journals, metadata, locks, counters
<1>48. CASE NotInstalled(p)
  BY <1>48, Discarding DEF NotInstalled, Leave, trees, journals, metadata, counters
<1>49. CASE Prepare(p)
  <2>1. \A q \in Process \ {p} : pc'[q] = pc[q]
    BY <1>49 DEF Prepare, Step, Fails
  <2>2. \A q \in Process \ {p} : cmd'[q] = cmd[q]
    BY <1>49, Carrying
  <2> QED
    BY <2>1, <2>2
<1>50. CASE Take(p)
  BY <1>50, Discarding DEF Take, Fails, Step, journals, metadata, locks
<1>51. CASE Commit(p)
  BY <1>51, Discarding DEF Commit, Fails, Step, trees, metadata, locks
<1>52. CASE RemoveConfig(p)
  BY <1>52, Discarding DEF RemoveConfig, Fails, Step, trees, journals, locks
<1>53. CASE RemoveLock(p)
  BY <1>53, Discarding DEF RemoveLock, Fails, Step, trees, journals, locks
<1>54. CASE RemoveShim(p)
  BY <1>54, Discarding DEF RemoveShim, Step, trees, journals, locks, counters
<1>55. CASE ShimsRemoved(p)
  BY <1>55, Discarding DEF ShimsRemoved, Fails, Step, trees, journals, metadata, locks
<1>56. CASE Clean(p)
  BY <1>56, Discarding DEF Clean, FailsAndLeaves, Step, Leave, journals, metadata, locks
<1>57. CASE Tidy(p)
  BY <1>57, Discarding DEF Tidy, FailsAndLeaves, Leave, trees, metadata
<1>58. CASE BackMetadata(p)
  BY <1>58, Discarding DEF BackMetadata, Fails, Step, trees, journals, locks
<1>59. CASE BackRoot(p)
  BY <1>59, Discarding DEF BackRoot, RootsBack, Step, Leave, journals, metadata, locks
<1>60. CASE BackJournal(p)
  BY <1>60, Discarding DEF BackJournal, RootsBack, Leave, trees, metadata, locks
<1>61. CASE BackShim(p)
  BY <1>61, Discarding DEF BackShim, Step, trees, journals, locks, counters
<1>62. CASE Back(p)
  BY <1>62, Discarding DEF Back, Leave, trees, journals, metadata
<1> QED
  BY <1>1, <1>2, <1>3, <1>4, <1>5, <1>6, <1>7, <1>8, <1>9, <1>10, <1>11, <1>12, <1>13,
     <1>14, <1>15, <1>16, <1>17, <1>18, <1>19, <1>20, <1>21, <1>22, <1>23, <1>24, <1>25,
     <1>26, <1>27, <1>28, <1>29, <1>30, <1>31, <1>32, <1>33, <1>34, <1>35, <1>36, <1>37,
     <1>38, <1>39, <1>40, <1>41, <1>42, <1>43, <1>44, <1>45, <1>46, <1>47, <1>48, <1>49,
     <1>50, <1>51, <1>52, <1>53, <1>54, <1>55, <1>56, <1>57, <1>58, <1>59, <1>60, <1>61,
     <1>62 DEF Run, Recovery, Install, Uninstall

\* A lock goes from nobody to p or from p to nobody.
LEMMA LocksMove ==
  ASSUME held \in [Version -> Process \cup {None}],
         NEW p \in Process,
         pc[p] \in {"recover", "undo"} => state = p, Start(p) \/ Kill(p) \/ Run(p)
  PROVE  /\ state' = state \/ (state = None /\ state' = p) \/ (state = p /\ state' = None)
         /\ \A v \in Version : held'[v] = held[v] \/ held[v] \in {None, p}
<1>1. CASE Start(p) \/ RecoverAside(p) \/ RecoverBackup(p) \/ RecoverClear(p)
           \/ RecoverDebris(p) \/ RecoverJournal(p) \/ UndoRoot(p)
  BY <1>1
    DEF Start, RecoverAside, RecoverBackup, RecoverClear, RecoverDebris, RecoverJournal,
      UndoRoot, Step, trees, journals, metadata, locks, counters
<1>2. CASE UndoShim(p) \/ CompleteConfig(p) \/ CompleteLock(p) \/ CompleteShim(p)
           \/ CompleteRoot(p) \/ UndoJournal(p) \/ Reuse(p)
  BY <1>2
    DEF UndoShim, CompleteConfig, CompleteLock, CompleteShim, CompleteRoot, UndoJournal,
      Reuse, Step, trees, journals, metadata, locks, counters
<1>3. CASE Stage(p) \/ Open(p) \/ MoveOld(p) \/ OldMoved(p) \/ PlaceNew(p)
           \/ NewPromoted(p) \/ Unplace(p)
  BY <1>3
    DEF Stage, Open, MoveOld, OldMoved, PlaceNew, NewPromoted, Unplace, Step, Fails, trees,
      journals, metadata, locks, counters
<1>4. CASE Validate(p) \/ GenerateShim(p) \/ Generated(p) \/ PersistConfig(p)
           \/ PersistLock(p) \/ RemoveStale(p) \/ ShimFails(p)
  BY <1>4
    DEF Validate, GenerateShim, Generated, PersistConfig, PersistLock, RemoveStale,
      ShimFails, Fails, Step, trees, journals, metadata, locks, counters
<1>5. CASE Activate(p) \/ Finish(p) \/ Relock(p) \/ Repin(p) \/ Reconcile(p)
           \/ Prepare(p) \/ Take(p)
  BY <1>5
    DEF Activate, Finish, Relock, Repin, Reconcile, Prepare, Take, Fails, Step, trees,
      journals, metadata, locks, counters
<1>6. CASE Commit(p) \/ RemoveConfig(p) \/ RemoveLock(p) \/ RemoveShim(p)
           \/ ShimsRemoved(p) \/ BackMetadata(p) \/ BackShim(p)
  BY <1>6
    DEF Commit, RemoveConfig, RemoveLock, RemoveShim, ShimsRemoved, BackMetadata, BackShim,
      Fails, Step, trees, journals, metadata, locks, counters
<1>7. CASE TakeVersion(p)
  BY <1>7 DEF TakeVersion, Step, trees, journals, metadata, counters
<1>8. CASE TakeState(p)
  BY <1>8 DEF TakeState, Step, trees, journals, metadata, counters
<1>9. CASE Kill(p)
  BY <1>9 DEF Kill, Leave, trees, journals, metadata
<1>10. CASE Recovered(p)
  BY <1>10 DEF Recovered, Step, trees, journals, metadata, counters
<1>11. CASE RecoverFails(p)
  BY <1>11 DEF RecoverFails, FailsAndLeaves, Leave, journals, metadata
<1>12. CASE Refuse(p)
  BY <1>12 DEF Refuse, Leave, trees, journals, metadata, counters
<1>13. CASE UndoRefuses(p)
  BY <1>13 DEF UndoRefuses, Leave, trees, journals, metadata, counters
<1>14. CASE UndoFails(p)
  BY <1>14 DEF UndoFails, FailsAndLeaves, Leave, trees, journals, metadata
<1>15. CASE Undone(p)
  BY <1>15 DEF Undone, Step, trees, journals, metadata, counters
<1>16. CASE StageFails(p)
  BY <1>16 DEF StageFails, FailsAndLeaves, Leave, trees, journals, metadata
<1>17. CASE ReuseIsGone(p)
  BY <1>17 DEF ReuseIsGone, Leave, trees, journals, metadata, counters
<1>18. CASE DropBackup(p)
  BY <1>18 DEF DropBackup, FailsAndLeaves, Leave, journals, metadata, locks
<1>19. CASE DropJournal(p)
  BY <1>19 DEF DropJournal, FailsAndLeaves, Leave, trees, metadata
<1>20. CASE Published(p)
  BY <1>20 DEF Published, Step, Leave, trees, journals, metadata, locks, counters
<1>21. CASE Cleared(p)
  BY <1>21 DEF Cleared, FailsAndLeaves, Leave, trees, metadata
<1>22. CASE Rollback(p)
  BY <1>22 DEF Rollback, RollbackEnds, Step, Leave, journals, metadata, locks
<1>23. CASE Restore(p)
  BY <1>23 DEF Restore, RollbackEnds, Step, Leave, journals, metadata, locks
<1>24. CASE Unjournal(p)
  BY <1>24 DEF Unjournal, RollbackEnds, Leave, trees, metadata, locks
<1>25. CASE Reconciled(p)
  BY <1>25 DEF Reconciled, Step, Leave, trees, journals, metadata, locks
<1>26. CASE Select(p)
  BY <1>26 DEF Select, Step, Leave, trees, journals, metadata, locks, counters
<1>27. CASE NotInstalled(p)
  BY <1>27 DEF NotInstalled, Leave, trees, journals, metadata, counters
<1>28. CASE Clean(p)
  BY <1>28 DEF Clean, FailsAndLeaves, Step, Leave, journals, metadata, locks
<1>29. CASE Tidy(p)
  BY <1>29 DEF Tidy, FailsAndLeaves, Leave, trees, metadata
<1>30. CASE BackRoot(p)
  BY <1>30 DEF BackRoot, RootsBack, Step, Leave, journals, metadata, locks
<1>31. CASE BackJournal(p)
  BY <1>31 DEF BackJournal, RootsBack, Leave, trees, metadata, locks
<1>32. CASE Back(p)
  BY <1>32 DEF Back, Leave, trees, journals, metadata
<1> QED
  BY <1>1, <1>2, <1>3, <1>4, <1>5, <1>6, <1>7, <1>8, <1>9, <1>10, <1>11, <1>12, <1>13,
     <1>14, <1>15, <1>16, <1>17, <1>18, <1>19, <1>20, <1>21, <1>22, <1>23, <1>24, <1>25,
     <1>26, <1>27, <1>28, <1>29, <1>30, <1>31, <1>32 DEF Run, Recovery, Install, Uninstall

\* The steps under the state lock.
LEMMA StepsLocked ==
  {"undo", "recover", "open", "move", "moved", "place", "placed", "unplace", "drop", "validate",
   "shim", "pin", "record", "stale", "activate", "finish", "cleared", "relock", "relocked",
   "repin", "repinned", "rollback", "restore", "unjournal", "reconcile", "prepare", "take",
   "commit", "unpin", "unrecord", "unshim", "clean", "tidy", "back_lock", "back_pin",
   "back_root", "back_journal", "back_shim"} \subseteq Locked
  BY DEF Locked, InstallSteps, UninstallSteps

\* Outside the state lock no file changes.
LEMMA Outside ==
  ASSUME pc \in [Process -> PcType], NEW p \in Process, Start(p) \/ Kill(p) \/ Run(p)
  PROVE  pc[p] \in Locked
         \/ /\ root' = root /\ backup' = backup /\ away' = away
            /\ promotion' = promotion /\ removal' = removal
            /\ config' = config /\ lock' = lock /\ shims' = shims
            /\ promised' = promised
<1>1. CASE Start(p) \/ TakeVersion(p) \/ TakeState(p) \/ Kill(p) \/ Recovered(p)
           \/ Refuse(p) \/ UndoRefuses(p)
  BY <1>1
    DEF Start, TakeVersion, TakeState, Kill, Recovered, Refuse, UndoRefuses, Step, trees,
      journals, metadata, locks, counters
<1>2. CASE UndoFails(p) \/ Undone(p) \/ Reuse(p) \/ Stage(p) \/ StageFails(p)
           \/ ReuseIsGone(p) \/ Validate(p)
  BY <1>2
    DEF UndoFails, Undone, Reuse, Stage, StageFails, ReuseIsGone, Validate, Step, Fails,
      trees, journals, metadata, locks, counters
<1>3. CASE Generated(p) \/ ShimFails(p) \/ Reconciled(p) \/ Select(p) \/ NotInstalled(p)
           \/ ShimsRemoved(p) \/ Back(p)
  BY <1>3
    DEF Generated, ShimFails, Reconciled, Select, NotInstalled, ShimsRemoved, Back, Step,
      Fails, trees, journals, metadata, locks, counters
<1>4. CASE RecoverAside(p)
  BY <1>4, StepsLocked DEF RecoverAside, Step, journals, metadata, locks, counters
<1>5. CASE RecoverBackup(p)
  BY <1>5, StepsLocked DEF RecoverBackup, Step, journals, metadata, locks, counters
<1>6. CASE RecoverClear(p)
  BY <1>6, StepsLocked DEF RecoverClear, Step, journals, metadata, locks, counters
<1>7. CASE RecoverDebris(p)
  BY <1>7, StepsLocked DEF RecoverDebris, Step, journals, metadata, locks, counters
<1>8. CASE RecoverJournal(p)
  BY <1>8, StepsLocked DEF RecoverJournal, Step, trees, metadata, locks, counters
<1>9. CASE RecoverFails(p)
  BY <1>9, StepsLocked DEF RecoverFails, FailsAndLeaves, journals, metadata
<1>10. CASE UndoRoot(p)
  BY <1>10, StepsLocked DEF UndoRoot, Undoing, journals, metadata, locks, counters
<1>11. CASE UndoShim(p)
  BY <1>11, StepsLocked DEF UndoShim, Undoing, trees, journals, locks, counters
<1>12. CASE CompleteConfig(p)
  BY <1>12, StepsLocked DEF CompleteConfig, Completing, trees, journals, locks, counters
<1>13. CASE CompleteLock(p)
  BY <1>13, StepsLocked DEF CompleteLock, Completing, trees, journals, locks, counters
<1>14. CASE CompleteShim(p)
  BY <1>14, StepsLocked DEF CompleteShim, Completing, trees, journals, locks, counters
<1>15. CASE CompleteRoot(p)
  BY <1>15, StepsLocked DEF CompleteRoot, Completing, journals, metadata, locks, counters
<1>16. CASE UndoJournal(p)
  BY <1>16, StepsLocked
    DEF UndoJournal, Undoing, Completing, trees, metadata, locks, counters
<1>17. CASE Open(p)
  BY <1>17, StepsLocked DEF Open, Fails, Step, trees, metadata, locks
<1>18. CASE MoveOld(p)
  BY <1>18, StepsLocked DEF MoveOld, Fails, Step, journals, metadata, locks
<1>19. CASE OldMoved(p)
  BY <1>19, StepsLocked DEF OldMoved, Fails, Step, trees, metadata, locks
<1>20. CASE PlaceNew(p)
  BY <1>20, StepsLocked DEF PlaceNew, Fails, Step, journals, metadata, locks
<1>21. CASE NewPromoted(p)
  BY <1>21, StepsLocked DEF NewPromoted, Fails, Step, trees, metadata, locks
<1>22. CASE Unplace(p)
  BY <1>22, StepsLocked DEF Unplace, Fails, Step, journals, metadata, locks
<1>23. CASE DropBackup(p)
  BY <1>23, StepsLocked DEF DropBackup, FailsAndLeaves, journals, metadata, locks
<1>24. CASE DropJournal(p)
  BY <1>24, StepsLocked DEF DropJournal, FailsAndLeaves, trees, metadata
<1>25. CASE GenerateShim(p)
  BY <1>25, StepsLocked DEF GenerateShim, Step, trees, journals, locks, counters
<1>26. CASE PersistConfig(p)
  BY <1>26, StepsLocked DEF PersistConfig, Fails, Step, trees, journals, locks
<1>27. CASE PersistLock(p)
  BY <1>27, StepsLocked DEF PersistLock, Fails, Step, trees, journals, locks
<1>28. CASE RemoveStale(p)
  BY <1>28, StepsLocked DEF RemoveStale, Step, trees, journals, locks, counters
<1>29. CASE Published(p)
  BY <1>29, StepsLocked DEF Published, Step, trees, journals, metadata, locks, counters
<1>30. CASE Activate(p)
  BY <1>30, StepsLocked DEF Activate, Fails, Step, trees, metadata, locks
<1>31. CASE Finish(p)
  BY <1>31, StepsLocked DEF Finish, Fails, Step, journals, metadata, locks
<1>32. CASE Cleared(p)
  BY <1>32, StepsLocked DEF Cleared, FailsAndLeaves, trees, metadata
<1>33. CASE Relock(p)
  BY <1>33, StepsLocked DEF Relock, Fails, Step, trees, journals, locks
<1>34. CASE Repin(p)
  BY <1>34, StepsLocked DEF Repin, Fails, Step, trees, journals, locks
<1>35. CASE Rollback(p)
  BY <1>35, StepsLocked DEF Rollback, Step, journals, metadata, locks
<1>36. CASE Restore(p)
  BY <1>36, StepsLocked DEF Restore, Step, journals, metadata, locks
<1>37. CASE Unjournal(p)
  BY <1>37, StepsLocked DEF Unjournal, trees, metadata
<1>38. CASE Reconcile(p)
  BY <1>38, StepsLocked DEF Reconcile, Step, trees, journals, locks, counters
<1>39. CASE Prepare(p)
  BY <1>39, StepsLocked DEF Prepare, Fails, Step, trees, metadata, locks
<1>40. CASE Take(p)
  BY <1>40, StepsLocked DEF Take, Fails, Step, journals, metadata, locks
<1>41. CASE Commit(p)
  BY <1>41, StepsLocked DEF Commit, Fails, Step, trees, metadata, locks
<1>42. CASE RemoveConfig(p)
  BY <1>42, StepsLocked DEF RemoveConfig, Fails, Step, trees, journals, locks
<1>43. CASE RemoveLock(p)
  BY <1>43, StepsLocked DEF RemoveLock, Fails, Step, trees, journals, locks
<1>44. CASE RemoveShim(p)
  BY <1>44, StepsLocked DEF RemoveShim, Step, trees, journals, locks, counters
<1>45. CASE Clean(p)
  BY <1>45, StepsLocked DEF Clean, FailsAndLeaves, Step, journals, metadata, locks
<1>46. CASE Tidy(p)
  BY <1>46, StepsLocked DEF Tidy, FailsAndLeaves, trees, metadata
<1>47. CASE BackMetadata(p)
  BY <1>47, StepsLocked DEF BackMetadata, Fails, Step, trees, journals, locks
<1>48. CASE BackRoot(p)
  BY <1>48, StepsLocked DEF BackRoot, Step, journals, metadata, locks
<1>49. CASE BackJournal(p)
  BY <1>49, StepsLocked DEF BackJournal, trees, metadata
<1>50. CASE BackShim(p)
  BY <1>50, StepsLocked DEF BackShim, Step, trees, journals, locks, counters
<1> QED
  BY <1>1, <1>2, <1>3, <1>4, <1>5, <1>6, <1>7, <1>8, <1>9, <1>10, <1>11, <1>12, <1>13,
     <1>14, <1>15, <1>16, <1>17, <1>18, <1>19, <1>20, <1>21, <1>22, <1>23, <1>24, <1>25,
     <1>26, <1>27, <1>28, <1>29, <1>30, <1>31, <1>32, <1>33, <1>34, <1>35, <1>36, <1>37,
     <1>38, <1>39, <1>40, <1>41, <1>42, <1>43, <1>44, <1>45, <1>46, <1>47, <1>48, <1>49,
     <1>50 DEF Run, Recovery, Install, Uninstall

\* Errors are counted one by one.
LEMMA ErrorsGrow ==
  ASSUME errors \in Nat, NEW p \in Process, Start(p) \/ Kill(p) \/ Run(p)
  PROVE  errors' = errors \/ errors' = errors + 1
<1>1. CASE Start(p) \/ TakeVersion(p) \/ TakeState(p) \/ Kill(p) \/ RecoverAside(p)
           \/ RecoverBackup(p) \/ RecoverClear(p) \/ RecoverDebris(p)
           \/ RecoverJournal(p)
  BY <1>1
    DEF Start, TakeVersion, TakeState, Kill, RecoverAside, RecoverBackup, RecoverClear,
      RecoverDebris, RecoverJournal, Step, trees, journals, metadata, locks, counters
<1>2. CASE Recovered(p) \/ Refuse(p) \/ UndoRoot(p) \/ UndoShim(p) \/ CompleteConfig(p)
           \/ CompleteLock(p) \/ CompleteShim(p) \/ CompleteRoot(p) \/ UndoJournal(p)
  BY <1>2
    DEF Recovered, Refuse, UndoRoot, UndoShim, CompleteConfig, CompleteLock, CompleteShim,
      CompleteRoot, UndoJournal, Step, trees, journals, metadata, locks, counters
<1>3. CASE UndoRefuses(p) \/ Undone(p) \/ Reuse(p) \/ Stage(p) \/ ReuseIsGone(p)
           \/ GenerateShim(p) \/ Generated(p) \/ RemoveStale(p) \/ Published(p)
  BY <1>3
    DEF UndoRefuses, Undone, Reuse, Stage, ReuseIsGone, GenerateShim, Generated,
      RemoveStale, Published, Step, trees, journals, metadata, locks, counters
<1>4. CASE Reconcile(p) \/ Select(p) \/ NotInstalled(p) \/ RemoveShim(p) \/ BackShim(p)
  BY <1>4
    DEF Reconcile, Select, NotInstalled, RemoveShim, BackShim, Step, trees, journals,
      metadata, locks, counters
<1>5. CASE RecoverFails(p)
  BY <1>5 DEF RecoverFails, FailsAndLeaves, journals, metadata
<1>6. CASE UndoFails(p)
  BY <1>6 DEF UndoFails, FailsAndLeaves, trees, journals, metadata
<1>7. CASE StageFails(p)
  BY <1>7 DEF StageFails, FailsAndLeaves, trees, journals, metadata
<1>8. CASE Open(p)
  BY <1>8 DEF Open, Fails, trees, metadata, locks
<1>9. CASE MoveOld(p)
  BY <1>9 DEF MoveOld, Fails, journals, metadata, locks
<1>10. CASE OldMoved(p)
  BY <1>10 DEF OldMoved, Fails, trees, metadata, locks
<1>11. CASE PlaceNew(p)
  BY <1>11 DEF PlaceNew, Fails, journals, metadata, locks
<1>12. CASE NewPromoted(p)
  BY <1>12 DEF NewPromoted, Fails, trees, metadata, locks
<1>13. CASE Unplace(p)
  BY <1>13 DEF Unplace, Fails, journals, metadata, locks
<1>14. CASE DropBackup(p)
  BY <1>14 DEF DropBackup, FailsAndLeaves, journals, metadata, locks
<1>15. CASE DropJournal(p)
  BY <1>15 DEF DropJournal, FailsAndLeaves, trees, metadata
<1>16. CASE Validate(p)
  BY <1>16 DEF Validate, Fails, trees, journals, metadata, locks
<1>17. CASE PersistConfig(p)
  BY <1>17 DEF PersistConfig, Fails, trees, journals, locks
<1>18. CASE PersistLock(p)
  BY <1>18 DEF PersistLock, Fails, trees, journals, locks
<1>19. CASE ShimFails(p)
  BY <1>19 DEF ShimFails, Fails, trees, journals, metadata, locks
<1>20. CASE Activate(p)
  BY <1>20 DEF Activate, Fails, trees, metadata, locks
<1>21. CASE Finish(p)
  BY <1>21 DEF Finish, Fails, journals, metadata, locks
<1>22. CASE Cleared(p)
  BY <1>22 DEF Cleared, FailsAndLeaves, trees, metadata
<1>23. CASE Relock(p)
  BY <1>23 DEF Relock, Fails, trees, journals, locks
<1>24. CASE Repin(p)
  BY <1>24 DEF Repin, Fails, trees, journals, locks
<1>25. CASE Rollback(p)
  BY <1>25 DEF Rollback, journals, metadata, locks
<1>26. CASE Restore(p)
  BY <1>26 DEF Restore, journals, metadata, locks
<1>27. CASE Unjournal(p)
  BY <1>27 DEF Unjournal, trees, metadata
<1>28. CASE Reconciled(p)
  BY <1>28 DEF Reconciled, trees, journals, metadata, locks
<1>29. CASE Prepare(p)
  BY <1>29 DEF Prepare, Fails, trees, metadata, locks
<1>30. CASE Take(p)
  BY <1>30 DEF Take, Fails, journals, metadata, locks
<1>31. CASE Commit(p)
  BY <1>31 DEF Commit, Fails, trees, metadata, locks
<1>32. CASE RemoveConfig(p)
  BY <1>32 DEF RemoveConfig, Fails, trees, journals, locks
<1>33. CASE RemoveLock(p)
  BY <1>33 DEF RemoveLock, Fails, trees, journals, locks
<1>34. CASE ShimsRemoved(p)
  BY <1>34 DEF ShimsRemoved, Fails, trees, journals, metadata, locks
<1>35. CASE Clean(p)
  BY <1>35 DEF Clean, FailsAndLeaves, journals, metadata, locks
<1>36. CASE Tidy(p)
  BY <1>36 DEF Tidy, FailsAndLeaves, trees, metadata
<1>37. CASE BackMetadata(p)
  BY <1>37 DEF BackMetadata, Fails, trees, journals, locks
<1>38. CASE BackRoot(p)
  BY <1>38 DEF BackRoot, journals, metadata, locks
<1>39. CASE BackJournal(p)
  BY <1>39 DEF BackJournal, trees, metadata
<1>40. CASE Back(p)
  BY <1>40 DEF Back, trees, journals, metadata
<1> QED
  BY <1>1, <1>2, <1>3, <1>4, <1>5, <1>6, <1>7, <1>8, <1>9, <1>10, <1>11, <1>12, <1>13,
     <1>14, <1>15, <1>16, <1>17, <1>18, <1>19, <1>20, <1>21, <1>22, <1>23, <1>24, <1>25,
     <1>26, <1>27, <1>28, <1>29, <1>30, <1>31, <1>32, <1>33, <1>34, <1>35, <1>36, <1>37,
     <1>38, <1>39, <1>40 DEF Run, Recovery, Install, Uninstall

-----------------------------------------------------------------------------
(* Control: locks, steps and what the commands carry *)

\* What p carries fits the step it takes.
LEMMA CarriesOwn ==
  ASSUME pc \in [Process -> PcType], cmd \in [Process -> CmdType], errors \in Nat,
         NEW p \in Process, Carries(p), Start(p) \/ Kill(p) \/ Run(p)
  PROVE  Carries(p)'
<1>1. CASE Start(p)
  <2>1. PICK c \in Command :
          /\ cmd'[p] = AfterStart(cmd[p], IF c.op = "install" THEN "recover" ELSE "find", c.ver)
          /\ pc'[p] = IF c.op = "install" THEN "version" ELSE "state"
    BY <1>1, Carrying
  <2>2. pc[p] = "idle" /\ c.ver \in Version
    BY <1>1 DEF Start, Step
  <2> QED
    BY <2>1, <2>2
      DEF Carries, InstallSteps, UninstallSteps, Rolling, Staged, Failing, Backing,
          AfterStart, Idle
<1>2. CASE TakeVersion(p)
  BY <1>2
    DEF TakeVersion, Step, trees, journals, metadata, counters, Carries, InstallSteps,
      UninstallSteps, Rolling, Staged, Failing, Backing, Idle
<1>3. CASE TakeState(p)
  BY <1>3
    DEF TakeState, Step, trees, journals, metadata, counters, Carries, InstallSteps,
      UninstallSteps, Rolling, Staged, Failing, Backing, Idle
<1>4. CASE Kill(p)
  BY <1>4
    DEF Kill, Leave, trees, journals, metadata, Carries, InstallSteps, UninstallSteps,
      Rolling, Staged, Failing, Backing, Idle
<1>5. CASE RecoverAside(p)
  BY <1>5, Carrying
    DEF RecoverAside, With, Step, journals, metadata, locks, counters, Carries,
      InstallSteps, UninstallSteps, Rolling, Staged, Failing, Backing, Idle, AfterAside
<1>6. CASE RecoverBackup(p)
  BY <1>6
    DEF RecoverBackup, Step, journals, metadata, locks, counters, Carries, InstallSteps,
      UninstallSteps, Rolling, Staged, Failing, Backing, Idle
<1>7. CASE RecoverClear(p)
  BY <1>7
    DEF RecoverClear, Step, journals, metadata, locks, counters, Carries, InstallSteps,
      UninstallSteps, Rolling, Staged, Failing, Backing, Idle
<1>8. CASE RecoverDebris(p)
  BY <1>8
    DEF RecoverDebris, Step, journals, metadata, locks, counters, Carries, InstallSteps,
      UninstallSteps, Rolling, Staged, Failing, Backing, Idle
<1>9. CASE RecoverJournal(p)
  BY <1>9
    DEF RecoverJournal, Step, trees, metadata, locks, counters, Carries, InstallSteps,
      UninstallSteps, Rolling, Staged, Failing, Backing, Idle
<1>10. CASE Recovered(p)
  BY <1>10
    DEF Recovered, Step, trees, journals, metadata, counters, Carries, InstallSteps,
      UninstallSteps, Rolling, Staged, Failing, Backing, Idle
<1>11. CASE RecoverFails(p)
  BY <1>11
    DEF RecoverFails, FailsAndLeaves, Leave, journals, metadata, Carries, InstallSteps,
      UninstallSteps, Rolling, Staged, Failing, Backing, Idle
<1>12. CASE Refuse(p)
  BY <1>12
    DEF Refuse, Leave, trees, journals, metadata, counters, Carries, InstallSteps,
      UninstallSteps, Rolling, Staged, Failing, Backing, Idle
<1>13. CASE UndoRoot(p)
  BY <1>13
    DEF UndoRoot, journals, metadata, locks, counters, Carries, InstallSteps,
      UninstallSteps, Rolling, Staged, Failing, Backing, Idle
<1>14. CASE UndoShim(p)
  BY <1>14
    DEF UndoShim, trees, journals, locks, counters, Carries, InstallSteps, UninstallSteps,
      Rolling, Staged, Failing, Backing, Idle
<1>15. CASE CompleteConfig(p)
  BY <1>15
    DEF CompleteConfig, trees, journals, locks, counters, Carries, InstallSteps,
      UninstallSteps, Rolling, Staged, Failing, Backing, Idle
<1>16. CASE CompleteLock(p)
  BY <1>16
    DEF CompleteLock, trees, journals, locks, counters, Carries, InstallSteps,
      UninstallSteps, Rolling, Staged, Failing, Backing, Idle
<1>17. CASE CompleteShim(p)
  BY <1>17
    DEF CompleteShim, trees, journals, locks, counters, Carries, InstallSteps,
      UninstallSteps, Rolling, Staged, Failing, Backing, Idle
<1>18. CASE CompleteRoot(p)
  BY <1>18
    DEF CompleteRoot, journals, metadata, locks, counters, Carries, InstallSteps,
      UninstallSteps, Rolling, Staged, Failing, Backing, Idle
<1>19. CASE UndoJournal(p)
  BY <1>19
    DEF UndoJournal, trees, metadata, locks, counters, Carries, InstallSteps,
      UninstallSteps, Rolling, Staged, Failing, Backing, Idle
<1>20. CASE UndoRefuses(p)
  BY <1>20
    DEF UndoRefuses, Leave, trees, journals, metadata, counters, Carries, InstallSteps,
      UninstallSteps, Rolling, Staged, Failing, Backing, Idle
<1>21. CASE UndoFails(p)
  BY <1>21
    DEF UndoFails, FailsAndLeaves, Leave, trees, journals, metadata, Carries, InstallSteps,
      UninstallSteps, Rolling, Staged, Failing, Backing, Idle
<1>22. CASE Undone(p)
  BY <1>22
    DEF Undone, Step, trees, journals, metadata, counters, Carries, InstallSteps,
      UninstallSteps, Rolling, Staged, Failing, Backing, Idle
<1>23. CASE Reuse(p)
  <2>1. cmd'[p] = AfterDo(cmd[p], "publish")
    BY <1>23, Carrying
  <2>2. pc[p] = "check" /\ pc'[p] = "state" /\ errors' = errors
    BY <1>23 DEF Reuse, Step, counters
  <2> QED
    BY <2>1, <2>2
      DEF Carries, InstallSteps, UninstallSteps, Rolling, Staged, Failing, Backing,
          AfterDo
<1>24. CASE Stage(p)
  <2>1. PICK t \in Tree : cmd'[p] = AfterStage(cmd[p], t)
    BY <1>24, Carrying
  <2>2. pc[p] = "check" /\ pc'[p] = "state" /\ errors' = errors
    BY <1>24 DEF Stage, Step, counters
  <2> QED
    BY <2>1, <2>2
      DEF Carries, InstallSteps, UninstallSteps, Rolling, Staged, Failing, Backing,
          AfterStage
<1>25. CASE StageFails(p)
  BY <1>25
    DEF StageFails, FailsAndLeaves, Leave, trees, journals, metadata, Carries,
      InstallSteps, UninstallSteps, Rolling, Staged, Failing, Backing, Idle
<1>26. CASE ReuseIsGone(p)
  BY <1>26
    DEF ReuseIsGone, Leave, trees, journals, metadata, counters, Carries, InstallSteps,
      UninstallSteps, Rolling, Staged, Failing, Backing, Idle
<1>27. CASE Open(p)
  <2>1. cmd'[p] = AfterCapture(cmd[p], cmd[p].do, config, lock, root[cmd[p].ver])
    BY <1>27, Carrying
  <2>2. pc[p] = "open"
        /\ \/ pc'[p] = "shim" /\ errors' = errors
           \/ pc'[p] \in {"move", "place"} /\ cmd[p].new # "gone" /\ errors' = errors
           \/ pc'[p] = "drop" /\ cmd[p].new # "gone" /\ errors' = errors + 1
    BY <1>27 DEF Open, Step, Fails
  <2> QED
    BY <2>1, <2>2
      DEF Carries, InstallSteps, UninstallSteps, Rolling, Staged, Failing, Backing,
          AfterCapture
<1>28. CASE MoveOld(p)
  BY <1>28
    DEF MoveOld, Fails, Step, journals, metadata, locks, Carries, InstallSteps,
      UninstallSteps, Rolling, Staged, Failing, Backing, Idle
<1>29. CASE OldMoved(p)
  BY <1>29
    DEF OldMoved, Fails, Step, trees, metadata, locks, Carries, InstallSteps,
      UninstallSteps, Rolling, Staged, Failing, Backing, Idle
<1>30. CASE PlaceNew(p)
  BY <1>30
    DEF PlaceNew, Fails, Step, journals, metadata, locks, Carries, InstallSteps,
      UninstallSteps, Rolling, Staged, Failing, Backing, Idle
<1>31. CASE NewPromoted(p)
  BY <1>31
    DEF NewPromoted, Fails, Step, trees, metadata, locks, Carries, InstallSteps,
      UninstallSteps, Rolling, Staged, Failing, Backing, Idle
<1>32. CASE Unplace(p)
  BY <1>32
    DEF Unplace, Fails, Step, journals, metadata, locks, Carries, InstallSteps,
      UninstallSteps, Rolling, Staged, Failing, Backing, Idle
<1>33. CASE DropBackup(p)
  BY <1>33
    DEF DropBackup, FailsAndLeaves, Leave, journals, metadata, locks, Carries,
      InstallSteps, UninstallSteps, Rolling, Staged, Failing, Backing, Idle
<1>34. CASE DropJournal(p)
  BY <1>34
    DEF DropJournal, FailsAndLeaves, Leave, trees, metadata, Carries, InstallSteps,
      UninstallSteps, Rolling, Staged, Failing, Backing, Idle
<1>35. CASE Validate(p)
  BY <1>35, Discarding
    DEF Validate, Fails, With, Step, trees, journals, metadata, locks, Carries,
      InstallSteps, UninstallSteps, Rolling, Staged, Failing, Backing, Idle, AfterDo
<1>36. CASE GenerateShim(p)
  BY <1>36
    DEF GenerateShim, Step, trees, journals, locks, counters, Carries, InstallSteps,
      UninstallSteps, Rolling, Staged, Failing, Backing, Idle
<1>37. CASE Generated(p)
  BY <1>37
    DEF Generated, Step, trees, journals, metadata, locks, counters, Carries, InstallSteps,
      UninstallSteps, Rolling, Staged, Failing, Backing, Idle
<1>38. CASE PersistConfig(p)
  BY <1>38
    DEF PersistConfig, Fails, Step, trees, journals, locks, Carries, InstallSteps,
      UninstallSteps, Rolling, Staged, Failing, Backing, Idle
<1>39. CASE PersistLock(p)
  BY <1>39
    DEF PersistLock, Fails, Step, trees, journals, locks, Carries, InstallSteps,
      UninstallSteps, Rolling, Staged, Failing, Backing, Idle
<1>40. CASE RemoveStale(p)
  BY <1>40
    DEF RemoveStale, Step, trees, journals, locks, counters, Carries, InstallSteps,
      UninstallSteps, Rolling, Staged, Failing, Backing, Idle
<1>41. CASE Published(p)
  BY <1>41
    DEF Published, Step, Leave, trees, journals, metadata, locks, counters, Carries,
      InstallSteps, UninstallSteps, Rolling, Staged, Failing, Backing, Idle
<1>42. CASE ShimFails(p)
  BY <1>42
    DEF ShimFails, Fails, Step, trees, journals, metadata, locks, Carries, InstallSteps,
      UninstallSteps, Rolling, Staged, Failing, Backing, Idle
<1>43. CASE Activate(p)
  BY <1>43
    DEF Activate, Fails, Step, trees, metadata, locks, Carries, InstallSteps,
      UninstallSteps, Rolling, Staged, Failing, Backing, Idle
<1>44. CASE Finish(p)
  BY <1>44
    DEF Finish, Fails, Step, journals, metadata, locks, Carries, InstallSteps,
      UninstallSteps, Rolling, Staged, Failing, Backing, Idle
<1>45. CASE Cleared(p)
  BY <1>45
    DEF Cleared, FailsAndLeaves, Leave, trees, metadata, Carries, InstallSteps,
      UninstallSteps, Rolling, Staged, Failing, Backing, Idle
<1>46. CASE Relock(p)
  BY <1>46
    DEF Relock, Fails, Step, trees, journals, locks, Carries, InstallSteps, UninstallSteps,
      Rolling, Staged, Failing, Backing, Idle
<1>47. CASE Repin(p)
  BY <1>47
    DEF Repin, Repinned, Fails, Step, trees, journals, locks, Carries, InstallSteps,
      UninstallSteps, Rolling, Staged, Failing, Backing, Idle
<1>48. CASE Rollback(p)
  <2>1. pc[p] = "rollback" /\ errors' \in {errors, errors + 1}
        /\ \/ pc'[p] \in {"restore", "unjournal"} /\ cmd' = cmd
           \/ RollbackEnds(p, FALSE)
    BY <1>48 DEF Rollback, Step
  <2>2. /\ RollbackEnds(p, FALSE) =>
             \/ pc'[p] = "idle" /\ cmd'[p] = Idle
             \/ /\ cmd'[p] = AfterTries(cmd[p], 1)
                /\ pc'[p] = (IF cmd[p].do = "discard" THEN "rollback" ELSE "reconcile")
        /\ RollbackEnds(p, TRUE) =>
             \/ pc'[p] = "idle" /\ cmd'[p] = Idle
             \/ /\ cmd'[p] = AfterTries(cmd[p], 2)
                /\ pc'[p] = "reconcile" /\ cmd[p].do # "discard"
    BY RollingBack DEF Leave
  <2>3. CASE pc'[p] = "idle"
    <3>1. cmd'[p] = Idle
      BY <2>1, <2>2, <2>3
    <3> QED
      BY <2>3, <3>1 DEF Carries, InstallSteps, UninstallSteps, Rolling, Staged, Failing,
        Backing, Idle
  <2>4. CASE pc'[p] = "rollback"
    <3>1. cmd'[p] = AfterTries(cmd[p], 1) /\ cmd[p].do = "discard"
      BY <2>1, <2>2, <2>4
    <3> QED
      BY <2>1, <2>4, <3>1 DEF Carries, InstallSteps, UninstallSteps, Rolling, Staged, Failing,
        Backing, AfterTries
  <2>5. CASE pc'[p] = "reconcile"
    <3>1. cmd[p].do # "discard" /\ cmd'[p] \in {AfterTries(cmd[p], 1), AfterTries(cmd[p], 2)}
      BY <2>1, <2>2, <2>5
    <3> QED
      BY <2>1, <2>5, <3>1 DEF Carries, InstallSteps, UninstallSteps, Rolling, Staged, Failing,
        Backing, AfterTries
  <2>6. CASE pc'[p] \in {"restore", "unjournal"}
    <3>1. cmd'[p] = cmd[p]
      BY <2>1, <2>2, <2>6
    <3> QED
      BY <2>1, <2>6, <3>1 DEF Carries, InstallSteps, UninstallSteps, Rolling, Staged, Failing,
        Backing
  <2> QED
    BY <2>1, <2>2, <2>3, <2>4, <2>5, <2>6
<1>49. CASE Restore(p)
  <2>1. pc[p] = "restore" /\ errors' \in {errors, errors + 1}
        /\ \/ pc'[p] = "unjournal" /\ cmd' = cmd
           \/ RollbackEnds(p, FALSE)
    BY <1>49 DEF Restore, Step
  <2>2. /\ RollbackEnds(p, FALSE) =>
             \/ pc'[p] = "idle" /\ cmd'[p] = Idle
             \/ /\ cmd'[p] = AfterTries(cmd[p], 1)
                /\ pc'[p] = (IF cmd[p].do = "discard" THEN "rollback" ELSE "reconcile")
        /\ RollbackEnds(p, TRUE) =>
             \/ pc'[p] = "idle" /\ cmd'[p] = Idle
             \/ /\ cmd'[p] = AfterTries(cmd[p], 2)
                /\ pc'[p] = "reconcile" /\ cmd[p].do # "discard"
    BY RollingBack DEF Leave
  <2>3. CASE pc'[p] = "idle"
    <3>1. cmd'[p] = Idle
      BY <2>1, <2>2, <2>3
    <3> QED
      BY <2>3, <3>1 DEF Carries, InstallSteps, UninstallSteps, Rolling, Staged, Failing,
        Backing, Idle
  <2>4. CASE pc'[p] = "rollback"
    <3>1. cmd'[p] = AfterTries(cmd[p], 1) /\ cmd[p].do = "discard"
      BY <2>1, <2>2, <2>4
    <3> QED
      BY <2>1, <2>4, <3>1 DEF Carries, InstallSteps, UninstallSteps, Rolling, Staged, Failing,
        Backing, AfterTries
  <2>5. CASE pc'[p] = "reconcile"
    <3>1. cmd[p].do # "discard" /\ cmd'[p] \in {AfterTries(cmd[p], 1), AfterTries(cmd[p], 2)}
      BY <2>1, <2>2, <2>5
    <3> QED
      BY <2>1, <2>5, <3>1 DEF Carries, InstallSteps, UninstallSteps, Rolling, Staged, Failing,
        Backing, AfterTries
  <2>6. CASE pc'[p] \in {"restore", "unjournal"}
    <3>1. cmd'[p] = cmd[p]
      BY <2>1, <2>2, <2>6
    <3> QED
      BY <2>1, <2>6, <3>1 DEF Carries, InstallSteps, UninstallSteps, Rolling, Staged, Failing,
        Backing
  <2> QED
    BY <2>1, <2>2, <2>3, <2>4, <2>5, <2>6
<1>50. CASE Unjournal(p)
  <2>1. pc[p] = "unjournal" /\ errors' \in {errors, errors + 1}
        /\ \/ RollbackEnds(p, TRUE)
           \/ RollbackEnds(p, FALSE)
    BY <1>50 DEF Unjournal, Step
  <2>2. /\ RollbackEnds(p, FALSE) =>
             \/ pc'[p] = "idle" /\ cmd'[p] = Idle
             \/ /\ cmd'[p] = AfterTries(cmd[p], 1)
                /\ pc'[p] = (IF cmd[p].do = "discard" THEN "rollback" ELSE "reconcile")
        /\ RollbackEnds(p, TRUE) =>
             \/ pc'[p] = "idle" /\ cmd'[p] = Idle
             \/ /\ cmd'[p] = AfterTries(cmd[p], 2)
                /\ pc'[p] = "reconcile" /\ cmd[p].do # "discard"
    BY RollingBack DEF Leave
  <2>3. CASE pc'[p] = "idle"
    <3>1. cmd'[p] = Idle
      BY <2>1, <2>2, <2>3
    <3> QED
      BY <2>3, <3>1 DEF Carries, InstallSteps, UninstallSteps, Rolling, Staged, Failing,
        Backing, Idle
  <2>4. CASE pc'[p] = "rollback"
    <3>1. cmd'[p] = AfterTries(cmd[p], 1) /\ cmd[p].do = "discard"
      BY <2>1, <2>2, <2>4
    <3> QED
      BY <2>1, <2>4, <3>1 DEF Carries, InstallSteps, UninstallSteps, Rolling, Staged, Failing,
        Backing, AfterTries
  <2>5. CASE pc'[p] = "reconcile"
    <3>1. cmd[p].do # "discard" /\ cmd'[p] \in {AfterTries(cmd[p], 1), AfterTries(cmd[p], 2)}
      BY <2>1, <2>2, <2>5
    <3> QED
      BY <2>1, <2>5, <3>1 DEF Carries, InstallSteps, UninstallSteps, Rolling, Staged, Failing,
        Backing, AfterTries
  <2>6. CASE pc'[p] \in {"restore", "unjournal"}
    <3>1. cmd'[p] = cmd[p]
      BY <2>1, <2>2, <2>6
    <3> QED
      BY <2>1, <2>6, <3>1 DEF Carries, InstallSteps, UninstallSteps, Rolling, Staged, Failing,
        Backing
  <2> QED
    BY <2>1, <2>2, <2>3, <2>4, <2>5, <2>6
<1>51. CASE Reconcile(p)
  BY <1>51
    DEF Reconcile, Step, trees, journals, locks, counters, Carries, InstallSteps,
      UninstallSteps, Rolling, Staged, Failing, Backing, Idle
<1>52. CASE Reconciled(p)
  <2>1. pc[p] = "reconcile" /\ errors' \in {errors, errors + 1}
        /\ \/ pc'[p] = "idle" /\ cmd'[p] = Idle
           \/ pc'[p] = "rollback" /\ cmd' = cmd /\ cmd[p].tries = 1
    BY <1>52 DEF Reconciled, Leave, Step
  <2> QED
    BY <2>1
      DEF Carries, InstallSteps, UninstallSteps, Rolling, Staged, Failing, Backing, Idle
<1>53. CASE Select(p)
  BY <1>53, Discarding
    DEF Select, With, Step, Leave, trees, journals, metadata, locks, counters, Carries,
      InstallSteps, UninstallSteps, Rolling, Staged, Failing, Backing, Idle, AfterDo
<1>54. CASE NotInstalled(p)
  BY <1>54
    DEF NotInstalled, Leave, trees, journals, metadata, counters, Carries, InstallSteps,
      UninstallSteps, Rolling, Staged, Failing, Backing, Idle
<1>55. CASE Prepare(p)
  <2> DEFINE d == IF errors' = errors THEN "remove" ELSE "discard"
  <2>1. cmd'[p] = AfterCapture(cmd[p], d, config, lock, root[cmd[p].ver])
    BY <1>55, Carrying
  <2>2. pc[p] = "prepare"
        /\ \/ pc'[p] = "take" /\ errors' = errors
           \/ pc'[p] = "back_root" /\ errors' = errors + 1
    BY <1>55 DEF Prepare, Step, Fails
  <2>3. \/ pc'[p] = "take" /\ errors' = errors /\ d = "remove"
        \/ pc'[p] = "back_root" /\ errors' = errors + 1 /\ d = "discard"
    BY <2>2
  <2> HIDE DEF d
  <2> QED
    BY <2>1, <2>2, <2>3
      DEF Carries, InstallSteps, UninstallSteps, Rolling, Staged, Failing, Backing,
          AfterCapture
<1>56. CASE Take(p)
  BY <1>56, Discarding
    DEF Take, Fails, With, Step, journals, metadata, locks, Carries, InstallSteps,
      UninstallSteps, Rolling, Staged, Failing, Backing, Idle, AfterDo
<1>57. CASE Commit(p)
  BY <1>57, Discarding
    DEF Commit, Fails, With, Step, trees, metadata, locks, Carries, InstallSteps,
      UninstallSteps, Rolling, Staged, Failing, Backing, Idle, AfterDo
<1>58. CASE RemoveConfig(p)
  BY <1>58
    DEF RemoveConfig, Fails, Step, trees, journals, locks, Carries, InstallSteps,
      UninstallSteps, Rolling, Staged, Failing, Backing, Idle
<1>59. CASE RemoveLock(p)
  BY <1>59
    DEF RemoveLock, Fails, Step, trees, journals, locks, Carries, InstallSteps,
      UninstallSteps, Rolling, Staged, Failing, Backing, Idle
<1>60. CASE RemoveShim(p)
  BY <1>60
    DEF RemoveShim, Step, trees, journals, locks, counters, Carries, InstallSteps,
      UninstallSteps, Rolling, Staged, Failing, Backing, Idle
<1>61. CASE ShimsRemoved(p)
  BY <1>61
    DEF ShimsRemoved, Fails, Step, trees, journals, metadata, locks, Carries, InstallSteps,
      UninstallSteps, Rolling, Staged, Failing, Backing, Idle
<1>62. CASE Clean(p)
  BY <1>62
    DEF Clean, FailsAndLeaves, Step, Leave, journals, metadata, locks, Carries,
      InstallSteps, UninstallSteps, Rolling, Staged, Failing, Backing, Idle
<1>63. CASE Tidy(p)
  BY <1>63
    DEF Tidy, FailsAndLeaves, Leave, trees, metadata, Carries, InstallSteps,
      UninstallSteps, Rolling, Staged, Failing, Backing, Idle
<1>64. CASE BackMetadata(p)
  BY <1>64
    DEF BackMetadata, Fails, Step, trees, journals, locks, Carries, InstallSteps,
      UninstallSteps, Rolling, Staged, Failing, Backing, Idle
<1>65. CASE BackRoot(p)
  BY <1>65
    DEF BackRoot, RootsBack, Step, Leave, journals, metadata, locks, Carries, InstallSteps,
      UninstallSteps, Rolling, Staged, Failing, Backing, Idle
<1>66. CASE BackJournal(p)
  BY <1>66
    DEF BackJournal, RootsBack, Leave, trees, metadata, locks, Carries, InstallSteps,
      UninstallSteps, Rolling, Staged, Failing, Backing, Idle
<1>67. CASE BackShim(p)
  BY <1>67
    DEF BackShim, Step, trees, journals, locks, counters, Carries, InstallSteps,
      UninstallSteps, Rolling, Staged, Failing, Backing, Idle
<1>68. CASE Back(p)
  BY <1>68
    DEF Back, Leave, trees, journals, metadata, Carries, InstallSteps, UninstallSteps,
      Rolling, Staged, Failing, Backing, Idle
<1> QED
  BY <1>1, <1>2, <1>3, <1>4, <1>5, <1>6, <1>7, <1>8, <1>9, <1>10, <1>11, <1>12, <1>13,
     <1>14, <1>15, <1>16, <1>17, <1>18, <1>19, <1>20, <1>21, <1>22, <1>23, <1>24, <1>25,
     <1>26, <1>27, <1>28, <1>29, <1>30, <1>31, <1>32, <1>33, <1>34, <1>35, <1>36, <1>37,
     <1>38, <1>39, <1>40, <1>41, <1>42, <1>43, <1>44, <1>45, <1>46, <1>47, <1>48, <1>49,
     <1>50, <1>51, <1>52, <1>53, <1>54, <1>55, <1>56, <1>57, <1>58, <1>59, <1>60, <1>61,
     <1>62, <1>63, <1>64, <1>65, <1>66, <1>67, <1>68 DEF Run, Recovery, Install, Uninstall

\* p enters the steps under the state lock when it takes it.
LEMMA StateOwn ==
  ASSUME pc \in [Process -> PcType], cmd \in [Process -> CmdType],
         NEW p \in Process, pc[p] \in Locked <=> state = p, Carries(p),
         Start(p) \/ Kill(p) \/ Run(p)
  PROVE  pc'[p] \in Locked <=> state' = p
<1>1. CASE UndoRoot(p) \/ UndoShim(p) \/ CompleteConfig(p) \/ CompleteLock(p)
           \/ CompleteShim(p) \/ CompleteRoot(p)
  BY <1>1
    DEF UndoRoot, UndoShim, CompleteConfig, CompleteLock, CompleteShim, CompleteRoot,
      trees, journals, metadata, locks, counters, Locked, InstallSteps, UninstallSteps
<1>2. CASE UndoJournal(p)
  BY <1>2
    DEF UndoJournal, trees, metadata, locks, counters, Locked, InstallSteps, UninstallSteps
<1>3. CASE Start(p)
  <2>1. pc[p] = "idle" /\ pc'[p] \in {"version", "state"} /\ state' = state
    BY <1>3 DEF Start, Step, locks
  <2> QED
    BY <2>1 DEF Locked, InstallSteps, UninstallSteps
<1>4. CASE TakeVersion(p)
  BY <1>4
    DEF TakeVersion, Step, trees, journals, metadata, counters, Locked, InstallSteps,
      UninstallSteps
<1>5. CASE TakeState(p)
  BY <1>5
    DEF TakeState, Step, trees, journals, metadata, counters, Locked, InstallSteps,
      UninstallSteps
<1>6. CASE Kill(p)
  BY <1>6 DEF Kill, Leave, trees, journals, metadata, Locked, InstallSteps, UninstallSteps
<1>7. CASE RecoverAside(p)
  BY <1>7
    DEF RecoverAside, Step, journals, metadata, locks, counters, Locked, InstallSteps,
      UninstallSteps
<1>8. CASE RecoverBackup(p)
  BY <1>8
    DEF RecoverBackup, Step, journals, metadata, locks, counters, Locked, InstallSteps,
      UninstallSteps
<1>9. CASE RecoverClear(p)
  BY <1>9
    DEF RecoverClear, Step, journals, metadata, locks, counters, Locked, InstallSteps,
      UninstallSteps
<1>10. CASE RecoverDebris(p)
  BY <1>10
    DEF RecoverDebris, Step, journals, metadata, locks, counters, Locked, InstallSteps,
      UninstallSteps
<1>11. CASE RecoverJournal(p)
  BY <1>11
    DEF RecoverJournal, Step, trees, metadata, locks, counters, Locked, InstallSteps,
      UninstallSteps
<1>12. CASE Recovered(p)
  BY <1>12
    DEF Recovered, Step, trees, journals, metadata, counters, Locked, InstallSteps,
      UninstallSteps
<1>13. CASE RecoverFails(p)
  BY <1>13
    DEF RecoverFails, FailsAndLeaves, Leave, journals, metadata, Locked, InstallSteps,
      UninstallSteps
<1>14. CASE Refuse(p)
  BY <1>14
    DEF Refuse, Leave, trees, journals, metadata, counters, Locked, InstallSteps,
      UninstallSteps
<1>15. CASE UndoRefuses(p)
  BY <1>15
    DEF UndoRefuses, Leave, trees, journals, metadata, counters, Locked, InstallSteps,
      UninstallSteps
<1>16. CASE UndoFails(p)
  BY <1>16
    DEF UndoFails, FailsAndLeaves, Leave, trees, journals, metadata, Locked, InstallSteps,
      UninstallSteps
<1>17. CASE Undone(p)
  BY <1>17
    DEF Undone, Step, trees, journals, metadata, counters, Locked, InstallSteps,
      UninstallSteps
<1>18. CASE Reuse(p)
  BY <1>18
    DEF Reuse, Step, trees, journals, metadata, locks, counters, Locked, InstallSteps,
      UninstallSteps
<1>19. CASE Stage(p)
  BY <1>19
    DEF Stage, Step, trees, journals, metadata, locks, counters, Locked, InstallSteps,
      UninstallSteps
<1>20. CASE StageFails(p)
  BY <1>20
    DEF StageFails, FailsAndLeaves, Leave, trees, journals, metadata, Locked, InstallSteps,
      UninstallSteps
<1>21. CASE ReuseIsGone(p)
  BY <1>21
    DEF ReuseIsGone, Leave, trees, journals, metadata, counters, Locked, InstallSteps,
      UninstallSteps
<1>22. CASE Open(p)
  BY <1>22
    DEF Open, Fails, Step, trees, metadata, locks, Locked, InstallSteps, UninstallSteps
<1>23. CASE MoveOld(p)
  BY <1>23
    DEF MoveOld, Fails, Step, journals, metadata, locks, Locked, InstallSteps,
      UninstallSteps
<1>24. CASE OldMoved(p)
  BY <1>24
    DEF OldMoved, Fails, Step, trees, metadata, locks, Locked, InstallSteps, UninstallSteps
<1>25. CASE PlaceNew(p)
  BY <1>25
    DEF PlaceNew, Fails, Step, journals, metadata, locks, Locked, InstallSteps,
      UninstallSteps
<1>26. CASE NewPromoted(p)
  BY <1>26
    DEF NewPromoted, Fails, Step, trees, metadata, locks, Locked, InstallSteps,
      UninstallSteps
<1>27. CASE Unplace(p)
  BY <1>27
    DEF Unplace, Fails, Step, journals, metadata, locks, Locked, InstallSteps,
      UninstallSteps
<1>28. CASE DropBackup(p)
  BY <1>28
    DEF DropBackup, FailsAndLeaves, Leave, journals, metadata, locks, Locked, InstallSteps,
      UninstallSteps
<1>29. CASE DropJournal(p)
  BY <1>29
    DEF DropJournal, FailsAndLeaves, Leave, trees, metadata, Locked, InstallSteps,
      UninstallSteps
<1>30. CASE Validate(p)
  BY <1>30
    DEF Validate, Fails, Step, trees, journals, metadata, locks, Locked, InstallSteps,
      UninstallSteps
<1>31. CASE GenerateShim(p)
  BY <1>31
    DEF GenerateShim, Step, trees, journals, locks, counters, Locked, InstallSteps,
      UninstallSteps
<1>32. CASE Generated(p)
  BY <1>32
    DEF Generated, Step, trees, journals, metadata, locks, counters, Locked, InstallSteps,
      UninstallSteps
<1>33. CASE PersistConfig(p)
  BY <1>33
    DEF PersistConfig, Fails, Step, trees, journals, locks, Locked, InstallSteps,
      UninstallSteps
<1>34. CASE PersistLock(p)
  BY <1>34
    DEF PersistLock, Fails, Step, trees, journals, locks, Locked, InstallSteps,
      UninstallSteps
<1>35. CASE RemoveStale(p)
  BY <1>35
    DEF RemoveStale, Step, trees, journals, locks, counters, Locked, InstallSteps,
      UninstallSteps
<1>36. CASE Published(p)
  BY <1>36
    DEF Published, Step, Leave, trees, journals, metadata, locks, counters, Locked,
      InstallSteps, UninstallSteps
<1>37. CASE ShimFails(p)
  BY <1>37
    DEF ShimFails, Fails, Step, trees, journals, metadata, locks, Locked, InstallSteps,
      UninstallSteps
<1>38. CASE Activate(p)
  BY <1>38
    DEF Activate, Fails, Step, trees, metadata, locks, Locked, InstallSteps, UninstallSteps
<1>39. CASE Finish(p)
  BY <1>39
    DEF Finish, Fails, Step, journals, metadata, locks, Locked, InstallSteps, UninstallSteps
<1>40. CASE Cleared(p)
  BY <1>40
    DEF Cleared, FailsAndLeaves, Leave, trees, metadata, Locked, InstallSteps,
      UninstallSteps
<1>41. CASE Relock(p)
  BY <1>41
    DEF Relock, Fails, Step, trees, journals, locks, Locked, InstallSteps, UninstallSteps
<1>42. CASE Repin(p)
  BY <1>42
    DEF Repin, Repinned, Fails, Step, trees, journals, locks, Locked, InstallSteps,
      UninstallSteps
<1>43. CASE Rollback(p)
  <2>1. pc[p] \in Locked /\ state = p
    BY <1>43, StepsLocked DEF Rollback, Step
  <2>2. \/ pc'[p] \in {"restore", "unjournal"} /\ state' = state
        \/ RollbackEnds(p, TRUE) \/ RollbackEnds(p, FALSE)
    BY <1>43 DEF Rollback, Step, locks
  <2>3. \/ pc'[p] \in {"restore", "unjournal", "rollback", "reconcile"} /\ state' = state
        \/ Leave(p)
    BY <2>2, RollingBack
  <2>4. CASE Leave(p)
    BY <2>1, <2>4 DEF Leave, Locked, InstallSteps, UninstallSteps
  <2>5. CASE ~Leave(p)
    BY <2>1, <2>3, <2>5, StepsLocked
  <2> QED
    BY <2>4, <2>5
<1>44. CASE Restore(p)
  <2>1. pc[p] \in Locked /\ state = p
    BY <1>44, StepsLocked DEF Restore, Step
  <2>2. \/ pc'[p] \in {"restore", "unjournal"} /\ state' = state
        \/ RollbackEnds(p, TRUE) \/ RollbackEnds(p, FALSE)
    BY <1>44 DEF Restore, Step, locks
  <2>3. \/ pc'[p] \in {"restore", "unjournal", "rollback", "reconcile"} /\ state' = state
        \/ Leave(p)
    BY <2>2, RollingBack
  <2>4. CASE Leave(p)
    BY <2>1, <2>4 DEF Leave, Locked, InstallSteps, UninstallSteps
  <2>5. CASE ~Leave(p)
    BY <2>1, <2>3, <2>5, StepsLocked
  <2> QED
    BY <2>4, <2>5
<1>45. CASE Unjournal(p)
  <2>1. pc[p] \in Locked /\ state = p
    BY <1>45, StepsLocked DEF Unjournal, Step
  <2>2. \/ pc'[p] \in {"restore", "unjournal"} /\ state' = state
        \/ RollbackEnds(p, TRUE) \/ RollbackEnds(p, FALSE)
    BY <1>45 DEF Unjournal, Step, locks
  <2>3. \/ pc'[p] \in {"restore", "unjournal", "rollback", "reconcile"} /\ state' = state
        \/ Leave(p)
    BY <2>2, RollingBack
  <2>4. CASE Leave(p)
    BY <2>1, <2>4 DEF Leave, Locked, InstallSteps, UninstallSteps
  <2>5. CASE ~Leave(p)
    BY <2>1, <2>3, <2>5, StepsLocked
  <2> QED
    BY <2>4, <2>5
<1>46. CASE Reconcile(p)
  BY <1>46
    DEF Reconcile, Step, trees, journals, locks, counters, Locked, InstallSteps,
      UninstallSteps
<1>47. CASE Reconciled(p)
  BY <1>47
    DEF Reconciled, Step, Leave, trees, journals, metadata, locks, Locked, InstallSteps,
      UninstallSteps
<1>48. CASE Select(p)
  BY <1>48
    DEF Select, Step, Leave, trees, journals, metadata, locks, counters, Locked,
      InstallSteps, UninstallSteps
<1>49. CASE NotInstalled(p)
  BY <1>49
    DEF NotInstalled, Leave, trees, journals, metadata, counters, Locked, InstallSteps,
      UninstallSteps
<1>50. CASE Prepare(p)
  BY <1>50
    DEF Prepare, Fails, Step, trees, metadata, locks, Locked, InstallSteps, UninstallSteps
<1>51. CASE Take(p)
  BY <1>51
    DEF Take, Fails, Step, journals, metadata, locks, Locked, InstallSteps, UninstallSteps
<1>52. CASE Commit(p)
  BY <1>52
    DEF Commit, Fails, Step, trees, metadata, locks, Locked, InstallSteps, UninstallSteps
<1>53. CASE RemoveConfig(p)
  BY <1>53
    DEF RemoveConfig, Fails, Step, trees, journals, locks, Locked, InstallSteps,
      UninstallSteps
<1>54. CASE RemoveLock(p)
  BY <1>54
    DEF RemoveLock, Fails, Step, trees, journals, locks, Locked, InstallSteps,
      UninstallSteps
<1>55. CASE RemoveShim(p)
  BY <1>55
    DEF RemoveShim, Step, trees, journals, locks, counters, Locked, InstallSteps,
      UninstallSteps
<1>56. CASE ShimsRemoved(p)
  BY <1>56
    DEF ShimsRemoved, Fails, Step, trees, journals, metadata, locks, Locked, InstallSteps,
      UninstallSteps
<1>57. CASE Clean(p)
  BY <1>57
    DEF Clean, FailsAndLeaves, Step, Leave, journals, metadata, locks, Locked,
      InstallSteps, UninstallSteps
<1>58. CASE Tidy(p)
  BY <1>58
    DEF Tidy, FailsAndLeaves, Leave, trees, metadata, Locked, InstallSteps, UninstallSteps
<1>59. CASE BackMetadata(p)
  BY <1>59
    DEF BackMetadata, Fails, Step, trees, journals, locks, Locked, InstallSteps,
      UninstallSteps
<1>60. CASE BackRoot(p)
  BY <1>60
    DEF BackRoot, RootsBack, Step, Leave, journals, metadata, locks, Locked, InstallSteps,
      UninstallSteps
<1>61. CASE BackJournal(p)
  BY <1>61
    DEF BackJournal, RootsBack, Leave, trees, metadata, locks, Locked, InstallSteps,
      UninstallSteps
<1>62. CASE BackShim(p)
  BY <1>62
    DEF BackShim, Step, trees, journals, locks, counters, Locked, InstallSteps,
      UninstallSteps
<1>63. CASE Back(p)
  BY <1>63 DEF Back, Leave, trees, journals, metadata, Locked, InstallSteps, UninstallSteps
<1> QED
  BY <1>1, <1>2, <1>3, <1>4, <1>5, <1>6, <1>7, <1>8, <1>9, <1>10, <1>11, <1>12, <1>13,
     <1>14, <1>15, <1>16, <1>17, <1>18, <1>19, <1>20, <1>21, <1>22, <1>23, <1>24, <1>25,
     <1>26, <1>27, <1>28, <1>29, <1>30, <1>31, <1>32, <1>33, <1>34, <1>35, <1>36, <1>37,
     <1>38, <1>39, <1>40, <1>41, <1>42, <1>43, <1>44, <1>45, <1>46, <1>47, <1>48, <1>49,
     <1>50, <1>51, <1>52, <1>53, <1>54, <1>55, <1>56, <1>57, <1>58, <1>59, <1>60, <1>61,
     <1>62, <1>63 DEF Run, Recovery, Install, Uninstall

\* An install takes the lock of its version first and gives it back last.
LEMMA HeldOwn ==
  ASSUME pc \in [Process -> PcType], cmd \in [Process -> CmdType],
         held \in [Version -> Process \cup {None}],
         NEW p \in Process, Holds(p) => held[cmd[p].ver] = p, Carries(p),
         Start(p) \/ Kill(p) \/ Run(p)
  PROVE  Holds(p)' => held'[cmd'[p].ver] = p
<1>1. CASE UndoRoot(p) \/ UndoShim(p) \/ CompleteConfig(p) \/ CompleteLock(p)
           \/ CompleteShim(p) \/ CompleteRoot(p)
  BY <1>1
    DEF UndoRoot, UndoShim, CompleteConfig, CompleteLock, CompleteShim, CompleteRoot,
      trees, journals, metadata, locks, counters, Holds, Carries, InstallSteps,
      UninstallSteps, Rolling, Backing, Idle
<1>2. CASE UndoJournal(p)
  BY <1>2
    DEF UndoJournal, trees, metadata, locks, counters, Holds, Carries, InstallSteps,
      UninstallSteps, Rolling, Backing, Idle
<1>3. CASE Start(p)
  <2>1. PICK c \in Command :
          /\ cmd'[p] = AfterStart(cmd[p], IF c.op = "install" THEN "recover" ELSE "find", c.ver)
          /\ pc'[p] = IF c.op = "install" THEN "version" ELSE "state"
    BY <1>3, Carrying
  <2> QED
    BY <2>1 DEF Holds, InstallSteps, AfterStart
<1>4. CASE TakeVersion(p)
  BY <1>4
    DEF TakeVersion, Step, trees, journals, metadata, counters, Holds, Carries,
      InstallSteps, UninstallSteps, Rolling, Backing, Idle
<1>5. CASE TakeState(p)
  BY <1>5
    DEF TakeState, Step, trees, journals, metadata, counters, Holds, Carries, InstallSteps,
      UninstallSteps, Rolling, Backing, Idle
<1>6. CASE Kill(p)
  BY <1>6
    DEF Kill, Leave, trees, journals, metadata, Holds, Carries, InstallSteps,
      UninstallSteps, Rolling, Backing, Idle
<1>7. CASE RecoverAside(p)
  <2>1. cmd'[p] = AfterAside(cmd[p], root[cmd[p].ver])
    BY <1>7, Carrying
  <2>2. cmd'[p].ver = cmd[p].ver
    BY <2>1 DEF AfterAside
  <2>3. Holds(p) /\ held' = held
    BY <1>7 DEF RecoverAside, Step, Holds, InstallSteps, locks
  <2> QED
    BY <2>2, <2>3
<1>8. CASE RecoverBackup(p)
  BY <1>8
    DEF RecoverBackup, Step, journals, metadata, locks, counters, Holds, Carries,
      InstallSteps, UninstallSteps, Rolling, Backing, Idle
<1>9. CASE RecoverClear(p)
  BY <1>9
    DEF RecoverClear, Step, journals, metadata, locks, counters, Holds, Carries,
      InstallSteps, UninstallSteps, Rolling, Backing, Idle
<1>10. CASE RecoverDebris(p)
  BY <1>10
    DEF RecoverDebris, Step, journals, metadata, locks, counters, Holds, Carries,
      InstallSteps, UninstallSteps, Rolling, Backing, Idle
<1>11. CASE RecoverJournal(p)
  BY <1>11
    DEF RecoverJournal, Step, trees, metadata, locks, counters, Holds, Carries,
      InstallSteps, UninstallSteps, Rolling, Backing, Idle
<1>12. CASE Recovered(p)
  BY <1>12
    DEF Recovered, Step, trees, journals, metadata, counters, Holds, Carries, InstallSteps,
      UninstallSteps, Rolling, Backing, Idle
<1>13. CASE RecoverFails(p)
  BY <1>13
    DEF RecoverFails, FailsAndLeaves, Leave, journals, metadata, Holds, Carries,
      InstallSteps, UninstallSteps, Rolling, Backing, Idle
<1>14. CASE Refuse(p)
  BY <1>14
    DEF Refuse, Leave, trees, journals, metadata, counters, Holds, Carries, InstallSteps,
      UninstallSteps, Rolling, Backing, Idle
<1>15. CASE UndoRefuses(p)
  BY <1>15
    DEF UndoRefuses, Leave, trees, journals, metadata, counters, Holds, Carries,
      InstallSteps, UninstallSteps, Rolling, Backing, Idle
<1>16. CASE UndoFails(p)
  BY <1>16
    DEF UndoFails, FailsAndLeaves, Leave, trees, journals, metadata, Holds, Carries,
      InstallSteps, UninstallSteps, Rolling, Backing, Idle
<1>17. CASE Undone(p)
  BY <1>17
    DEF Undone, Step, trees, journals, metadata, counters, Holds, Carries, InstallSteps,
      UninstallSteps, Rolling, Backing, Idle
<1>18. CASE Reuse(p)
  <2>1. cmd'[p] = AfterDo(cmd[p], "publish")
    BY <1>18, Carrying
  <2>2. cmd'[p].ver = cmd[p].ver
    BY <2>1 DEF AfterDo
  <2>3. Holds(p) /\ held' = held
    BY <1>18 DEF Reuse, Step, Holds, InstallSteps, locks
  <2> QED
    BY <2>2, <2>3
<1>19. CASE Stage(p)
  <2>1. PICK t \in Tree : cmd'[p] = AfterStage(cmd[p], t)
    BY <1>19, Carrying
  <2>2. cmd'[p].ver = cmd[p].ver
    BY <2>1 DEF AfterStage
  <2>3. Holds(p) /\ held' = held
    BY <1>19 DEF Stage, Step, Holds, InstallSteps, locks
  <2> QED
    BY <2>2, <2>3
<1>20. CASE StageFails(p)
  BY <1>20
    DEF StageFails, FailsAndLeaves, Leave, trees, journals, metadata, Holds, Carries,
      InstallSteps, UninstallSteps, Rolling, Backing, Idle
<1>21. CASE ReuseIsGone(p)
  BY <1>21
    DEF ReuseIsGone, Leave, trees, journals, metadata, counters, Holds, Carries,
      InstallSteps, UninstallSteps, Rolling, Backing, Idle
<1>22. CASE Open(p)
  <2>1. cmd'[p] = AfterCapture(cmd[p], cmd[p].do, config, lock, root[cmd[p].ver])
    BY <1>22, Carrying
  <2>2. cmd'[p].ver = cmd[p].ver
    BY <2>1 DEF AfterCapture
  <2>3. Holds(p) /\ held' = held
    BY <1>22 DEF Open, Step, Holds, InstallSteps, locks
  <2> QED
    BY <2>2, <2>3
<1>23. CASE MoveOld(p)
  BY <1>23
    DEF MoveOld, Fails, Step, journals, metadata, locks, Holds, Carries, InstallSteps,
      UninstallSteps, Rolling, Backing, Idle
<1>24. CASE OldMoved(p)
  BY <1>24
    DEF OldMoved, Fails, Step, trees, metadata, locks, Holds, Carries, InstallSteps,
      UninstallSteps, Rolling, Backing, Idle
<1>25. CASE PlaceNew(p)
  BY <1>25
    DEF PlaceNew, Fails, Step, journals, metadata, locks, Holds, Carries, InstallSteps,
      UninstallSteps, Rolling, Backing, Idle
<1>26. CASE NewPromoted(p)
  BY <1>26
    DEF NewPromoted, Fails, Step, trees, metadata, locks, Holds, Carries, InstallSteps,
      UninstallSteps, Rolling, Backing, Idle
<1>27. CASE Unplace(p)
  BY <1>27
    DEF Unplace, Fails, Step, journals, metadata, locks, Holds, Carries, InstallSteps,
      UninstallSteps, Rolling, Backing, Idle
<1>28. CASE DropBackup(p)
  BY <1>28
    DEF DropBackup, FailsAndLeaves, Leave, journals, metadata, locks, Holds, Carries,
      InstallSteps, UninstallSteps, Rolling, Backing, Idle
<1>29. CASE DropJournal(p)
  BY <1>29
    DEF DropJournal, FailsAndLeaves, Leave, trees, metadata, Holds, Carries, InstallSteps,
      UninstallSteps, Rolling, Backing, Idle
<1>30. CASE Validate(p)
  BY <1>30, Discarding
    DEF Validate, Fails, Step, trees, journals, metadata, locks, Holds, Carries,
      InstallSteps, UninstallSteps, Rolling, Backing, Idle, AfterDo
<1>31. CASE GenerateShim(p)
  BY <1>31
    DEF GenerateShim, Step, trees, journals, locks, counters, Holds, Carries, InstallSteps,
      UninstallSteps, Rolling, Backing, Idle
<1>32. CASE Generated(p)
  BY <1>32
    DEF Generated, Step, trees, journals, metadata, locks, counters, Holds, Carries,
      InstallSteps, UninstallSteps, Rolling, Backing, Idle
<1>33. CASE PersistConfig(p)
  BY <1>33
    DEF PersistConfig, Fails, Step, trees, journals, locks, Holds, Carries, InstallSteps,
      UninstallSteps, Rolling, Backing, Idle
<1>34. CASE PersistLock(p)
  BY <1>34
    DEF PersistLock, Fails, Step, trees, journals, locks, Holds, Carries, InstallSteps,
      UninstallSteps, Rolling, Backing, Idle
<1>35. CASE RemoveStale(p)
  BY <1>35
    DEF RemoveStale, Step, trees, journals, locks, counters, Holds, Carries, InstallSteps,
      UninstallSteps, Rolling, Backing, Idle
<1>36. CASE Published(p)
  BY <1>36
    DEF Published, Step, Leave, trees, journals, metadata, locks, counters, Holds, Carries,
      InstallSteps, UninstallSteps, Rolling, Backing, Idle
<1>37. CASE ShimFails(p)
  BY <1>37
    DEF ShimFails, Fails, Step, trees, journals, metadata, locks, Holds, Carries,
      InstallSteps, UninstallSteps, Rolling, Backing, Idle
<1>38. CASE Activate(p)
  BY <1>38
    DEF Activate, Fails, Step, trees, metadata, locks, Holds, Carries, InstallSteps,
      UninstallSteps, Rolling, Backing, Idle
<1>39. CASE Finish(p)
  BY <1>39
    DEF Finish, Fails, Step, journals, metadata, locks, Holds, Carries, InstallSteps,
      UninstallSteps, Rolling, Backing, Idle
<1>40. CASE Cleared(p)
  BY <1>40
    DEF Cleared, FailsAndLeaves, Leave, trees, metadata, Holds, Carries, InstallSteps,
      UninstallSteps, Rolling, Backing, Idle
<1>41. CASE Relock(p)
  BY <1>41
    DEF Relock, Fails, Step, trees, journals, locks, Holds, Carries, InstallSteps,
      UninstallSteps, Rolling, Backing, Idle
<1>42. CASE Repin(p)
  BY <1>42
    DEF Repin, Repinned, Fails, Step, trees, journals, locks, Holds, Carries, InstallSteps,
      UninstallSteps, Rolling, Backing, Idle
<1>43. CASE Rollback(p)
  <2>1. Holds(p)
    BY <1>43 DEF Rollback, Step, Holds, InstallSteps
  <2>2. \/ cmd' = cmd /\ held' = held
        \/ RollbackEnds(p, TRUE) \/ RollbackEnds(p, FALSE)
    BY <1>43 DEF Rollback, locks
  <2>3. \/ Leave(p)
        \/ cmd' = cmd /\ held' = held
        \/ cmd' = [cmd EXCEPT ![p] = AfterTries(cmd[p], 1)] /\ held' = held
        \/ cmd' = [cmd EXCEPT ![p] = AfterTries(cmd[p], 2)] /\ held' = held
    BY <2>2, RollingBack, Zenon
  <2>4. ~Leave(p) => cmd'[p].ver = cmd[p].ver /\ held' = held
    BY <2>3 DEF AfterTries
  <2>5. Leave(p) => pc'[p] = "idle"
    BY DEF Leave
  <2> QED
    BY <2>1, <2>4, <2>5 DEF Holds, InstallSteps
<1>44. CASE Restore(p)
  <2>1. Holds(p)
    BY <1>44 DEF Restore, Step, Holds, InstallSteps
  <2>2. \/ cmd' = cmd /\ held' = held
        \/ RollbackEnds(p, TRUE) \/ RollbackEnds(p, FALSE)
    BY <1>44 DEF Restore, locks
  <2>3. \/ Leave(p)
        \/ cmd' = cmd /\ held' = held
        \/ cmd' = [cmd EXCEPT ![p] = AfterTries(cmd[p], 1)] /\ held' = held
        \/ cmd' = [cmd EXCEPT ![p] = AfterTries(cmd[p], 2)] /\ held' = held
    BY <2>2, RollingBack, Zenon
  <2>4. ~Leave(p) => cmd'[p].ver = cmd[p].ver /\ held' = held
    BY <2>3 DEF AfterTries
  <2>5. Leave(p) => pc'[p] = "idle"
    BY DEF Leave
  <2> QED
    BY <2>1, <2>4, <2>5 DEF Holds, InstallSteps
<1>45. CASE Unjournal(p)
  <2>1. Holds(p)
    BY <1>45 DEF Unjournal, Step, Holds, InstallSteps
  <2>2. \/ cmd' = cmd /\ held' = held
        \/ RollbackEnds(p, TRUE) \/ RollbackEnds(p, FALSE)
    BY <1>45 DEF Unjournal, locks
  <2>3. \/ Leave(p)
        \/ cmd' = cmd /\ held' = held
        \/ cmd' = [cmd EXCEPT ![p] = AfterTries(cmd[p], 1)] /\ held' = held
        \/ cmd' = [cmd EXCEPT ![p] = AfterTries(cmd[p], 2)] /\ held' = held
    BY <2>2, RollingBack, Zenon
  <2>4. ~Leave(p) => cmd'[p].ver = cmd[p].ver /\ held' = held
    BY <2>3 DEF AfterTries
  <2>5. Leave(p) => pc'[p] = "idle"
    BY DEF Leave
  <2> QED
    BY <2>1, <2>4, <2>5 DEF Holds, InstallSteps
<1>46. CASE Reconcile(p)
  BY <1>46
    DEF Reconcile, Step, trees, journals, locks, counters, Holds, Carries, InstallSteps,
      UninstallSteps, Rolling, Backing, Idle
<1>47. CASE Reconciled(p)
  BY <1>47
    DEF Reconciled, Step, Leave, trees, journals, metadata, locks, Holds, Carries,
      InstallSteps, UninstallSteps, Rolling, Backing, Idle
<1>48. CASE Select(p)
  BY <1>48, Discarding
    DEF Select, Step, Leave, trees, journals, metadata, locks, counters, Holds, Carries,
      InstallSteps, UninstallSteps, Rolling, Backing, Idle, AfterDo
<1>49. CASE NotInstalled(p)
  BY <1>49
    DEF NotInstalled, Leave, trees, journals, metadata, counters, Holds, Carries,
      InstallSteps, UninstallSteps, Rolling, Backing, Idle
<1>50. CASE Prepare(p)
  <2>1. pc'[p] \in {"take", "back_root"}
    BY <1>50 DEF Prepare, Step, Fails
  <2> QED
    BY <2>1 DEF Holds, InstallSteps
<1>51. CASE Take(p)
  BY <1>51, Discarding
    DEF Take, Fails, Step, journals, metadata, locks, Holds, Carries, InstallSteps,
      UninstallSteps, Rolling, Backing, Idle, AfterDo
<1>52. CASE Commit(p)
  BY <1>52, Discarding
    DEF Commit, Fails, Step, trees, metadata, locks, Holds, Carries, InstallSteps,
      UninstallSteps, Rolling, Backing, Idle, AfterDo
<1>53. CASE RemoveConfig(p)
  BY <1>53
    DEF RemoveConfig, Fails, Step, trees, journals, locks, Holds, Carries, InstallSteps,
      UninstallSteps, Rolling, Backing, Idle
<1>54. CASE RemoveLock(p)
  BY <1>54
    DEF RemoveLock, Fails, Step, trees, journals, locks, Holds, Carries, InstallSteps,
      UninstallSteps, Rolling, Backing, Idle
<1>55. CASE RemoveShim(p)
  BY <1>55
    DEF RemoveShim, Step, trees, journals, locks, counters, Holds, Carries, InstallSteps,
      UninstallSteps, Rolling, Backing, Idle
<1>56. CASE ShimsRemoved(p)
  BY <1>56
    DEF ShimsRemoved, Fails, Step, trees, journals, metadata, locks, Holds, Carries,
      InstallSteps, UninstallSteps, Rolling, Backing, Idle
<1>57. CASE Clean(p)
  BY <1>57
    DEF Clean, FailsAndLeaves, Step, Leave, journals, metadata, locks, Holds, Carries,
      InstallSteps, UninstallSteps, Rolling, Backing, Idle
<1>58. CASE Tidy(p)
  BY <1>58
    DEF Tidy, FailsAndLeaves, Leave, trees, metadata, Holds, Carries, InstallSteps,
      UninstallSteps, Rolling, Backing, Idle
<1>59. CASE BackMetadata(p)
  BY <1>59
    DEF BackMetadata, Fails, Step, trees, journals, locks, Holds, Carries, InstallSteps,
      UninstallSteps, Rolling, Backing, Idle
<1>60. CASE BackRoot(p)
  BY <1>60
    DEF BackRoot, RootsBack, Step, Leave, journals, metadata, locks, Holds, Carries,
      InstallSteps, UninstallSteps, Rolling, Backing, Idle
<1>61. CASE BackJournal(p)
  BY <1>61
    DEF BackJournal, RootsBack, Leave, trees, metadata, locks, Holds, Carries,
      InstallSteps, UninstallSteps, Rolling, Backing, Idle
<1>62. CASE BackShim(p)
  BY <1>62
    DEF BackShim, Step, trees, journals, locks, counters, Holds, Carries, InstallSteps,
      UninstallSteps, Rolling, Backing, Idle
<1>63. CASE Back(p)
  BY <1>63
    DEF Back, Leave, trees, journals, metadata, Holds, Carries, InstallSteps,
      UninstallSteps, Rolling, Backing, Idle
<1> QED
  BY <1>1, <1>2, <1>3, <1>4, <1>5, <1>6, <1>7, <1>8, <1>9, <1>10, <1>11, <1>12, <1>13,
     <1>14, <1>15, <1>16, <1>17, <1>18, <1>19, <1>20, <1>21, <1>22, <1>23, <1>24, <1>25,
     <1>26, <1>27, <1>28, <1>29, <1>30, <1>31, <1>32, <1>33, <1>34, <1>35, <1>36, <1>37,
     <1>38, <1>39, <1>40, <1>41, <1>42, <1>43, <1>44, <1>45, <1>46, <1>47, <1>48, <1>49,
     <1>50, <1>51, <1>52, <1>53, <1>54, <1>55, <1>56, <1>57, <1>58, <1>59, <1>60, <1>61,
     <1>62, <1>63 DEF Run, Recovery, Install, Uninstall

\* Every process keeps in step with its locks, whoever takes a step.
LEMMA ControlStep ==
  ASSUME pc \in [Process -> PcType], cmd \in [Process -> CmdType],
         held \in [Version -> Process \cup {None}], state \in Process \cup {None},
         errors \in Nat, \A q \in Process : Control(q),
         NEW p \in Process, Start(p) \/ Kill(p) \/ Run(p)
  PROVE  \A q \in Process : Control(q)'
<1>1. Control(p)'
  <2>1. pc'[p] \in Locked <=> state' = p
    BY StateOwn DEF Control
  <2>2. Holds(p)' => held'[cmd'[p].ver] = p
    BY HeldOwn DEF Control
  <2>3. Carries(p)'
    BY CarriesOwn DEF Control
  <2> QED
    BY <2>1, <2>2, <2>3 DEF Control
<1>2. ASSUME NEW q \in Process \ {p} PROVE Control(q)'
  <2>1. pc'[q] = pc[q] /\ cmd'[q] = cmd[q]
    BY Alone
  <2>2. pc[p] \in {"recover", "undo"} => state = p
    BY StepsLocked DEF Control
  <2>3. state' = q <=> state = q
    BY <2>2, LocksMove
  <2>4. Carries(q)'
    BY <2>1, ErrorsGrow DEF Control, Carries
  <2>5. Holds(q)' => Holds(q)
    BY <2>1 DEF Holds
  <2>6. Holds(q) => cmd[q].ver \in Version /\ held[cmd[q].ver] = q
    BY DEF Control, Carries, Holds, InstallSteps
  <2>7. Holds(q) => held'[cmd[q].ver] = q
    BY <2>2, <2>6, LocksMove
  <2> QED
    BY <2>1, <2>3, <2>4, <2>5, <2>7 DEF Control
<1> QED
  BY <1>1, <1>2

\* The type invariant, by its parts.
LEMMA Typed ==
  TypeOK <=>
    /\ root \in [Version -> Place] /\ backup \in [Version -> Place]
    /\ away \in [Version -> Place]
    /\ promotion \in [Version -> PromotionType] /\ removal \in [Version -> RemovalType]
    /\ config \in Version \cup {None} /\ lock \in Version \cup {None} /\ shims \in SUBSET Name
    /\ held \in [Version -> Process \cup {None}] /\ state \in Process \cup {None}
    /\ pc \in [Process -> PcType] /\ cmd \in [Process -> CmdType]
    /\ promised \in SUBSET Version /\ hollowed \in SUBSET Version
    /\ clashed \in SUBSET Version
    /\ commands \in 0..MaxCommands /\ kills \in 0..MaxKills /\ errors \in 0..MaxErrors
  BY DEF TypeOK, PromotionType, RemovalType, PcType, CmdType, Sections

\* What is there at the beginning.
LEMMA ControlInit ==
  ASSUME Init
  PROVE  TypeOK /\ \A p \in Process : Control(p)
<1>1. TypeOK
  <2>1. root \in [Version -> Place] /\ backup \in [Version -> Place]
        /\ away \in [Version -> Place]
    BY DEF Init, Place
  <2>2. promotion \in [Version -> PromotionType] /\ removal \in [Version -> RemovalType]
        /\ cmd \in [Process -> CmdType]
    BY IdleTyped DEF Init
  <2>3. config \in Version \cup {None} /\ lock \in Version \cup {None}
        /\ promised \in SUBSET Version /\ hollowed \in SUBSET Version
        /\ clashed \in SUBSET Version
    BY DEF Init
  <2>4. shims \in SUBSET Name
    BY <2>3 DEF Init
  <2>5. held \in [Version -> Process \cup {None}] /\ state \in Process \cup {None}
        /\ pc \in [Process -> PcType]
    BY StepsTyped DEF Init
  <2>6. commands \in 0..MaxCommands /\ kills \in 0..MaxKills /\ errors \in 0..MaxErrors
    BY DEF Init
  <2> QED
    BY <2>1, <2>2, <2>3, <2>4, <2>5, <2>6, Typed
<1>2. ASSUME NEW p \in Process PROVE Control(p)
  <2>1. pc[p] = "idle" /\ cmd[p] = Idle /\ state = None
    BY <1>2 DEF Init
  <2>2. Carries(p)
    BY <2>1 DEF Carries, Idle, InstallSteps, UninstallSteps, Rolling, Backing, Staged, Failing
  <2>3. pc[p] \notin Locked /\ ~Holds(p)
    BY <2>1 DEF Locked, InstallSteps, UninstallSteps, Holds
  <2> QED
    BY <2>1, <2>2, <2>3 DEF Control
<1> QED
  BY <1>1, <1>2

\* The types hold and every process keeps in step: both together are inductive.
Orderly == TypeOK /\ \A p \in Process : Control(p)

\* Every step keeps both.
LEMMA OrderlyStep ==
  ASSUME Orderly, NEW p \in Process, Start(p) \/ Kill(p) \/ Run(p), Recalls
  PROVE  Orderly'
<1>1. pc \in [Process -> PcType] /\ cmd \in [Process -> CmdType]
      /\ held \in [Version -> Process \cup {None}] /\ state \in Process \cup {None}
      /\ \A q \in Process : Control(q)
  BY Typed DEF Orderly
<1>2. root \in [Version -> Place] /\ backup \in [Version -> Place]
      /\ away \in [Version -> Place] /\ promotion \in [Version -> PromotionType]
      /\ removal \in [Version -> RemovalType] /\ config \in Version \cup {None}
      /\ lock \in Version \cup {None} /\ shims \in SUBSET Name
  BY Typed DEF Orderly
<1>3. promised \in SUBSET Version /\ commands \in 0..MaxCommands /\ kills \in 0..MaxKills
      /\ errors \in 0..MaxErrors
  BY Typed DEF Orderly
<1>4. errors \in Nat
  BY <1>3
<1>5. cmd[p] \in CmdType /\ (pc[p] # "idle" => cmd[p].ver \in Version)
  BY <1>1 DEF Control, Carries
<1>6. \A q \in Process : Control(q)'
  BY <1>1, <1>4, ControlStep
<1>7. pc' \in [Process -> PcType]
  BY <1>1, PcTyped
<1>8. cmd' \in [Process -> CmdType]
  BY <1>1, <1>2, <1>5, CmdTyped
<1>9. held' \in [Version -> Process \cup {None}] /\ state' \in Process \cup {None}
  BY <1>1, LocksTyped
<1>10. root' \in [Version -> Place] /\ backup' \in [Version -> Place]
       /\ away' \in [Version -> Place]
  BY <1>1, <1>2, <1>5, TreesTyped
<1>11. promotion' \in [Version -> PromotionType] /\ removal' \in [Version -> RemovalType]
  BY <1>2, JournalsTyped
<1>12. config' \in Version \cup {None} /\ lock' \in Version \cup {None}
       /\ shims' \in SUBSET Name
  BY <1>1, <1>2, <1>5, MetadataTyped
<1>13. promised' \in SUBSET Version /\ commands' \in 0..MaxCommands
       /\ kills' \in 0..MaxKills /\ errors' \in 0..MaxErrors
  BY <1>3, <1>5, CountersTyped
<1>14. hollowed' \in SUBSET Version /\ clashed' \in SUBSET Version
  BY Typed DEF Orderly, Recalls
<1>15. TypeOK'
  BY <1>7, <1>8, <1>9, <1>10, <1>11, <1>12, <1>13, <1>14
     DEF TypeOK, PromotionType, RemovalType, PcType, CmdType, Sections
<1> QED
  BY <1>6, <1>15 DEF Orderly

\* A step that changes nothing keeps it.
LEMMA OrderlyStutter ==
  ASSUME Orderly, UNCHANGED vars
  PROVE  Orderly'
<1>1. TypeOK'
  BY DEF Orderly, TypeOK, vars, trees, journals, metadata, locks, counters, history
<1>2. \A p \in Process : Control(p)'
  BY DEF Orderly, Control, Carries, Holds, vars, locks, counters
<1> QED
  BY <1>1, <1>2 DEF Orderly

\* Every reachable state has its types, and its processes are in step with the locks
\* they hold (with_global_npm_state_lock, global_npm_use/install.rs:328).
THEOREM OrderlyAlways == Spec => []Orderly
<1>1. Init => Orderly
  BY ControlInit DEF Orderly
<1>2. Orderly /\ [Next]_vars => Orderly'
  BY OrderlyStep, OrderlyStutter DEF Next
<1> QED
  BY <1>1, <1>2, PTL DEF Spec

\* Every variable of GlobalNpm stays within its type (GlobalNpm!TypeOK).
THEOREM TypeCorrect == Spec => []TypeOK
<1>1. Orderly => TypeOK
  BY DEF Orderly
<1> QED
  BY <1>1, OrderlyAlways, PTL

-----------------------------------------------------------------------------
(* Sections: what a command finds at each step *)

\* What a promotion journal says once its phase has been rewritten.
LEMMA JournalSays ==
  ASSUME promotion \in [Version -> PromotionType], NEW v \in Version, NEW phase
  PROVE  /\ Journal(v, phase)[v].phase = phase
         /\ Journal(v, phase)[v].had = promotion[v].had
         /\ \A u \in Version \ {v} : Journal(v, phase)[u] = promotion[u]
  BY DEF Journal, PromotionType

\* The trees and the promotion journal at each step of p.
LEMMA PromotionOwn ==
  ASSUME pc \in [Process -> PcType], cmd \in [Process -> CmdType],
         root \in [Version -> Place], backup \in [Version -> Place],
         promotion \in [Version -> PromotionType], errors \in Nat, errors' <= 1,
         NEW p \in Process, pc[p] # "idle" => cmd[p].ver \in Version, Carries(p),
         Settling(p) => Unpublished(cmd[p].ver), PromotionSection(p),
         Start(p) \/ Kill(p) \/ Run(p)
  PROVE  PromotionSection(p)'
<1>1. CASE Start(p)
  <2>1. pc'[p] \in {"version", "state"}
    BY <1>1 DEF Start, Step
  <2> QED
    BY <2>1 DEF PromotionSection, Publishing, Rolling
<1>2. CASE TakeVersion(p)
  BY <1>2
    DEF TakeVersion, Step, trees, journals, metadata, counters, PromotionSection, Carries,
      Publishing, Rolling, Staged, Failing, InstallSteps, UninstallSteps, Late, Early,
      Unpublished
<1>3. CASE TakeState(p)
  BY <1>3
    DEF TakeState, Step, trees, journals, metadata, counters, PromotionSection, Carries,
      Publishing, Rolling, Staged, Failing, InstallSteps, UninstallSteps, Late, Early,
      Unpublished
<1>4. CASE Kill(p)
  BY <1>4
    DEF Kill, Leave, trees, journals, metadata, PromotionSection, Carries, Publishing,
      Rolling, Staged, Failing, InstallSteps, UninstallSteps, Late, Early, Unpublished
<1>5. CASE RecoverAside(p)
  <2> DEFINE v == cmd[p].ver
  <2>1. cmd'[p] = AfterAside(cmd[p], root[v])
    BY <1>5, Carrying
  <2>2. /\ pc'[p] = "recover" /\ v \in Version /\ WantsAside(v)
        /\ root' = Put(root, v, "gone") /\ backup' = backup /\ promotion' = promotion
    BY <1>5 DEF RecoverAside, Step, journals
  <2>3. /\ cmd'[p].ver = v /\ root'[v] = "gone" /\ backup'[v] # "gone"
        /\ Early(v)' /\ promotion'[v].had
    BY <2>1, <2>2 DEF AfterAside, WantsAside, Put, Early
  <2> QED
    BY <2>2, <2>3 DEF PromotionSection, Publishing, Rolling
<1>6. CASE RecoverBackup(p)
  BY <1>6
    DEF RecoverBackup, WantsBackup, Put, Step, journals, metadata, locks, counters,
      PromotionSection, Carries, Publishing, Rolling, Staged, Failing, InstallSteps,
      UninstallSteps, Late, Early, Unpublished
<1>7. CASE RecoverClear(p)
  BY <1>7
    DEF RecoverClear, WantsClear, Removed, Put, Step, journals, metadata, locks, counters,
      PromotionSection, Carries, Publishing, Rolling, Staged, Failing, InstallSteps,
      UninstallSteps, Late, Early, Unpublished
<1>8. CASE RecoverDebris(p)
  BY <1>8
    DEF RecoverDebris, Settled, Removed, Put, Step, WantsBackup, WantsAside, WantsClear,
      Lost, journals, metadata, locks, counters, PromotionSection, Carries, Publishing,
      Rolling, Staged, Failing, InstallSteps, UninstallSteps, Late, Early, Unpublished
<1>9. CASE RecoverJournal(p)
  BY <1>9
    DEF RecoverJournal, Settled, Step, NoPromotion, WantsBackup, WantsAside, WantsClear,
      Lost, trees, metadata, locks, counters, PromotionSection, Carries, Publishing,
      Rolling, Staged, Failing, InstallSteps, UninstallSteps, Late, Early, Unpublished
<1>10. CASE Recovered(p)
  BY <1>10
    DEF Recovered, Settled, Step, WantsBackup, WantsAside, WantsClear, Lost, trees,
      journals, metadata, counters, PromotionSection, Carries, Publishing, Rolling,
      Staged, Failing, InstallSteps, UninstallSteps, Late, Early, Unpublished
<1>11. CASE RecoverFails(p)
  BY <1>11
    DEF RecoverFails, FailsAndLeaves, Put, Leave, journals, metadata, PromotionSection,
      Carries, Publishing, Rolling, Staged, Failing, InstallSteps, UninstallSteps, Late,
      Early, Unpublished
<1>12. CASE Refuse(p)
  BY <1>12
    DEF Refuse, Lost, Leave, trees, journals, metadata, counters, PromotionSection,
      Carries, Publishing, Rolling, Staged, Failing, InstallSteps, UninstallSteps, Late,
      Early, Unpublished
<1>13. CASE UndoRoot(p)
  <2>1. pc'[p] \in {"undo"}
    BY <1>13 DEF UndoRoot, Undoing
  <2> QED
    BY <2>1 DEF PromotionSection, Publishing, Rolling
<1>14. CASE UndoShim(p)
  BY <1>14
    DEF UndoShim, trees, journals, locks, counters, PromotionSection, Carries, Publishing,
      Rolling, Staged, Failing, InstallSteps, UninstallSteps, Late, Early, Unpublished
<1>15. CASE CompleteConfig(p)
  BY <1>15
    DEF CompleteConfig, trees, journals, locks, counters, PromotionSection, Carries,
      Publishing, Rolling, Staged, Failing, InstallSteps, UninstallSteps, Late, Early,
      Unpublished
<1>16. CASE CompleteLock(p)
  BY <1>16
    DEF CompleteLock, trees, journals, locks, counters, PromotionSection, Carries,
      Publishing, Rolling, Staged, Failing, InstallSteps, UninstallSteps, Late, Early,
      Unpublished
<1>17. CASE CompleteShim(p)
  BY <1>17
    DEF CompleteShim, trees, journals, locks, counters, PromotionSection, Carries,
      Publishing, Rolling, Staged, Failing, InstallSteps, UninstallSteps, Late, Early,
      Unpublished
<1>18. CASE CompleteRoot(p)
  BY <1>18
    DEF CompleteRoot, Removed, Put, journals, metadata, locks, counters, PromotionSection,
      Carries, Publishing, Rolling, Staged, Failing, InstallSteps, UninstallSteps, Late,
      Early, Unpublished
<1>19. CASE UndoJournal(p)
  BY <1>19
    DEF UndoJournal, trees, metadata, locks, counters, PromotionSection, Carries,
      Publishing, Rolling, Staged, Failing, InstallSteps, UninstallSteps, Late, Early,
      Unpublished
<1>20. CASE UndoRefuses(p)
  BY <1>20
    DEF UndoRefuses, Leave, trees, journals, metadata, counters, PromotionSection, Carries,
      Publishing, Rolling, Staged, Failing, InstallSteps, UninstallSteps, Late, Early,
      Unpublished
<1>21. CASE UndoFails(p)
  BY <1>21
    DEF UndoFails, FailsAndLeaves, Leave, trees, journals, metadata, PromotionSection,
      Carries, Publishing, Rolling, Staged, Failing, InstallSteps, UninstallSteps, Late,
      Early, Unpublished
<1>22. CASE Undone(p)
  BY <1>22
    DEF Undone, Step, trees, journals, metadata, counters, PromotionSection, Carries,
      Publishing, Rolling, Staged, Failing, InstallSteps, UninstallSteps, Late, Early,
      Unpublished
<1>23. CASE Reuse(p)
  BY <1>23, Carrying
    DEF Reuse, Passes, Step, trees, journals, metadata, locks, counters, PromotionSection,
      Carries, Publishing, Rolling, Staged, Failing, InstallSteps, UninstallSteps, Late,
      Early, Unpublished, AfterDo
<1>24. CASE Stage(p)
  BY <1>24, Carrying
    DEF Stage, Step, trees, journals, metadata, locks, counters, PromotionSection, Carries,
      Publishing, Rolling, Staged, Failing, InstallSteps, UninstallSteps, Late, Early,
      Unpublished, AfterStage
<1>25. CASE StageFails(p)
  BY <1>25
    DEF StageFails, FailsAndLeaves, Leave, trees, journals, metadata, PromotionSection,
      Carries, Publishing, Rolling, Staged, Failing, InstallSteps, UninstallSteps, Late,
      Early, Unpublished
<1>26. CASE ReuseIsGone(p)
  BY <1>26
    DEF ReuseIsGone, Leave, trees, journals, metadata, counters, PromotionSection, Carries,
      Publishing, Rolling, Staged, Failing, InstallSteps, UninstallSteps, Late, Early,
      Unpublished
<1>27. CASE Open(p)
  <2> DEFINE v == cmd[p].ver
             had == root[v] # "gone"
             announced == [promotion EXCEPT ![v] = [phase |-> "prepared", had |-> had]]
  <2>1. cmd'[p] = AfterCapture(cmd[p], cmd[p].do, config, lock, root[v])
    BY <1>27, Carrying
  <2>2. /\ cmd'[p].ver = v /\ cmd'[p].old = root[v] /\ cmd'[p].new = cmd[p].new
        /\ cmd'[p].aside = cmd[p].aside /\ cmd'[p].tries = cmd[p].tries
    BY <2>1 DEF AfterCapture
  <2>3. /\ pc[p] = "open" /\ v \in Version /\ root' = root /\ backup' = backup
        /\ cmd[p].new # "gone" \/ had
    BY <1>27 DEF Open, Step, Fails, trees
  <2>4. \/ cmd[p].new = "gone" /\ pc'[p] = "shim" /\ promotion' = promotion
        \/ /\ cmd[p].new # "gone" /\ pc'[p] = (IF had THEN "move" ELSE "place")
           /\ promotion' = announced
        \/ cmd[p].new # "gone" /\ pc'[p] = "drop" /\ promotion' \in {promotion, announced}
    BY <1>27 DEF Open, Step, Fails
  <2>5. announced[v].phase = "prepared" /\ (announced[v].had <=> had)
    BY <2>3
  <2> HIDE DEF announced
  <2>6. Unpublished(v)
    BY <2>3 DEF Settling
  <2> QED
    BY <2>2, <2>3, <2>4, <2>5, <2>6
      DEF PromotionSection, Carries, Publishing, Rolling, Staged, Failing, InstallSteps,
          UninstallSteps, Late, Early, Unpublished
<1>28. CASE MoveOld(p)
  BY <1>28
    DEF MoveOld, Fails, Put, Step, journals, metadata, locks, PromotionSection, Carries,
      Publishing, Rolling, Staged, Failing, InstallSteps, UninstallSteps, Late, Early,
      Unpublished
<1>29. CASE OldMoved(p)
  <2> DEFINE v == cmd[p].ver
  <2>1. pc[p] = "moved" /\ v \in Version /\ cmd' = cmd /\ root' = root /\ backup' = backup
    BY <1>29 DEF OldMoved, Step, Fails, trees
  <2>2. \/ /\ pc'[p] \in {"place"}
           /\ promotion' = Journal(v, "old_moved") /\ errors' = errors
        \/ /\ pc'[p] = "drop" /\ errors' = errors + 1
           /\ promotion' \in {promotion, Journal(v, "old_moved")}
    BY <1>29 DEF OldMoved, Step, Fails
  <2>3. promotion' = Journal(v, "old_moved") =>
          promotion'[v].phase = "old_moved" /\ promotion'[v].had = promotion[v].had
    BY <2>1, JournalSays
  <2> QED
    BY <2>1, <2>2, <2>3
      DEF PromotionSection, Carries, Publishing, Rolling, Staged, Failing, InstallSteps,
          UninstallSteps, Late, Early, Unpublished
<1>30. CASE PlaceNew(p)
  BY <1>30
    DEF PlaceNew, Fails, Put, Step, journals, metadata, locks, PromotionSection, Carries,
      Publishing, Rolling, Staged, Failing, InstallSteps, UninstallSteps, Late, Early,
      Unpublished
<1>31. CASE NewPromoted(p)
  <2> DEFINE v == cmd[p].ver
  <2>1. pc[p] = "placed" /\ v \in Version /\ cmd' = cmd /\ root' = root /\ backup' = backup
    BY <1>31 DEF NewPromoted, Step, Fails, trees
  <2>2. \/ /\ pc'[p] \in {"validate"}
           /\ promotion' = Journal(v, "new_promoted") /\ errors' = errors
        \/ /\ pc'[p] = "unplace" /\ errors' = errors + 1
           /\ promotion' \in {promotion, Journal(v, "new_promoted")}
    BY <1>31 DEF NewPromoted, Step, Fails
  <2>3. promotion' = Journal(v, "new_promoted") =>
          promotion'[v].phase = "new_promoted" /\ promotion'[v].had = promotion[v].had
    BY <2>1, JournalSays
  <2> QED
    BY <2>1, <2>2, <2>3
      DEF PromotionSection, Carries, Publishing, Rolling, Staged, Failing, InstallSteps,
          UninstallSteps, Late, Early, Unpublished
<1>32. CASE Unplace(p)
  BY <1>32
    DEF Unplace, Fails, Put, Step, journals, metadata, locks, PromotionSection, Carries,
      Publishing, Rolling, Staged, Failing, InstallSteps, UninstallSteps, Late, Early,
      Unpublished
<1>33. CASE DropBackup(p)
  BY <1>33
    DEF DropBackup, FailsAndLeaves, Put, Leave, journals, metadata, locks,
      PromotionSection, Carries, Publishing, Rolling, Staged, Failing, InstallSteps,
      UninstallSteps, Late, Early, Unpublished
<1>34. CASE DropJournal(p)
  BY <1>34
    DEF DropJournal, FailsAndLeaves, Leave, NoPromotion, trees, metadata, PromotionSection,
      Carries, Publishing, Rolling, Staged, Failing, InstallSteps, UninstallSteps, Late,
      Early, Unpublished
<1>35. CASE Validate(p)
  BY <1>35, Discarding
    DEF Validate, Passes, Fails, Step, trees, journals, metadata, locks, PromotionSection,
      Carries, Publishing, Rolling, Staged, Failing, InstallSteps, UninstallSteps, Late,
      Early, Unpublished, AfterDo
<1>36. CASE GenerateShim(p)
  BY <1>36
    DEF GenerateShim, Step, trees, journals, locks, counters, PromotionSection, Carries,
      Publishing, Rolling, Staged, Failing, InstallSteps, UninstallSteps, Late, Early,
      Unpublished
<1>37. CASE Generated(p)
  BY <1>37
    DEF Generated, Step, trees, journals, metadata, locks, counters, PromotionSection,
      Carries, Publishing, Rolling, Staged, Failing, InstallSteps, UninstallSteps, Late,
      Early, Unpublished
<1>38. CASE PersistConfig(p)
  BY <1>38
    DEF PersistConfig, Fails, Step, trees, journals, locks, PromotionSection, Carries,
      Publishing, Rolling, Staged, Failing, InstallSteps, UninstallSteps, Late, Early,
      Unpublished
<1>39. CASE PersistLock(p)
  BY <1>39
    DEF PersistLock, Fails, Step, trees, journals, locks, PromotionSection, Carries,
      Publishing, Rolling, Staged, Failing, InstallSteps, UninstallSteps, Late, Early,
      Unpublished
<1>40. CASE RemoveStale(p)
  BY <1>40
    DEF RemoveStale, Step, trees, journals, locks, counters, PromotionSection, Carries,
      Publishing, Rolling, Staged, Failing, InstallSteps, UninstallSteps, Late, Early,
      Unpublished
<1>41. CASE Published(p)
  BY <1>41
    DEF Published, Step, Leave, trees, journals, metadata, locks, counters,
      PromotionSection, Carries, Publishing, Rolling, Staged, Failing, InstallSteps,
      UninstallSteps, Late, Early, Unpublished
<1>42. CASE ShimFails(p)
  BY <1>42
    DEF ShimFails, Fails, Step, trees, journals, metadata, locks, PromotionSection,
      Carries, Publishing, Rolling, Staged, Failing, InstallSteps, UninstallSteps, Late,
      Early, Unpublished
<1>43. CASE Activate(p)
  <2> DEFINE v == cmd[p].ver
  <2>1. pc[p] = "activate" /\ v \in Version /\ cmd' = cmd /\ root' = root /\ backup' = backup
    BY <1>43 DEF Activate, Step, Fails, trees
  <2>2. \/ /\ pc'[p] \in {"finish", "cleared"}
           /\ promotion' = Journal(v, "activated") /\ errors' = errors
        \/ /\ pc'[p] = "relock" /\ errors' = errors + 1
           /\ promotion' \in {promotion, Journal(v, "activated")}
    BY <1>43 DEF Activate, Step, Fails
  <2>3. promotion' = Journal(v, "activated") =>
          promotion'[v].phase = "activated" /\ promotion'[v].had = promotion[v].had
    BY <2>1, JournalSays
  <2> QED
    BY <2>1, <2>2, <2>3
      DEF PromotionSection, Carries, Publishing, Rolling, Staged, Failing, InstallSteps,
          UninstallSteps, Late, Early, Unpublished
<1>44. CASE Finish(p)
  BY <1>44
    DEF Finish, Fails, Removed, Put, Step, journals, metadata, locks, PromotionSection,
      Carries, Publishing, Rolling, Staged, Failing, InstallSteps, UninstallSteps, Late,
      Early, Unpublished
<1>45. CASE Cleared(p)
  BY <1>45
    DEF Cleared, FailsAndLeaves, Leave, NoPromotion, trees, metadata, PromotionSection,
      Carries, Publishing, Rolling, Staged, Failing, InstallSteps, UninstallSteps, Late,
      Early, Unpublished
<1>46. CASE Relock(p)
  BY <1>46
    DEF Relock, Fails, Step, trees, journals, locks, PromotionSection, Carries, Publishing,
      Rolling, Staged, Failing, InstallSteps, UninstallSteps, Late, Early, Unpublished
<1>47. CASE Repin(p)
  BY <1>47
    DEF Repin, Repinned, Fails, Step, trees, journals, locks, PromotionSection, Carries,
      Publishing, Rolling, Staged, Failing, InstallSteps, UninstallSteps, Late, Early,
      Unpublished
<1>48. CASE Rollback(p)
  <2> DEFINE v == cmd[p].ver
  <2>1. pc[p] = "rollback" /\ v \in Version
    BY <1>48 DEF Rollback, Step
  <2>2. \/ /\ root[v] # "gone" /\ root' = Put(root, v, "gone") /\ cmd' = cmd
           /\ pc'[p] = (IF cmd[p].old # "gone" THEN "restore" ELSE "unjournal")
           /\ backup' = backup /\ promotion' = promotion
        \/ root[v] = "gone" \/ errors' = errors + 1
    BY <1>48 DEF Rollback, Step, journals, trees
  <2>3. errors' # errors + 1
    BY <2>1 DEF Carries, Failing
  <2>4. ~(root[v] = "gone")
    BY <2>1, ConstantsAssumption DEF PromotionSection, Carries, Staged, Rolling
  <2>5. cmd[p].tries = 0
    BY <2>1 DEF PromotionSection, Rolling
  <2> QED
    BY <2>1, <2>2, <2>3, <2>4, <2>5
      DEF PromotionSection, Publishing, Rolling, Late, Early, Put
<1>49. CASE Restore(p)
  <2> DEFINE v == cmd[p].ver
  <2>1. pc[p] = "restore" /\ v \in Version
    BY <1>49 DEF Restore, Step
  <2>2. \/ /\ root' = Put(root, v, backup[v]) /\ backup' = Put(backup, v, "gone")
           /\ cmd' = cmd /\ pc'[p] = "unjournal" /\ promotion' = promotion
        \/ backup[v] = "gone" \/ errors' = errors + 1
    BY <1>49 DEF Restore, Step, journals, trees
  <2>3. errors' # errors + 1
    BY <2>1 DEF Carries, Failing
  <2>4. ~(backup[v] = "gone")
    BY <2>1, ConstantsAssumption DEF PromotionSection, Carries, Staged, Rolling
  <2>5. cmd[p].tries = 0
    BY <2>1 DEF PromotionSection, Rolling
  <2> QED
    BY <2>1, <2>2, <2>3, <2>4, <2>5
      DEF PromotionSection, Publishing, Rolling, Late, Early, Put
<1>50. CASE Unjournal(p)
  <2> DEFINE v == cmd[p].ver
  <2>1. pc[p] = "unjournal" /\ v \in Version
    BY <1>50 DEF Unjournal, Step
  <2>2. \/ /\ promotion' = [promotion EXCEPT ![v] = NoPromotion] /\ RollbackEnds(p, TRUE)
           /\ root' = root /\ backup' = backup
        \/ errors' = errors + 1
    BY <1>50 DEF Unjournal, Step, journals, trees
  <2>3. errors' # errors + 1
    BY <2>1 DEF Carries, Failing
  <2>4. /\ promotion' = [promotion EXCEPT ![v] = NoPromotion]
        /\ root' = root /\ backup' = backup
    BY <2>2, <2>3
  <2>10. RollbackEnds(p, TRUE)
    BY <2>2, <2>3
  <2>11. \/ Leave(p)
         \/ /\ pc' = [pc EXCEPT ![p] = "reconcile"]
            /\ cmd' = [cmd EXCEPT ![p] = AfterTries(cmd[p], 2)]
    BY <2>10, RollingBack, Zenon
  <2>5. cmd[p].tries = 0
    BY <2>1 DEF PromotionSection, Rolling
  <2>6. \/ pc'[p] = "idle"
        \/ cmd'[p] = AfterTries(cmd[p], 2) /\ pc'[p] = "reconcile"
    BY <2>11 DEF Leave
  <2>7. promotion'[v].phase = "none"
    BY <2>1, <2>4 DEF NoPromotion
  <2>8. CASE pc'[p] = "idle"
    BY <2>8 DEF PromotionSection, Publishing, Rolling
  <2>9. CASE cmd'[p] = AfterTries(cmd[p], 2) /\ pc'[p] = "reconcile"
    <3>1. cmd'[p].ver = v /\ cmd'[p].old = cmd[p].old /\ cmd'[p].tries = 2
      BY <2>9 DEF AfterTries
    <3>3. root[v] = cmd[p].old /\ backup[v] = "gone"
      BY <2>1 DEF PromotionSection
    <3> QED
      BY <2>7, <2>9, <2>4, <3>1, <3>3 DEF PromotionSection, Publishing, Rolling, Unpublished
  <2> QED
    BY <2>6, <2>8, <2>9
<1>51. CASE Reconcile(p)
  BY <1>51
    DEF Reconcile, Step, trees, journals, locks, counters, PromotionSection, Carries,
      Publishing, Rolling, Staged, Failing, InstallSteps, UninstallSteps, Late, Early,
      Unpublished
<1>52. CASE Reconciled(p)
  BY <1>52
    DEF Reconciled, Step, Leave, trees, journals, metadata, locks, PromotionSection,
      Carries, Publishing, Rolling, Staged, Failing, InstallSteps, UninstallSteps, Late,
      Early, Unpublished
<1>53. CASE Select(p)
  BY <1>53, Discarding
    DEF Select, Passes, Step, Leave, trees, journals, metadata, locks, counters,
      PromotionSection, Carries, Publishing, Rolling, Staged, Failing, InstallSteps,
      UninstallSteps, Late, Early, Unpublished, AfterDo
<1>54. CASE NotInstalled(p)
  BY <1>54
    DEF NotInstalled, Passes, Leave, trees, journals, metadata, counters, PromotionSection,
      Carries, Publishing, Rolling, Staged, Failing, InstallSteps, UninstallSteps, Late,
      Early, Unpublished
<1>55. CASE Prepare(p)
  <2>1. pc'[p] \in {"take", "back_root"}
    BY <1>55 DEF Prepare, Step, Fails
  <2> QED
    BY <2>1 DEF PromotionSection, Publishing, Rolling
<1>56. CASE Take(p)
  BY <1>56, Discarding
    DEF Take, Fails, Put, Step, journals, metadata, locks, PromotionSection, Carries,
      Publishing, Rolling, Staged, Failing, InstallSteps, UninstallSteps, Late, Early,
      Unpublished, AfterDo
<1>57. CASE Commit(p)
  BY <1>57, Discarding
    DEF Commit, Fails, Step, trees, metadata, locks, PromotionSection, Carries, Publishing,
      Rolling, Staged, Failing, InstallSteps, UninstallSteps, Late, Early, Unpublished,
      AfterDo
<1>58. CASE RemoveConfig(p)
  BY <1>58
    DEF RemoveConfig, Fails, Step, trees, journals, locks, PromotionSection, Carries,
      Publishing, Rolling, Staged, Failing, InstallSteps, UninstallSteps, Late, Early,
      Unpublished
<1>59. CASE RemoveLock(p)
  BY <1>59
    DEF RemoveLock, Fails, Step, trees, journals, locks, PromotionSection, Carries,
      Publishing, Rolling, Staged, Failing, InstallSteps, UninstallSteps, Late, Early,
      Unpublished
<1>60. CASE RemoveShim(p)
  BY <1>60
    DEF RemoveShim, Step, trees, journals, locks, counters, PromotionSection, Carries,
      Publishing, Rolling, Staged, Failing, InstallSteps, UninstallSteps, Late, Early,
      Unpublished
<1>61. CASE ShimsRemoved(p)
  BY <1>61
    DEF ShimsRemoved, Fails, Step, trees, journals, metadata, locks, PromotionSection,
      Carries, Publishing, Rolling, Staged, Failing, InstallSteps, UninstallSteps, Late,
      Early, Unpublished
<1>62. CASE Clean(p)
  BY <1>62
    DEF Clean, FailsAndLeaves, Removed, Put, Step, Leave, journals, metadata, locks,
      PromotionSection, Carries, Publishing, Rolling, Staged, Failing, InstallSteps,
      UninstallSteps, Late, Early, Unpublished
<1>63. CASE Tidy(p)
  BY <1>63
    DEF Tidy, FailsAndLeaves, Leave, trees, metadata, PromotionSection, Carries,
      Publishing, Rolling, Staged, Failing, InstallSteps, UninstallSteps, Late, Early,
      Unpublished
<1>64. CASE BackMetadata(p)
  BY <1>64
    DEF BackMetadata, Fails, Step, trees, journals, locks, PromotionSection, Carries,
      Publishing, Rolling, Staged, Failing, InstallSteps, UninstallSteps, Late, Early,
      Unpublished
<1>65. CASE BackRoot(p)
  BY <1>65
    DEF BackRoot, RootsBack, Put, Step, Leave, journals, metadata, locks, PromotionSection,
      Carries, Publishing, Rolling, Staged, Failing, InstallSteps, UninstallSteps, Late,
      Early, Unpublished
<1>66. CASE BackJournal(p)
  BY <1>66
    DEF BackJournal, RootsBack, Leave, trees, metadata, locks, PromotionSection, Carries,
      Publishing, Rolling, Staged, Failing, InstallSteps, UninstallSteps, Late, Early,
      Unpublished
<1>67. CASE BackShim(p)
  BY <1>67
    DEF BackShim, Step, trees, journals, locks, counters, PromotionSection, Carries,
      Publishing, Rolling, Staged, Failing, InstallSteps, UninstallSteps, Late, Early,
      Unpublished
<1>68. CASE Back(p)
  BY <1>68
    DEF Back, Leave, trees, journals, metadata, PromotionSection, Carries, Publishing,
      Rolling, Staged, Failing, InstallSteps, UninstallSteps, Late, Early, Unpublished
<1> QED
  BY <1>1, <1>2, <1>3, <1>4, <1>5, <1>6, <1>7, <1>8, <1>9, <1>10, <1>11, <1>12, <1>13,
     <1>14, <1>15, <1>16, <1>17, <1>18, <1>19, <1>20, <1>21, <1>22, <1>23, <1>24, <1>25,
     <1>26, <1>27, <1>28, <1>29, <1>30, <1>31, <1>32, <1>33, <1>34, <1>35, <1>36, <1>37,
     <1>38, <1>39, <1>40, <1>41, <1>42, <1>43, <1>44, <1>45, <1>46, <1>47, <1>48, <1>49,
     <1>50, <1>51, <1>52, <1>53, <1>54, <1>55, <1>56, <1>57, <1>58, <1>59, <1>60, <1>61,
     <1>62, <1>63, <1>64, <1>65, <1>66, <1>67, <1>68 DEF Run, Recovery, Install, Uninstall

\* Config and lock at each step of p.
LEMMA MetadataOwn ==
  ASSUME pc \in [Process -> PcType], cmd \in [Process -> CmdType],
         errors \in Nat, errors' <= 1,
         NEW p \in Process, pc[p] # "idle" => cmd[p].ver \in Version, Carries(p),
         MetadataSection(p), Start(p) \/ Kill(p) \/ Run(p)
  PROVE  MetadataSection(p)'
<1>1. CASE Start(p)
  <2>1. pc'[p] \in {"version", "state"}
    BY <1>1 DEF Start, Step
  <2> QED
    BY <2>1 DEF MetadataSection
<1>2. CASE TakeVersion(p)
  BY <1>2 DEF TakeVersion, Step, metadata, counters, MetadataSection, Carries, Failing
<1>3. CASE TakeState(p)
  BY <1>3 DEF TakeState, Step, metadata, counters, MetadataSection, Carries, Failing
<1>4. CASE Kill(p)
  BY <1>4 DEF Kill, Leave, metadata, MetadataSection, Carries, Failing
<1>5. CASE RecoverAside(p)
  <2>1. pc'[p] \in {"recover"}
    BY <1>5 DEF RecoverAside, Step
  <2> QED
    BY <2>1 DEF MetadataSection
<1>6. CASE RecoverBackup(p)
  BY <1>6
    DEF RecoverBackup, Step, metadata, locks, counters, MetadataSection, Carries, Failing
<1>7. CASE RecoverClear(p)
  BY <1>7
    DEF RecoverClear, Step, metadata, locks, counters, MetadataSection, Carries, Failing
<1>8. CASE RecoverDebris(p)
  BY <1>8
    DEF RecoverDebris, Step, metadata, locks, counters, MetadataSection, Carries, Failing
<1>9. CASE RecoverJournal(p)
  BY <1>9
    DEF RecoverJournal, Step, metadata, locks, counters, MetadataSection, Carries, Failing
<1>10. CASE Recovered(p)
  BY <1>10 DEF Recovered, Step, metadata, counters, MetadataSection, Carries, Failing
<1>11. CASE RecoverFails(p)
  BY <1>11
    DEF RecoverFails, FailsAndLeaves, Leave, metadata, MetadataSection, Carries, Failing
<1>12. CASE Refuse(p)
  BY <1>12 DEF Refuse, Leave, metadata, counters, MetadataSection, Carries, Failing
<1>13. CASE UndoRoot(p)
  BY <1>13 DEF UndoRoot, metadata, locks, counters, MetadataSection, Carries, Failing
<1>14. CASE UndoShim(p)
  <2>1. pc'[p] \in {"undo"}
    BY <1>14 DEF UndoShim, Undoing
  <2> QED
    BY <2>1 DEF MetadataSection
<1>15. CASE CompleteConfig(p)
  <2>1. pc'[p] \in {"undo"}
    BY <1>15 DEF CompleteConfig, Completing
  <2> QED
    BY <2>1 DEF MetadataSection
<1>16. CASE CompleteLock(p)
  <2>1. pc'[p] \in {"undo"}
    BY <1>16 DEF CompleteLock, Completing
  <2> QED
    BY <2>1 DEF MetadataSection
<1>17. CASE CompleteShim(p)
  BY <1>17 DEF CompleteShim, locks, counters, MetadataSection, Carries, Failing
<1>18. CASE CompleteRoot(p)
  BY <1>18 DEF CompleteRoot, metadata, locks, counters, MetadataSection, Carries, Failing
<1>19. CASE UndoJournal(p)
  BY <1>19 DEF UndoJournal, metadata, locks, counters, MetadataSection, Carries, Failing
<1>20. CASE UndoRefuses(p)
  BY <1>20 DEF UndoRefuses, Leave, metadata, counters, MetadataSection, Carries, Failing
<1>21. CASE UndoFails(p)
  BY <1>21 DEF UndoFails, FailsAndLeaves, Leave, metadata, MetadataSection, Carries, Failing
<1>22. CASE Undone(p)
  BY <1>22 DEF Undone, Step, metadata, counters, MetadataSection, Carries, Failing
<1>23. CASE Reuse(p)
  <2>1. pc'[p] \in {"state"}
    BY <1>23 DEF Reuse, Step
  <2> QED
    BY <2>1 DEF MetadataSection
<1>24. CASE Stage(p)
  <2>1. pc'[p] \in {"state"}
    BY <1>24 DEF Stage, Step
  <2> QED
    BY <2>1 DEF MetadataSection
<1>25. CASE StageFails(p)
  BY <1>25 DEF StageFails, FailsAndLeaves, Leave, metadata, MetadataSection, Carries, Failing
<1>26. CASE ReuseIsGone(p)
  BY <1>26 DEF ReuseIsGone, Leave, metadata, counters, MetadataSection, Carries, Failing
<1>27. CASE Open(p)
  <2>1. cmd'[p] = AfterCapture(cmd[p], cmd[p].do, config, lock, root[cmd[p].ver])
    BY <1>27, Carrying
  <2>2. /\ cmd'[p].config = config /\ cmd'[p].lock = lock
        /\ config' = config /\ lock' = lock /\ pc'[p] \in {"shim", "move", "place", "drop"}
    BY <1>27, <2>1 DEF Open, AfterCapture, Step, Fails, metadata
  <2> QED
    BY <2>2 DEF MetadataSection
<1>28. CASE MoveOld(p)
  BY <1>28 DEF MoveOld, Fails, Step, metadata, locks, MetadataSection, Carries, Failing
<1>29. CASE OldMoved(p)
  BY <1>29 DEF OldMoved, Fails, Step, metadata, locks, MetadataSection, Carries, Failing
<1>30. CASE PlaceNew(p)
  BY <1>30 DEF PlaceNew, Fails, Step, metadata, locks, MetadataSection, Carries, Failing
<1>31. CASE NewPromoted(p)
  BY <1>31 DEF NewPromoted, Fails, Step, metadata, locks, MetadataSection, Carries, Failing
<1>32. CASE Unplace(p)
  BY <1>32 DEF Unplace, Fails, Step, metadata, locks, MetadataSection, Carries, Failing
<1>33. CASE DropBackup(p)
  BY <1>33
    DEF DropBackup, FailsAndLeaves, Leave, metadata, locks, MetadataSection, Carries,
      Failing
<1>34. CASE DropJournal(p)
  BY <1>34
    DEF DropJournal, FailsAndLeaves, Leave, metadata, MetadataSection, Carries, Failing
<1>35. CASE Validate(p)
  BY <1>35, Discarding
    DEF Validate, Fails, Step, metadata, locks, MetadataSection, Carries, Failing, AfterDo
<1>36. CASE GenerateShim(p)
  BY <1>36 DEF GenerateShim, Step, locks, counters, MetadataSection, Carries, Failing
<1>37. CASE Generated(p)
  BY <1>37 DEF Generated, Step, metadata, locks, counters, MetadataSection, Carries, Failing
<1>38. CASE PersistConfig(p)
  BY <1>38 DEF PersistConfig, Fails, Step, locks, MetadataSection, Carries, Failing
<1>39. CASE PersistLock(p)
  BY <1>39 DEF PersistLock, Fails, Step, locks, MetadataSection, Carries, Failing
<1>40. CASE RemoveStale(p)
  BY <1>40 DEF RemoveStale, Step, locks, counters, MetadataSection, Carries, Failing
<1>41. CASE Published(p)
  BY <1>41
    DEF Published, Step, Leave, metadata, locks, counters, MetadataSection, Carries, Failing
<1>42. CASE ShimFails(p)
  BY <1>42 DEF ShimFails, Fails, Step, metadata, locks, MetadataSection, Carries, Failing
<1>43. CASE Activate(p)
  BY <1>43 DEF Activate, Fails, Step, metadata, locks, MetadataSection, Carries, Failing
<1>44. CASE Finish(p)
  BY <1>44 DEF Finish, Fails, Step, metadata, locks, MetadataSection, Carries, Failing
<1>45. CASE Cleared(p)
  BY <1>45 DEF Cleared, FailsAndLeaves, Leave, metadata, MetadataSection, Carries, Failing
<1>46. CASE Relock(p)
  BY <1>46 DEF Relock, Fails, Step, locks, MetadataSection, Carries, Failing
<1>47. CASE Repin(p)
  BY <1>47 DEF Repin, Repinned, Fails, Step, locks, MetadataSection, Carries, Failing
<1>48. CASE Rollback(p)
  <2>1. pc[p] = "rollback" /\ config' = config /\ lock' = lock
    BY <1>48 DEF Rollback, Step, metadata
  <2>2. \/ cmd' = cmd /\ pc'[p] \in {"restore", "unjournal"}
        \/ RollbackEnds(p, TRUE) \/ RollbackEnds(p, FALSE)
    BY <1>48 DEF Rollback, Step
  <2>3. \/ cmd' = cmd /\ pc'[p] \in {"restore", "unjournal"}
        \/ Leave(p)
        \/ /\ pc' = [pc EXCEPT ![p] = IF cmd[p].do = "discard" THEN "rollback"
                                      ELSE "reconcile"]
           /\ cmd' = [cmd EXCEPT ![p] = AfterTries(cmd[p], 1)]
        \/ /\ pc' = [pc EXCEPT ![p] = "reconcile"]
           /\ cmd' = [cmd EXCEPT ![p] = AfterTries(cmd[p], 2)]
    BY <2>2, RollingBack, Zenon
  <2>4. \/ pc'[p] = "idle"
        \/ /\ pc'[p] \in {"restore", "unjournal", "rollback", "reconcile"}
           /\ cmd'[p].config = cmd[p].config /\ cmd'[p].lock = cmd[p].lock
    BY <2>3 DEF Leave, AfterTries
  <2> QED
    BY <2>1, <2>4 DEF MetadataSection
<1>49. CASE Restore(p)
  <2>1. pc[p] = "restore" /\ config' = config /\ lock' = lock
    BY <1>49 DEF Restore, Step, metadata
  <2>2. \/ cmd' = cmd /\ pc'[p] \in {"restore", "unjournal"}
        \/ RollbackEnds(p, TRUE) \/ RollbackEnds(p, FALSE)
    BY <1>49 DEF Restore, Step
  <2>3. \/ cmd' = cmd /\ pc'[p] \in {"restore", "unjournal"}
        \/ Leave(p)
        \/ /\ pc' = [pc EXCEPT ![p] = IF cmd[p].do = "discard" THEN "rollback"
                                      ELSE "reconcile"]
           /\ cmd' = [cmd EXCEPT ![p] = AfterTries(cmd[p], 1)]
        \/ /\ pc' = [pc EXCEPT ![p] = "reconcile"]
           /\ cmd' = [cmd EXCEPT ![p] = AfterTries(cmd[p], 2)]
    BY <2>2, RollingBack, Zenon
  <2>4. \/ pc'[p] = "idle"
        \/ /\ pc'[p] \in {"restore", "unjournal", "rollback", "reconcile"}
           /\ cmd'[p].config = cmd[p].config /\ cmd'[p].lock = cmd[p].lock
    BY <2>3 DEF Leave, AfterTries
  <2> QED
    BY <2>1, <2>4 DEF MetadataSection
<1>50. CASE Unjournal(p)
  <2>1. pc[p] = "unjournal" /\ config' = config /\ lock' = lock
    BY <1>50 DEF Unjournal, Step, metadata
  <2>2. \/ cmd' = cmd /\ pc'[p] \in {"restore", "unjournal"}
        \/ RollbackEnds(p, TRUE) \/ RollbackEnds(p, FALSE)
    BY <1>50 DEF Unjournal, Step
  <2>3. \/ cmd' = cmd /\ pc'[p] \in {"restore", "unjournal"}
        \/ Leave(p)
        \/ /\ pc' = [pc EXCEPT ![p] = IF cmd[p].do = "discard" THEN "rollback"
                                      ELSE "reconcile"]
           /\ cmd' = [cmd EXCEPT ![p] = AfterTries(cmd[p], 1)]
        \/ /\ pc' = [pc EXCEPT ![p] = "reconcile"]
           /\ cmd' = [cmd EXCEPT ![p] = AfterTries(cmd[p], 2)]
    BY <2>2, RollingBack, Zenon
  <2>4. \/ pc'[p] = "idle"
        \/ /\ pc'[p] \in {"restore", "unjournal", "rollback", "reconcile"}
           /\ cmd'[p].config = cmd[p].config /\ cmd'[p].lock = cmd[p].lock
    BY <2>3 DEF Leave, AfterTries
  <2> QED
    BY <2>1, <2>4 DEF MetadataSection
<1>51. CASE Reconcile(p)
  BY <1>51 DEF Reconcile, Step, locks, counters, MetadataSection, Carries, Failing
<1>52. CASE Reconciled(p)
  BY <1>52 DEF Reconciled, Step, Leave, metadata, locks, MetadataSection, Carries, Failing
<1>53. CASE Select(p)
  <2>1. pc'[p] \in {"state", "idle"}
    BY <1>53 DEF Select, Step, Leave
  <2> QED
    BY <2>1 DEF MetadataSection
<1>54. CASE NotInstalled(p)
  BY <1>54 DEF NotInstalled, Leave, metadata, counters, MetadataSection, Carries, Failing
<1>55. CASE Prepare(p)
  <2> DEFINE d == IF errors' = errors THEN "remove" ELSE "discard"
  <2>1. cmd'[p] = AfterCapture(cmd[p], d, config, lock, root[cmd[p].ver])
    BY <1>55, Carrying
  <2> HIDE DEF d
  <2>2. /\ cmd'[p].config = config /\ cmd'[p].lock = lock
        /\ config' = config /\ lock' = lock /\ pc'[p] \in {"take", "back_root"}
    BY <1>55, <2>1 DEF Prepare, AfterCapture, Step, Fails, metadata
  <2> QED
    BY <2>2 DEF MetadataSection
<1>56. CASE Take(p)
  BY <1>56, Discarding
    DEF Take, Fails, Step, metadata, locks, MetadataSection, Carries, Failing, AfterDo
<1>57. CASE Commit(p)
  BY <1>57, Discarding
    DEF Commit, Fails, Step, metadata, locks, MetadataSection, Carries, Failing, AfterDo
<1>58. CASE RemoveConfig(p)
  BY <1>58 DEF RemoveConfig, Fails, Step, locks, MetadataSection, Carries, Failing
<1>59. CASE RemoveLock(p)
  BY <1>59 DEF RemoveLock, Fails, Step, locks, MetadataSection, Carries, Failing
<1>60. CASE RemoveShim(p)
  BY <1>60 DEF RemoveShim, Step, locks, counters, MetadataSection, Carries, Failing
<1>61. CASE ShimsRemoved(p)
  BY <1>61 DEF ShimsRemoved, Fails, Step, metadata, locks, MetadataSection, Carries, Failing
<1>62. CASE Clean(p)
  BY <1>62
    DEF Clean, FailsAndLeaves, Step, Leave, metadata, locks, MetadataSection, Carries,
      Failing
<1>63. CASE Tidy(p)
  BY <1>63 DEF Tidy, FailsAndLeaves, Leave, metadata, MetadataSection, Carries, Failing
<1>64. CASE BackMetadata(p)
  BY <1>64 DEF BackMetadata, Fails, Step, locks, MetadataSection, Carries, Failing
<1>65. CASE BackRoot(p)
  BY <1>65
    DEF BackRoot, RootsBack, Step, Leave, metadata, locks, MetadataSection, Carries, Failing
<1>66. CASE BackJournal(p)
  BY <1>66
    DEF BackJournal, RootsBack, Leave, metadata, locks, MetadataSection, Carries, Failing
<1>67. CASE BackShim(p)
  BY <1>67 DEF BackShim, Step, locks, counters, MetadataSection, Carries, Failing
<1>68. CASE Back(p)
  BY <1>68 DEF Back, Leave, metadata, MetadataSection, Carries, Failing
<1> QED
  BY <1>1, <1>2, <1>3, <1>4, <1>5, <1>6, <1>7, <1>8, <1>9, <1>10, <1>11, <1>12, <1>13,
     <1>14, <1>15, <1>16, <1>17, <1>18, <1>19, <1>20, <1>21, <1>22, <1>23, <1>24, <1>25,
     <1>26, <1>27, <1>28, <1>29, <1>30, <1>31, <1>32, <1>33, <1>34, <1>35, <1>36, <1>37,
     <1>38, <1>39, <1>40, <1>41, <1>42, <1>43, <1>44, <1>45, <1>46, <1>47, <1>48, <1>49,
     <1>50, <1>51, <1>52, <1>53, <1>54, <1>55, <1>56, <1>57, <1>58, <1>59, <1>60, <1>61,
     <1>62, <1>63, <1>64, <1>65, <1>66, <1>67, <1>68 DEF Run, Recovery, Install, Uninstall

\* What the journal of an uninstall says once it is committed.
LEMMA CommittedSays ==
  ASSUME removal \in [Version -> RemovalType], NEW v \in Version
  PROVE  LET committed == [removal EXCEPT ![v].phase = "committed"] IN
         /\ committed[v].phase = "committed"
         /\ committed[v].config = removal[v].config /\ committed[v].lock = removal[v].lock
         /\ \A u \in Version \ {v} : committed[u] = removal[u]
  BY DEF RemovalType

\* The steps of an uninstall are not those of a publication.
LEMMA RemovalSteps ==
  /\ Opened = {"move", "moved", "place", "placed", "unplace", "drop", "validate", "shim", "pin",
               "record", "stale", "activate", "finish", "cleared", "relock", "relocked", "repin",
               "repinned", "rollback", "restore", "unjournal", "reconcile"}
  /\ Removing = {"take", "commit", "unpin", "unrecord", "unshim", "clean", "tidy", "back_lock",
                 "back_pin", "back_root", "back_journal", "back_shim"}
  BY DEF Opened, Removing, InstallSteps, UninstallSteps

\* The trees and the journals of uninstalls at each step of p.
LEMMA RemovalOwn ==
  ASSUME pc \in [Process -> PcType], cmd \in [Process -> CmdType],
         root \in [Version -> Place], away \in [Version -> Place],
         removal \in [Version -> RemovalType], errors \in Nat, errors' <= 1,
         NEW p \in Process, pc[p] # "idle" => cmd[p].ver \in Version, Carries(p), Removals,
         RemovalSection(p), Start(p) \/ Kill(p) \/ Run(p)
  PROVE  RemovalSection(p)'
<1>1. CASE Start(p)
  <2>1. pc'[p] \in {"version", "state"}
    BY <1>1 DEF Start, Step
  <2> QED
    BY <2>1 DEF RemovalSection, Opened, Removing, InstallSteps, UninstallSteps
<1>2. CASE TakeVersion(p)
  BY <1>2
    DEF TakeVersion, Step, trees, journals, counters, RemovalSection, Opened, Removing,
      InstallSteps, UninstallSteps
<1>3. CASE TakeState(p)
  BY <1>3
    DEF TakeState, Step, trees, journals, counters, RemovalSection, Opened, Removing,
      InstallSteps, UninstallSteps
<1>4. CASE Kill(p)
  BY <1>4
    DEF Kill, Leave, trees, journals, RemovalSection, Opened, Removing, InstallSteps,
      UninstallSteps
<1>5. CASE RecoverAside(p)
  BY <1>5, Carrying
    DEF RecoverAside, Put, Step, journals, locks, counters, RemovalSection, Opened,
      Removing, InstallSteps, UninstallSteps, AfterAside
<1>6. CASE RecoverBackup(p)
  BY <1>6
    DEF RecoverBackup, Put, Step, journals, locks, counters, RemovalSection, Opened,
      Removing, InstallSteps, UninstallSteps
<1>7. CASE RecoverClear(p)
  BY <1>7
    DEF RecoverClear, Put, Step, journals, locks, counters, RemovalSection, Opened,
      Removing, InstallSteps, UninstallSteps
<1>8. CASE RecoverDebris(p)
  BY <1>8
    DEF RecoverDebris, Put, Step, journals, locks, counters, RemovalSection, Opened,
      Removing, InstallSteps, UninstallSteps
<1>9. CASE RecoverJournal(p)
  BY <1>9
    DEF RecoverJournal, Step, trees, locks, counters, RemovalSection, Opened, Removing,
      InstallSteps, UninstallSteps
<1>10. CASE Recovered(p)
  BY <1>10
    DEF Recovered, Step, trees, journals, counters, RemovalSection, Opened, Removing,
      InstallSteps, UninstallSteps
<1>11. CASE RecoverFails(p)
  BY <1>11
    DEF RecoverFails, FailsAndLeaves, Put, Leave, journals, RemovalSection, Opened,
      Removing, InstallSteps, UninstallSteps
<1>12. CASE Refuse(p)
  BY <1>12
    DEF Refuse, Leave, trees, journals, counters, RemovalSection, Opened, Removing,
      InstallSteps, UninstallSteps
<1>13. CASE UndoRoot(p)
  BY <1>13
    DEF UndoRoot, Undoing, Put, journals, locks, counters, RemovalSection, Opened,
      Removing, InstallSteps, UninstallSteps
<1>14. CASE UndoShim(p)
  BY <1>14
    DEF UndoShim, Undoing, trees, journals, locks, counters, RemovalSection, Opened,
      Removing, InstallSteps, UninstallSteps
<1>15. CASE CompleteConfig(p)
  BY <1>15
    DEF CompleteConfig, Completing, trees, journals, locks, counters, RemovalSection,
      Opened, Removing, InstallSteps, UninstallSteps
<1>16. CASE CompleteLock(p)
  BY <1>16
    DEF CompleteLock, Completing, trees, journals, locks, counters, RemovalSection, Opened,
      Removing, InstallSteps, UninstallSteps
<1>17. CASE CompleteShim(p)
  BY <1>17
    DEF CompleteShim, Completing, trees, journals, locks, counters, RemovalSection, Opened,
      Removing, InstallSteps, UninstallSteps
<1>18. CASE CompleteRoot(p)
  BY <1>18
    DEF CompleteRoot, Completing, Put, journals, locks, counters, RemovalSection, Opened,
      Removing, InstallSteps, UninstallSteps
<1>19. CASE UndoJournal(p)
  BY <1>19
    DEF UndoJournal, Undoing, Completing, NoRemoval, trees, locks, counters,
      RemovalSection, Opened, Removing, InstallSteps, UninstallSteps
<1>20. CASE UndoRefuses(p)
  BY <1>20
    DEF UndoRefuses, Undoing, Leave, trees, journals, counters, RemovalSection, Opened,
      Removing, InstallSteps, UninstallSteps
<1>21. CASE UndoFails(p)
  BY <1>21
    DEF UndoFails, FailsAndLeaves, Leave, trees, journals, RemovalSection, Opened,
      Removing, InstallSteps, UninstallSteps
<1>22. CASE Undone(p)
  BY <1>22
    DEF Undone, Step, trees, journals, counters, RemovalSection, Opened, Removing,
      InstallSteps, UninstallSteps
<1>23. CASE Reuse(p)
  BY <1>23, Carrying
    DEF Reuse, Step, trees, journals, locks, counters, RemovalSection, Opened, Removing,
      InstallSteps, UninstallSteps, AfterDo
<1>24. CASE Stage(p)
  BY <1>24, Carrying
    DEF Stage, Step, trees, journals, locks, counters, RemovalSection, Opened, Removing,
      InstallSteps, UninstallSteps, AfterStage
<1>25. CASE StageFails(p)
  BY <1>25
    DEF StageFails, FailsAndLeaves, Leave, trees, journals, RemovalSection, Opened,
      Removing, InstallSteps, UninstallSteps
<1>26. CASE ReuseIsGone(p)
  BY <1>26
    DEF ReuseIsGone, Leave, trees, journals, counters, RemovalSection, Opened, Removing,
      InstallSteps, UninstallSteps
<1>27. CASE Open(p)
  <2>1. pc[p] = "open" /\ pc'[p] \in {"shim", "move", "place", "drop"} /\ removal' = removal
    BY <1>27 DEF Open, Step, Fails
  <2> QED
    BY <2>1, RemovalSteps DEF RemovalSection
<1>28. CASE MoveOld(p)
  BY <1>28
    DEF MoveOld, Fails, Put, Step, journals, locks, RemovalSection, Opened, Removing,
      InstallSteps, UninstallSteps
<1>29. CASE OldMoved(p)
  BY <1>29
    DEF OldMoved, Fails, Step, trees, locks, RemovalSection, Opened, Removing,
      InstallSteps, UninstallSteps
<1>30. CASE PlaceNew(p)
  BY <1>30
    DEF PlaceNew, Fails, Put, Step, journals, locks, RemovalSection, Opened, Removing,
      InstallSteps, UninstallSteps
<1>31. CASE NewPromoted(p)
  BY <1>31
    DEF NewPromoted, Fails, Step, trees, locks, RemovalSection, Opened, Removing,
      InstallSteps, UninstallSteps
<1>32. CASE Unplace(p)
  BY <1>32
    DEF Unplace, Fails, Put, Step, journals, locks, RemovalSection, Opened, Removing,
      InstallSteps, UninstallSteps
<1>33. CASE DropBackup(p)
  BY <1>33
    DEF DropBackup, FailsAndLeaves, Put, Leave, journals, locks, RemovalSection, Opened,
      Removing, InstallSteps, UninstallSteps
<1>34. CASE DropJournal(p)
  BY <1>34
    DEF DropJournal, FailsAndLeaves, Leave, trees, RemovalSection, Opened, Removing,
      InstallSteps, UninstallSteps
<1>35. CASE Validate(p)
  BY <1>35, Discarding
    DEF Validate, Fails, Step, trees, journals, locks, RemovalSection, Opened, Removing,
      InstallSteps, UninstallSteps, AfterDo
<1>36. CASE GenerateShim(p)
  BY <1>36
    DEF GenerateShim, Step, trees, journals, locks, counters, RemovalSection, Opened,
      Removing, InstallSteps, UninstallSteps
<1>37. CASE Generated(p)
  BY <1>37
    DEF Generated, Step, trees, journals, locks, counters, RemovalSection, Opened,
      Removing, InstallSteps, UninstallSteps
<1>38. CASE PersistConfig(p)
  BY <1>38
    DEF PersistConfig, Fails, Step, trees, journals, locks, RemovalSection, Opened,
      Removing, InstallSteps, UninstallSteps
<1>39. CASE PersistLock(p)
  BY <1>39
    DEF PersistLock, Fails, Step, trees, journals, locks, RemovalSection, Opened, Removing,
      InstallSteps, UninstallSteps
<1>40. CASE RemoveStale(p)
  BY <1>40
    DEF RemoveStale, Step, trees, journals, locks, counters, RemovalSection, Opened,
      Removing, InstallSteps, UninstallSteps
<1>41. CASE Published(p)
  BY <1>41
    DEF Published, Step, Leave, trees, journals, locks, counters, RemovalSection, Opened,
      Removing, InstallSteps, UninstallSteps
<1>42. CASE ShimFails(p)
  BY <1>42
    DEF ShimFails, Fails, Step, trees, journals, locks, RemovalSection, Opened, Removing,
      InstallSteps, UninstallSteps
<1>43. CASE Activate(p)
  BY <1>43
    DEF Activate, Fails, Step, trees, locks, RemovalSection, Opened, Removing,
      InstallSteps, UninstallSteps
<1>44. CASE Finish(p)
  BY <1>44
    DEF Finish, Fails, Put, Step, journals, locks, RemovalSection, Opened, Removing,
      InstallSteps, UninstallSteps
<1>45. CASE Cleared(p)
  BY <1>45
    DEF Cleared, FailsAndLeaves, Leave, trees, RemovalSection, Opened, Removing,
      InstallSteps, UninstallSteps
<1>46. CASE Relock(p)
  BY <1>46
    DEF Relock, Fails, Step, trees, journals, locks, RemovalSection, Opened, Removing,
      InstallSteps, UninstallSteps
<1>47. CASE Repin(p)
  BY <1>47
    DEF Repin, Repinned, Fails, Step, trees, journals, locks, RemovalSection, Opened,
      Removing, InstallSteps, UninstallSteps
<1>48. CASE Rollback(p)
  <2>1. pc[p] = "rollback" /\ removal' = removal
    BY <1>48 DEF Rollback, Step, journals
  <2>2. \/ pc'[p] \in {"restore", "unjournal"}
        \/ RollbackEnds(p, TRUE) \/ RollbackEnds(p, FALSE)
    BY <1>48 DEF Rollback, Step
  <2>3. \/ pc'[p] \in {"restore", "unjournal"}
        \/ Leave(p)
        \/ pc' = [pc EXCEPT ![p] = IF cmd[p].do = "discard" THEN "rollback" ELSE "reconcile"]
        \/ pc' = [pc EXCEPT ![p] = "reconcile"]
    BY <2>2, RollingBack, Zenon
  <2>4. pc'[p] \in {"idle", "restore", "unjournal", "rollback", "reconcile"}
    BY <2>3 DEF Leave
  <2> QED
    BY <2>1, <2>4, RemovalSteps DEF RemovalSection
<1>49. CASE Restore(p)
  <2>1. pc[p] = "restore" /\ removal' = removal
    BY <1>49 DEF Restore, Step, journals
  <2>2. \/ pc'[p] \in {"restore", "unjournal"}
        \/ RollbackEnds(p, TRUE) \/ RollbackEnds(p, FALSE)
    BY <1>49 DEF Restore, Step
  <2>3. \/ pc'[p] \in {"restore", "unjournal"}
        \/ Leave(p)
        \/ pc' = [pc EXCEPT ![p] = IF cmd[p].do = "discard" THEN "rollback" ELSE "reconcile"]
        \/ pc' = [pc EXCEPT ![p] = "reconcile"]
    BY <2>2, RollingBack, Zenon
  <2>4. pc'[p] \in {"idle", "restore", "unjournal", "rollback", "reconcile"}
    BY <2>3 DEF Leave
  <2> QED
    BY <2>1, <2>4, RemovalSteps DEF RemovalSection
<1>50. CASE Unjournal(p)
  <2>1. pc[p] = "unjournal" /\ removal' = removal
    BY <1>50 DEF Unjournal, Step, journals
  <2>2. \/ pc'[p] \in {"restore", "unjournal"}
        \/ RollbackEnds(p, TRUE) \/ RollbackEnds(p, FALSE)
    BY <1>50 DEF Unjournal, Step
  <2>3. \/ pc'[p] \in {"restore", "unjournal"}
        \/ Leave(p)
        \/ pc' = [pc EXCEPT ![p] = IF cmd[p].do = "discard" THEN "rollback" ELSE "reconcile"]
        \/ pc' = [pc EXCEPT ![p] = "reconcile"]
    BY <2>2, RollingBack, Zenon
  <2>4. pc'[p] \in {"idle", "restore", "unjournal", "rollback", "reconcile"}
    BY <2>3 DEF Leave
  <2> QED
    BY <2>1, <2>4, RemovalSteps DEF RemovalSection
<1>51. CASE Reconcile(p)
  BY <1>51
    DEF Reconcile, Step, trees, journals, locks, counters, RemovalSection, Opened,
      Removing, InstallSteps, UninstallSteps
<1>52. CASE Reconciled(p)
  BY <1>52
    DEF Reconciled, Step, Leave, trees, journals, locks, RemovalSection, Opened, Removing,
      InstallSteps, UninstallSteps
<1>53. CASE Select(p)
  BY <1>53, Discarding
    DEF Select, Step, Leave, trees, journals, locks, counters, RemovalSection, Opened,
      Removing, InstallSteps, UninstallSteps, Carries, Failing
<1>54. CASE NotInstalled(p)
  BY <1>54
    DEF NotInstalled, Leave, trees, journals, counters, RemovalSection, Opened, Removing,
      InstallSteps, UninstallSteps, Carries, Failing
<1>55. CASE Prepare(p)
  <2> DEFINE v == cmd[p].ver
             begun == [removal EXCEPT ![v] = [phase |-> "moving", config |-> config = v,
                                              lock |-> lock = v]]
             d == IF errors' = errors THEN "remove" ELSE "discard"
  <2>1. cmd'[p] = AfterCapture(cmd[p], d, config, lock, root[v])
    BY <1>55, Carrying
  <2> HIDE DEF d
  <2>2. /\ cmd'[p].ver = v /\ cmd'[p].old = root[v]
        /\ cmd'[p].config = config /\ cmd'[p].lock = lock
    BY <2>1 DEF AfterCapture
  <2>3. /\ pc[p] = "prepare" /\ v \in Version /\ Passes(root[v])
        /\ root' = root /\ away' = away
        /\ \/ pc'[p] = "take" /\ removal' = begun
           \/ pc'[p] = "back_root" /\ removal' \in {removal, begun}
    BY <1>55 DEF Prepare, Step, Fails, trees
  <2>4. /\ begun[v].phase = "moving"
        /\ (begun[v].config <=> config = v) /\ (begun[v].lock <=> lock = v)
        /\ \A u \in Version \ {v} : begun[u] = removal[u]
    BY <2>3
  <2> HIDE DEF begun
  <2>5. /\ \A u \in Version : removal[u].phase = "none"
        /\ away[v] = "gone"
    BY <2>3 DEF RemovalSection, Removals
  <2>6. CASE pc'[p] = "take"
    BY <2>2, <2>3, <2>4, <2>5, <2>6, RemovalSteps DEF RemovalSection, Passes
  <2>7. CASE pc'[p] = "back_root"
    BY <2>2, <2>3, <2>4, <2>5, <2>7, RemovalSteps DEF RemovalSection, Passes
  <2> QED
    BY <2>3, <2>6, <2>7
<1>56. CASE Take(p)
  <2> DEFINE v == cmd[p].ver
  <2>1. pc[p] = "take" /\ v \in Version /\ removal' = removal
    BY <1>56 DEF Take, Step, Fails, journals
  <2>2. \/ /\ pc'[p] = "commit" /\ cmd' = cmd
           /\ away' = Put(away, v, root[v]) /\ root' = Put(root, v, "gone")
        \/ /\ pc'[p] = "back_root" /\ root' = root /\ away' = away
           /\ cmd' = [cmd EXCEPT ![p] = AfterDo(cmd[p], "discard")]
    BY <1>56, Discarding DEF Take, Step, Fails
  <2>3. /\ cmd'[p].ver = v /\ cmd'[p].old = cmd[p].old
        /\ cmd'[p].config = cmd[p].config /\ cmd'[p].lock = cmd[p].lock
    BY <2>2 DEF AfterDo
  <2>4. CASE pc'[p] = "commit"
    BY <2>1, <2>2, <2>3, <2>4, RemovalSteps DEF RemovalSection, Put, Passes
  <2>5. CASE pc'[p] = "back_root"
    BY <2>1, <2>2, <2>3, <2>5, RemovalSteps DEF RemovalSection, Passes
  <2> QED
    BY <2>2, <2>4, <2>5
<1>57. CASE Commit(p)
  <2> DEFINE v == cmd[p].ver
             committed == [removal EXCEPT ![v].phase = "committed"]
  <2>1. pc[p] = "commit" /\ v \in Version /\ root' = root /\ away' = away
    BY <1>57 DEF Commit, Step, Fails, trees
  <2>2. \/ pc'[p] = "unpin" /\ cmd' = cmd /\ removal' = committed
        \/ /\ pc'[p] = "back_root" /\ removal' \in {removal, committed}
           /\ cmd' = [cmd EXCEPT ![p] = AfterDo(cmd[p], "discard")]
    BY <1>57, Discarding DEF Commit, Step, Fails
  <2>3. /\ cmd'[p].ver = v /\ cmd'[p].old = cmd[p].old
        /\ cmd'[p].config = cmd[p].config /\ cmd'[p].lock = cmd[p].lock
    BY <2>2 DEF AfterDo
  <2>4. /\ committed[v].phase = "committed"
        /\ committed[v].config = removal[v].config /\ committed[v].lock = removal[v].lock
        /\ \A u \in Version \ {v} : committed[u] = removal[u]
    BY <2>1, CommittedSays
  <2> HIDE DEF committed
  <2>5. CASE pc'[p] = "unpin"
    BY <2>1, <2>2, <2>3, <2>4, <2>5, RemovalSteps DEF RemovalSection, Passes
  <2>6. CASE pc'[p] = "back_root"
    BY <2>1, <2>2, <2>3, <2>4, <2>6, RemovalSteps DEF RemovalSection, Passes
  <2> QED
    BY <2>2, <2>5, <2>6
<1>58. CASE RemoveConfig(p)
  BY <1>58
    DEF RemoveConfig, Fails, Step, trees, journals, locks, RemovalSection, Opened,
      Removing, InstallSteps, UninstallSteps, Carries, Failing
<1>59. CASE RemoveLock(p)
  BY <1>59
    DEF RemoveLock, Fails, Step, trees, journals, locks, RemovalSection, Opened, Removing,
      InstallSteps, UninstallSteps, Carries, Failing
<1>60. CASE RemoveShim(p)
  BY <1>60
    DEF RemoveShim, Step, trees, journals, locks, counters, RemovalSection, Opened,
      Removing, InstallSteps, UninstallSteps, Carries, Failing
<1>61. CASE ShimsRemoved(p)
  BY <1>61
    DEF ShimsRemoved, Fails, Step, trees, journals, locks, RemovalSection, Opened,
      Removing, InstallSteps, UninstallSteps, Carries, Failing
<1>62. CASE Clean(p)
  BY <1>62
    DEF Clean, FailsAndLeaves, Put, Step, Leave, journals, locks, RemovalSection, Opened,
      Removing, InstallSteps, UninstallSteps, Carries, Failing
<1>63. CASE Tidy(p)
  BY <1>63
    DEF Tidy, FailsAndLeaves, Leave, NoRemoval, trees, RemovalSection, Opened, Removing,
      InstallSteps, UninstallSteps, Carries, Failing
<1>64. CASE BackMetadata(p)
  BY <1>64
    DEF BackMetadata, Fails, Step, trees, journals, locks, RemovalSection, Opened,
      Removing, InstallSteps, UninstallSteps, Carries, Failing
<1>65. CASE BackRoot(p)
  BY <1>65
    DEF BackRoot, RootsBack, Put, Step, Leave, journals, locks, RemovalSection, Opened,
      Removing, InstallSteps, UninstallSteps, Carries, Failing
<1>66. CASE BackJournal(p)
  BY <1>66
    DEF BackJournal, RootsBack, NoRemoval, Leave, trees, locks, RemovalSection, Opened,
      Removing, InstallSteps, UninstallSteps, Carries, Failing
<1>67. CASE BackShim(p)
  BY <1>67
    DEF BackShim, Step, trees, journals, locks, counters, RemovalSection, Opened, Removing,
      InstallSteps, UninstallSteps, Carries, Failing
<1>68. CASE Back(p)
  BY <1>68
    DEF Back, Leave, trees, journals, RemovalSection, Opened, Removing, InstallSteps,
      UninstallSteps, Carries, Failing
<1> QED
  BY <1>1, <1>2, <1>3, <1>4, <1>5, <1>6, <1>7, <1>8, <1>9, <1>10, <1>11, <1>12, <1>13,
     <1>14, <1>15, <1>16, <1>17, <1>18, <1>19, <1>20, <1>21, <1>22, <1>23, <1>24, <1>25,
     <1>26, <1>27, <1>28, <1>29, <1>30, <1>31, <1>32, <1>33, <1>34, <1>35, <1>36, <1>37,
     <1>38, <1>39, <1>40, <1>41, <1>42, <1>43, <1>44, <1>45, <1>46, <1>47, <1>48, <1>49,
     <1>50, <1>51, <1>52, <1>53, <1>54, <1>55, <1>56, <1>57, <1>58, <1>59, <1>60, <1>61,
     <1>62, <1>63, <1>64, <1>65, <1>66, <1>67, <1>68 DEF Run, Recovery, Install, Uninstall

-----------------------------------------------------------------------------
(* All sections together *)

\* No tree stays away, and no promotion is remembered, without a journal.
LEMMA RemovalsOwn ==
  ASSUME pc \in [Process -> PcType], cmd \in [Process -> CmdType],
         root \in [Version -> Place], away \in [Version -> Place],
         promotion \in [Version -> PromotionType], removal \in [Version -> RemovalType],
         errors \in Nat, errors' <= 1,
         NEW p \in Process, pc[p] # "idle" => cmd[p].ver \in Version, Carries(p), Removals,
         RemovalSection(p), Start(p) \/ Kill(p) \/ Run(p)
  PROVE  Removals'
<1>1. CASE Start(p) \/ TakeVersion(p) \/ TakeState(p) \/ Kill(p) \/ RecoverAside(p)
           \/ RecoverBackup(p)
  BY <1>1
    DEF Start, TakeVersion, TakeState, Kill, RecoverAside, RecoverBackup, trees, journals,
      Removals
<1>2. CASE RecoverClear(p) \/ RecoverDebris(p) \/ Recovered(p) \/ RecoverFails(p)
           \/ Refuse(p) \/ UndoShim(p)
  BY <1>2
    DEF RecoverClear, RecoverDebris, Recovered, RecoverFails, Refuse, UndoShim, trees,
      journals, Removals
<1>3. CASE CompleteConfig(p) \/ CompleteLock(p) \/ CompleteShim(p) \/ UndoRefuses(p)
           \/ UndoFails(p) \/ Undone(p)
  BY <1>3
    DEF CompleteConfig, CompleteLock, CompleteShim, UndoRefuses, UndoFails, Undone, trees,
      journals, Removals
<1>4. CASE Reuse(p) \/ Stage(p) \/ StageFails(p) \/ ReuseIsGone(p) \/ MoveOld(p)
           \/ PlaceNew(p)
  BY <1>4
    DEF Reuse, Stage, StageFails, ReuseIsGone, MoveOld, PlaceNew, trees, journals, Removals
<1>5. CASE Unplace(p) \/ DropBackup(p) \/ Validate(p) \/ GenerateShim(p) \/ Generated(p)
           \/ PersistConfig(p)
  BY <1>5
    DEF Unplace, DropBackup, Validate, GenerateShim, Generated, PersistConfig, trees,
      journals, Removals
<1>6. CASE PersistLock(p) \/ RemoveStale(p) \/ Published(p) \/ ShimFails(p) \/ Finish(p)
           \/ Relock(p)
  BY <1>6
    DEF PersistLock, RemoveStale, Published, ShimFails, Finish, Relock, trees, journals,
      Removals
<1>7. CASE Repin(p) \/ Rollback(p) \/ Restore(p) \/ Reconcile(p) \/ Reconciled(p)
           \/ Select(p)
  BY <1>7
    DEF Repin, Rollback, Restore, Reconcile, Reconciled, Select, trees, journals, Removals
<1>8. CASE NotInstalled(p) \/ RemoveConfig(p) \/ RemoveLock(p) \/ RemoveShim(p)
           \/ ShimsRemoved(p) \/ BackMetadata(p)
  BY <1>8
    DEF NotInstalled, RemoveConfig, RemoveLock, RemoveShim, ShimsRemoved, BackMetadata,
      trees, journals, Removals
<1>9. CASE BackShim(p) \/ Back(p)
  BY <1>9 DEF BackShim, Back, trees, journals, Removals
<1>10. CASE RecoverJournal(p)
  BY <1>10, RemovalSteps
    DEF RecoverJournal, Step, NoPromotion, trees, locks, counters, Removals,
      RemovalSection, Carries, Failing
<1>11. CASE UndoRoot(p)
  BY <1>11, RemovalSteps
    DEF UndoRoot, Undoing, Put, journals, locks, counters, Removals, RemovalSection,
      Carries, Failing
<1>12. CASE CompleteRoot(p)
  BY <1>12, RemovalSteps
    DEF CompleteRoot, Completing, Put, journals, locks, counters, Removals, RemovalSection,
      Carries, Failing
<1>13. CASE UndoJournal(p)
  BY <1>13, RemovalSteps
    DEF UndoJournal, Undoing, Completing, NoRemoval, trees, locks, counters, Removals,
      RemovalSection, Carries, Failing
<1>14. CASE Open(p)
  <2> DEFINE v == cmd[p].ver
             announced == [promotion EXCEPT ![v] = [phase |-> "prepared",
                                                    had |-> root[v] # "gone"]]
  <2>1. /\ v \in Version /\ promotion' \in {promotion, announced}
        /\ removal' = removal /\ away' = away
    BY <1>14 DEF Open, Step, Fails, trees
  <2>2. announced[v].phase # "none" /\ \A u \in Version \ {v} : announced[u] = promotion[u]
    BY <2>1
  <2> HIDE DEF announced
  <2> QED
    BY <2>1, <2>2 DEF Removals
<1>15. CASE OldMoved(p)
  <2> DEFINE v == cmd[p].ver
  <2>1. /\ v \in Version /\ promotion' \in {promotion, Journal(v, "old_moved")}
        /\ removal' = removal /\ away' = away
    BY <1>15 DEF OldMoved, Step, Fails, trees
  <2>2. /\ Journal(v, "old_moved")[v].phase # "none"
        /\ \A u \in Version \ {v} : Journal(v, "old_moved")[u] = promotion[u]
    BY <2>1, JournalSays
  <2> QED
    BY <2>1, <2>2 DEF Removals
<1>16. CASE NewPromoted(p)
  <2> DEFINE v == cmd[p].ver
  <2>1. /\ v \in Version /\ promotion' \in {promotion, Journal(v, "new_promoted")}
        /\ removal' = removal /\ away' = away
    BY <1>16 DEF NewPromoted, Step, Fails, trees
  <2>2. /\ Journal(v, "new_promoted")[v].phase # "none"
        /\ \A u \in Version \ {v} : Journal(v, "new_promoted")[u] = promotion[u]
    BY <2>1, JournalSays
  <2> QED
    BY <2>1, <2>2 DEF Removals
<1>17. CASE DropJournal(p)
  BY <1>17, RemovalSteps
    DEF DropJournal, FailsAndLeaves, Leave, NoPromotion, trees, Removals, RemovalSection,
      Carries, Failing
<1>18. CASE Activate(p)
  <2> DEFINE v == cmd[p].ver
  <2>1. /\ v \in Version /\ promotion' \in {promotion, Journal(v, "activated")}
        /\ removal' = removal /\ away' = away
    BY <1>18 DEF Activate, Step, Fails, trees
  <2>2. /\ Journal(v, "activated")[v].phase # "none"
        /\ \A u \in Version \ {v} : Journal(v, "activated")[u] = promotion[u]
    BY <2>1, JournalSays
  <2> QED
    BY <2>1, <2>2 DEF Removals
<1>19. CASE Cleared(p)
  BY <1>19, RemovalSteps
    DEF Cleared, FailsAndLeaves, Leave, NoPromotion, trees, Removals, RemovalSection,
      Carries, Failing
<1>20. CASE Unjournal(p)
  <2>1. /\ promotion' \in {promotion, [promotion EXCEPT ![cmd[p].ver] = NoPromotion]}
        /\ removal' = removal /\ away' = away
    BY <1>20 DEF Unjournal, trees
  <2> QED
    BY <2>1 DEF Removals, NoPromotion
<1>21. CASE Prepare(p)
  <2> DEFINE v == cmd[p].ver
             begun == [removal EXCEPT ![v] = [phase |-> "moving", config |-> config = v,
                                              lock |-> lock = v]]
  <2>1. /\ v \in Version /\ removal' \in {removal, begun}
        /\ promotion' = promotion /\ away' = away
    BY <1>21 DEF Prepare, Step, Fails, trees
  <2>2. begun[v].phase # "none" /\ \A u \in Version \ {v} : begun[u] = removal[u]
    BY <2>1
  <2> HIDE DEF begun
  <2> QED
    BY <2>1, <2>2 DEF Removals
<1>22. CASE Take(p)
  BY <1>22, RemovalSteps
    DEF Take, Fails, Put, Step, journals, locks, Removals, RemovalSection, Carries, Failing
<1>23. CASE Commit(p)
  <2> DEFINE v == cmd[p].ver
             committed == [removal EXCEPT ![v].phase = "committed"]
  <2>1. /\ v \in Version /\ removal' \in {removal, committed}
        /\ promotion' = promotion /\ away' = away
    BY <1>23 DEF Commit, Step, Fails, trees
  <2>2. committed[v].phase # "none" /\ \A u \in Version \ {v} : committed[u] = removal[u]
    BY <2>1, CommittedSays
  <2> HIDE DEF committed
  <2> QED
    BY <2>1, <2>2 DEF Removals
<1>24. CASE Clean(p)
  BY <1>24, RemovalSteps
    DEF Clean, FailsAndLeaves, Put, Step, Leave, journals, locks, Removals, RemovalSection,
      Carries, Failing
<1>25. CASE Tidy(p)
  BY <1>25, RemovalSteps
    DEF Tidy, FailsAndLeaves, Leave, NoRemoval, trees, Removals, RemovalSection, Carries,
      Failing
<1>26. CASE BackRoot(p)
  BY <1>26, RemovalSteps
    DEF BackRoot, RootsBack, Put, Step, Leave, journals, locks, Removals, RemovalSection,
      Carries, Failing
<1>27. CASE BackJournal(p)
  BY <1>27, RemovalSteps
    DEF BackJournal, RootsBack, NoRemoval, Leave, trees, locks, Removals, RemovalSection,
      Carries, Failing
<1> QED
  BY <1>1, <1>2, <1>3, <1>4, <1>5, <1>6, <1>7, <1>8, <1>9, <1>10, <1>11, <1>12, <1>13,
     <1>14, <1>15, <1>16, <1>17, <1>18, <1>19, <1>20, <1>21, <1>22, <1>23, <1>24, <1>25,
     <1>26, <1>27 DEF Run, Recovery, Install, Uninstall

\* The recovery of a version leaves nothing of a promotion of it.
LEMMA SettlingOwn ==
  ASSUME pc \in [Process -> PcType], cmd \in [Process -> CmdType],
         NEW p \in Process, pc[p] # "idle" => cmd[p].ver \in Version, Carries(p),
         Settling(p) => Unpublished(cmd[p].ver), Start(p) \/ Kill(p) \/ Run(p)
  PROVE  Settling(p)' => Unpublished(cmd[p].ver)'
<1>1. CASE Start(p)
  <2>1. PICK c \in Command :
          /\ cmd'[p] = AfterStart(cmd[p], IF c.op = "install" THEN "recover" ELSE "find", c.ver)
          /\ pc'[p] = IF c.op = "install" THEN "version" ELSE "state"
    BY <1>1, Carrying
  <2> QED
    BY <2>1 DEF Settling, AfterStart
<1>2. CASE TakeVersion(p)
  BY <1>2
    DEF TakeVersion, Step, trees, journals, metadata, counters, Settling, Unpublished,
      Carries, InstallSteps, UninstallSteps, Idle
<1>3. CASE TakeState(p)
  BY <1>3
    DEF TakeState, Step, trees, journals, metadata, counters, Settling, Unpublished,
      Carries, InstallSteps, UninstallSteps, Idle
<1>4. CASE Kill(p)
  BY <1>4
    DEF Kill, Leave, trees, journals, metadata, Settling, Unpublished, Carries,
      InstallSteps, UninstallSteps, Idle
<1>5. CASE RecoverAside(p)
  <2>1. pc'[p] = "recover"
    BY <1>5 DEF RecoverAside, Step
  <2> QED
    BY <2>1 DEF Settling
<1>6. CASE RecoverBackup(p)
  BY <1>6
    DEF RecoverBackup, Step, journals, metadata, locks, counters, Settling, Unpublished,
      Carries, InstallSteps, UninstallSteps, Idle
<1>7. CASE RecoverClear(p)
  BY <1>7
    DEF RecoverClear, Step, journals, metadata, locks, counters, Settling, Unpublished,
      Carries, InstallSteps, UninstallSteps, Idle
<1>8. CASE RecoverDebris(p)
  BY <1>8
    DEF RecoverDebris, Step, journals, metadata, locks, counters, Settling, Unpublished,
      Carries, InstallSteps, UninstallSteps, Idle
<1>9. CASE RecoverJournal(p)
  BY <1>9
    DEF RecoverJournal, Step, trees, metadata, locks, counters, Settling, Unpublished,
      Carries, InstallSteps, UninstallSteps, Idle
<1>10. CASE Recovered(p)
  BY <1>10
    DEF Recovered, Step, trees, journals, metadata, counters, Settling, Unpublished,
      Carries, InstallSteps, UninstallSteps, Idle
<1>11. CASE RecoverFails(p)
  BY <1>11
    DEF RecoverFails, FailsAndLeaves, Leave, journals, metadata, Settling, Unpublished,
      Carries, InstallSteps, UninstallSteps, Idle
<1>12. CASE Refuse(p)
  BY <1>12
    DEF Refuse, Leave, trees, journals, metadata, counters, Settling, Unpublished, Carries,
      InstallSteps, UninstallSteps, Idle
<1>13. CASE UndoRoot(p)
  BY <1>13
    DEF UndoRoot, Undoing, journals, metadata, locks, counters, Settling, Unpublished,
      Carries, InstallSteps, UninstallSteps, Idle
<1>14. CASE UndoShim(p)
  BY <1>14
    DEF UndoShim, Undoing, trees, journals, locks, counters, Settling, Unpublished,
      Carries, InstallSteps, UninstallSteps, Idle
<1>15. CASE CompleteConfig(p)
  BY <1>15
    DEF CompleteConfig, Completing, trees, journals, locks, counters, Settling,
      Unpublished, Carries, InstallSteps, UninstallSteps, Idle
<1>16. CASE CompleteLock(p)
  BY <1>16
    DEF CompleteLock, Completing, trees, journals, locks, counters, Settling, Unpublished,
      Carries, InstallSteps, UninstallSteps, Idle
<1>17. CASE CompleteShim(p)
  BY <1>17
    DEF CompleteShim, Completing, trees, journals, locks, counters, Settling, Unpublished,
      Carries, InstallSteps, UninstallSteps, Idle
<1>18. CASE CompleteRoot(p)
  BY <1>18
    DEF CompleteRoot, Completing, journals, metadata, locks, counters, Settling,
      Unpublished, Carries, InstallSteps, UninstallSteps, Idle
<1>19. CASE UndoJournal(p)
  BY <1>19
    DEF UndoJournal, Undoing, Completing, trees, metadata, locks, counters, Settling,
      Unpublished, Carries, InstallSteps, UninstallSteps, Idle
<1>20. CASE UndoRefuses(p)
  BY <1>20
    DEF UndoRefuses, Undoing, Leave, trees, journals, metadata, counters, Settling,
      Unpublished, Carries, InstallSteps, UninstallSteps, Idle
<1>21. CASE UndoFails(p)
  BY <1>21
    DEF UndoFails, FailsAndLeaves, Leave, trees, journals, metadata, Settling, Unpublished,
      Carries, InstallSteps, UninstallSteps, Idle
<1>22. CASE Undone(p)
  BY <1>22
    DEF Undone, Step, trees, journals, metadata, counters, Settling, Unpublished, Carries,
      InstallSteps, UninstallSteps, Idle
<1>23. CASE Reuse(p)
  <2>1. cmd'[p] = AfterDo(cmd[p], "publish")
    BY <1>23, Carrying
  <2>2. cmd'[p].ver = cmd[p].ver /\ cmd'[p].do = "publish"
    BY <2>1 DEF AfterDo
  <2>3. /\ pc[p] = "check"
        /\ promotion' = promotion /\ backup' = backup
    BY <1>23 DEF Reuse, Step, Fails, trees, journals
  <2> QED
    BY <2>2, <2>3 DEF Settling, Unpublished
<1>24. CASE Stage(p)
  <2>1. PICK t \in Tree : cmd'[p] = AfterStage(cmd[p], t)
    BY <1>24, Carrying
  <2>2. cmd'[p].ver = cmd[p].ver /\ cmd'[p].do = "publish"
    BY <2>1 DEF AfterStage
  <2>3. /\ pc[p] = "check"
        /\ promotion' = promotion /\ backup' = backup
    BY <1>24 DEF Stage, Step, Fails, trees, journals
  <2> QED
    BY <2>2, <2>3 DEF Settling, Unpublished
<1>25. CASE StageFails(p)
  BY <1>25
    DEF StageFails, FailsAndLeaves, Leave, trees, journals, metadata, Settling,
      Unpublished, Carries, InstallSteps, UninstallSteps, Idle
<1>26. CASE ReuseIsGone(p)
  BY <1>26
    DEF ReuseIsGone, Leave, trees, journals, metadata, counters, Settling, Unpublished,
      Carries, InstallSteps, UninstallSteps, Idle
<1>27. CASE Open(p)
  <2>1. pc'[p] \in {"shim", "move", "place", "drop"}
    BY <1>27 DEF Open, Step, Fails
  <2> QED
    BY <2>1 DEF Settling
<1>28. CASE MoveOld(p)
  BY <1>28
    DEF MoveOld, Fails, Step, journals, metadata, locks, Settling, Unpublished, Carries,
      InstallSteps, UninstallSteps, Idle
<1>29. CASE OldMoved(p)
  BY <1>29
    DEF OldMoved, Fails, Step, trees, metadata, locks, Settling, Unpublished, Carries,
      InstallSteps, UninstallSteps, Idle
<1>30. CASE PlaceNew(p)
  BY <1>30
    DEF PlaceNew, Fails, Step, journals, metadata, locks, Settling, Unpublished, Carries,
      InstallSteps, UninstallSteps, Idle
<1>31. CASE NewPromoted(p)
  BY <1>31
    DEF NewPromoted, Fails, Step, trees, metadata, locks, Settling, Unpublished, Carries,
      InstallSteps, UninstallSteps, Idle
<1>32. CASE Unplace(p)
  BY <1>32
    DEF Unplace, Fails, Step, journals, metadata, locks, Settling, Unpublished, Carries,
      InstallSteps, UninstallSteps, Idle
<1>33. CASE DropBackup(p)
  BY <1>33
    DEF DropBackup, FailsAndLeaves, Leave, journals, metadata, locks, Settling,
      Unpublished, Carries, InstallSteps, UninstallSteps, Idle
<1>34. CASE DropJournal(p)
  BY <1>34
    DEF DropJournal, FailsAndLeaves, Leave, trees, metadata, Settling, Unpublished,
      Carries, InstallSteps, UninstallSteps, Idle
<1>35. CASE Validate(p)
  BY <1>35, Discarding
    DEF Validate, Fails, Step, trees, journals, metadata, locks, Settling, Unpublished,
      Carries, InstallSteps, UninstallSteps, Idle, AfterDo
<1>36. CASE GenerateShim(p)
  BY <1>36
    DEF GenerateShim, Step, trees, journals, locks, counters, Settling, Unpublished,
      Carries, InstallSteps, UninstallSteps, Idle
<1>37. CASE Generated(p)
  BY <1>37
    DEF Generated, Step, trees, journals, metadata, locks, counters, Settling, Unpublished,
      Carries, InstallSteps, UninstallSteps, Idle
<1>38. CASE PersistConfig(p)
  BY <1>38
    DEF PersistConfig, Fails, Step, trees, journals, locks, Settling, Unpublished, Carries,
      InstallSteps, UninstallSteps, Idle
<1>39. CASE PersistLock(p)
  BY <1>39
    DEF PersistLock, Fails, Step, trees, journals, locks, Settling, Unpublished, Carries,
      InstallSteps, UninstallSteps, Idle
<1>40. CASE RemoveStale(p)
  BY <1>40
    DEF RemoveStale, Step, trees, journals, locks, counters, Settling, Unpublished,
      Carries, InstallSteps, UninstallSteps, Idle
<1>41. CASE Published(p)
  BY <1>41
    DEF Published, Step, Leave, trees, journals, metadata, locks, counters, Settling,
      Unpublished, Carries, InstallSteps, UninstallSteps, Idle
<1>42. CASE ShimFails(p)
  BY <1>42
    DEF ShimFails, Fails, Step, trees, journals, metadata, locks, Settling, Unpublished,
      Carries, InstallSteps, UninstallSteps, Idle
<1>43. CASE Activate(p)
  BY <1>43
    DEF Activate, Fails, Step, trees, metadata, locks, Settling, Unpublished, Carries,
      InstallSteps, UninstallSteps, Idle
<1>44. CASE Finish(p)
  BY <1>44
    DEF Finish, Fails, Step, journals, metadata, locks, Settling, Unpublished, Carries,
      InstallSteps, UninstallSteps, Idle
<1>45. CASE Cleared(p)
  BY <1>45
    DEF Cleared, FailsAndLeaves, Leave, trees, metadata, Settling, Unpublished, Carries,
      InstallSteps, UninstallSteps, Idle
<1>46. CASE Relock(p)
  BY <1>46
    DEF Relock, Fails, Step, trees, journals, locks, Settling, Unpublished, Carries,
      InstallSteps, UninstallSteps, Idle
<1>47. CASE Repin(p)
  BY <1>47
    DEF Repin, Repinned, Fails, Step, trees, journals, locks, Settling, Unpublished,
      Carries, InstallSteps, UninstallSteps, Idle
<1>48. CASE Rollback(p)
  <2>1. \/ pc'[p] \in {"restore", "unjournal"}
        \/ RollbackEnds(p, TRUE) \/ RollbackEnds(p, FALSE)
    BY <1>48 DEF Rollback, Step
  <2>2. \/ pc'[p] \in {"restore", "unjournal"}
        \/ Leave(p)
        \/ pc' = [pc EXCEPT ![p] = IF cmd[p].do = "discard" THEN "rollback" ELSE "reconcile"]
        \/ pc' = [pc EXCEPT ![p] = "reconcile"]
    BY <2>1, RollingBack, Zenon
  <2>3. pc'[p] \in {"idle", "restore", "unjournal", "rollback", "reconcile"}
    BY <2>2 DEF Leave
  <2> QED
    BY <2>3 DEF Settling
<1>49. CASE Restore(p)
  <2>1. \/ pc'[p] \in {"restore", "unjournal"}
        \/ RollbackEnds(p, TRUE) \/ RollbackEnds(p, FALSE)
    BY <1>49 DEF Restore, Step
  <2>2. \/ pc'[p] \in {"restore", "unjournal"}
        \/ Leave(p)
        \/ pc' = [pc EXCEPT ![p] = IF cmd[p].do = "discard" THEN "rollback" ELSE "reconcile"]
        \/ pc' = [pc EXCEPT ![p] = "reconcile"]
    BY <2>1, RollingBack, Zenon
  <2>3. pc'[p] \in {"idle", "restore", "unjournal", "rollback", "reconcile"}
    BY <2>2 DEF Leave
  <2> QED
    BY <2>3 DEF Settling
<1>50. CASE Unjournal(p)
  <2>1. \/ pc'[p] \in {"restore", "unjournal"}
        \/ RollbackEnds(p, TRUE) \/ RollbackEnds(p, FALSE)
    BY <1>50 DEF Unjournal, Step
  <2>2. \/ pc'[p] \in {"restore", "unjournal"}
        \/ Leave(p)
        \/ pc' = [pc EXCEPT ![p] = IF cmd[p].do = "discard" THEN "rollback" ELSE "reconcile"]
        \/ pc' = [pc EXCEPT ![p] = "reconcile"]
    BY <2>1, RollingBack, Zenon
  <2>3. pc'[p] \in {"idle", "restore", "unjournal", "rollback", "reconcile"}
    BY <2>2 DEF Leave
  <2> QED
    BY <2>3 DEF Settling
<1>51. CASE Reconcile(p)
  BY <1>51
    DEF Reconcile, Step, trees, journals, locks, counters, Settling, Unpublished, Carries,
      InstallSteps, UninstallSteps, Idle
<1>52. CASE Reconciled(p)
  BY <1>52
    DEF Reconciled, Step, Leave, trees, journals, metadata, locks, Settling, Unpublished,
      Carries, InstallSteps, UninstallSteps, Idle
<1>53. CASE Select(p)
  <2>1. \/ pc'[p] = "idle"
        \/ pc'[p] = "state" /\ cmd'[p] = AfterDo(cmd[p], "remove")
    BY <1>53, Discarding DEF Select, Leave, Step
  <2> QED
    BY <2>1 DEF Settling, AfterDo
<1>54. CASE NotInstalled(p)
  BY <1>54
    DEF NotInstalled, Leave, trees, journals, metadata, counters, Settling, Unpublished,
      Carries, InstallSteps, UninstallSteps, Idle
<1>55. CASE Prepare(p)
  <2>1. pc'[p] \in {"take", "back_root"}
    BY <1>55 DEF Prepare, Step, Fails
  <2> QED
    BY <2>1 DEF Settling
<1>56. CASE Take(p)
  BY <1>56, Discarding
    DEF Take, Fails, Step, journals, metadata, locks, Settling, Unpublished, Carries,
      InstallSteps, UninstallSteps, Idle, AfterDo
<1>57. CASE Commit(p)
  BY <1>57, Discarding
    DEF Commit, Fails, Step, trees, metadata, locks, Settling, Unpublished, Carries,
      InstallSteps, UninstallSteps, Idle, AfterDo
<1>58. CASE RemoveConfig(p)
  BY <1>58
    DEF RemoveConfig, Fails, Step, trees, journals, locks, Settling, Unpublished, Carries,
      InstallSteps, UninstallSteps, Idle
<1>59. CASE RemoveLock(p)
  BY <1>59
    DEF RemoveLock, Fails, Step, trees, journals, locks, Settling, Unpublished, Carries,
      InstallSteps, UninstallSteps, Idle
<1>60. CASE RemoveShim(p)
  BY <1>60
    DEF RemoveShim, Step, trees, journals, locks, counters, Settling, Unpublished, Carries,
      InstallSteps, UninstallSteps, Idle
<1>61. CASE ShimsRemoved(p)
  BY <1>61
    DEF ShimsRemoved, Fails, Step, trees, journals, metadata, locks, Settling, Unpublished,
      Carries, InstallSteps, UninstallSteps, Idle
<1>62. CASE Clean(p)
  BY <1>62
    DEF Clean, FailsAndLeaves, Step, Leave, journals, metadata, locks, Settling,
      Unpublished, Carries, InstallSteps, UninstallSteps, Idle
<1>63. CASE Tidy(p)
  BY <1>63
    DEF Tidy, FailsAndLeaves, Leave, trees, metadata, Settling, Unpublished, Carries,
      InstallSteps, UninstallSteps, Idle
<1>64. CASE BackMetadata(p)
  BY <1>64
    DEF BackMetadata, Fails, Step, trees, journals, locks, Settling, Unpublished, Carries,
      InstallSteps, UninstallSteps, Idle
<1>65. CASE BackRoot(p)
  BY <1>65
    DEF BackRoot, RootsBack, Step, Leave, journals, metadata, locks, Settling, Unpublished,
      Carries, InstallSteps, UninstallSteps, Idle
<1>66. CASE BackJournal(p)
  BY <1>66
    DEF BackJournal, RootsBack, Leave, trees, metadata, locks, Settling, Unpublished,
      Carries, InstallSteps, UninstallSteps, Idle
<1>67. CASE BackShim(p)
  BY <1>67
    DEF BackShim, Step, trees, journals, locks, counters, Settling, Unpublished, Carries,
      InstallSteps, UninstallSteps, Idle
<1>68. CASE Back(p)
  BY <1>68
    DEF Back, Leave, trees, journals, metadata, Settling, Unpublished, Carries,
      InstallSteps, UninstallSteps, Idle
<1> QED
  BY <1>1, <1>2, <1>3, <1>4, <1>5, <1>6, <1>7, <1>8, <1>9, <1>10, <1>11, <1>12, <1>13,
     <1>14, <1>15, <1>16, <1>17, <1>18, <1>19, <1>20, <1>21, <1>22, <1>23, <1>24, <1>25,
     <1>26, <1>27, <1>28, <1>29, <1>30, <1>31, <1>32, <1>33, <1>34, <1>35, <1>36, <1>37,
     <1>38, <1>39, <1>40, <1>41, <1>42, <1>43, <1>44, <1>45, <1>46, <1>47, <1>48, <1>49,
     <1>50, <1>51, <1>52, <1>53, <1>54, <1>55, <1>56, <1>57, <1>58, <1>59, <1>60, <1>61,
     <1>62, <1>63, <1>64, <1>65, <1>66, <1>67, <1>68 DEF Run, Recovery, Install, Uninstall

\* A promotion of a version is touched only by an install that holds its lock.
LEMMA PromotionGuarded ==
  ASSUME pc \in [Process -> PcType], backup \in [Version -> Place],
         promotion \in [Version -> PromotionType],
         NEW p \in Process, Start(p) \/ Kill(p) \/ Run(p)
  PROVE  \A v \in Version : \/ promotion'[v] = promotion[v] /\ backup'[v] = backup[v]
                            \/ Holds(p) /\ v = cmd[p].ver
<1>1. CASE Start(p) \/ TakeVersion(p) \/ TakeState(p) \/ Kill(p) \/ RecoverAside(p)
           \/ RecoverClear(p)
  BY <1>1
    DEF Start, TakeVersion, TakeState, Kill, RecoverAside, RecoverClear, trees, journals
<1>2. CASE Recovered(p) \/ RecoverFails(p) \/ Refuse(p) \/ UndoRoot(p) \/ UndoShim(p)
           \/ CompleteConfig(p)
  BY <1>2
    DEF Recovered, RecoverFails, Refuse, UndoRoot, UndoShim, CompleteConfig, trees, journals
<1>3. CASE CompleteLock(p) \/ CompleteShim(p) \/ CompleteRoot(p) \/ UndoJournal(p)
           \/ UndoRefuses(p) \/ UndoFails(p)
  BY <1>3
    DEF CompleteLock, CompleteShim, CompleteRoot, UndoJournal, UndoRefuses, UndoFails,
      trees, journals
<1>4. CASE Undone(p) \/ Reuse(p) \/ Stage(p) \/ StageFails(p) \/ ReuseIsGone(p)
           \/ PlaceNew(p)
  BY <1>4 DEF Undone, Reuse, Stage, StageFails, ReuseIsGone, PlaceNew, trees, journals
<1>5. CASE Unplace(p) \/ Validate(p) \/ GenerateShim(p) \/ Generated(p)
           \/ PersistConfig(p) \/ PersistLock(p)
  BY <1>5
    DEF Unplace, Validate, GenerateShim, Generated, PersistConfig, PersistLock, trees,
      journals
<1>6. CASE RemoveStale(p) \/ Published(p) \/ ShimFails(p) \/ Relock(p) \/ Repin(p)
           \/ Rollback(p)
  BY <1>6 DEF RemoveStale, Published, ShimFails, Relock, Repin, Rollback, trees, journals
<1>7. CASE Reconcile(p) \/ Reconciled(p) \/ Select(p) \/ NotInstalled(p) \/ Prepare(p)
           \/ Take(p)
  BY <1>7 DEF Reconcile, Reconciled, Select, NotInstalled, Prepare, Take, trees, journals
<1>8. CASE Commit(p) \/ RemoveConfig(p) \/ RemoveLock(p) \/ RemoveShim(p)
           \/ ShimsRemoved(p) \/ Clean(p)
  BY <1>8
    DEF Commit, RemoveConfig, RemoveLock, RemoveShim, ShimsRemoved, Clean, trees, journals
<1>9. CASE Tidy(p) \/ BackMetadata(p) \/ BackRoot(p) \/ BackJournal(p) \/ BackShim(p)
           \/ Back(p)
  BY <1>9 DEF Tidy, BackMetadata, BackRoot, BackJournal, BackShim, Back, trees, journals
<1>10. CASE RecoverBackup(p)
  BY <1>10 DEF RecoverBackup, Put, Step, journals, Holds, InstallSteps
<1>11. CASE RecoverDebris(p)
  BY <1>11 DEF RecoverDebris, Put, Step, journals, Holds, InstallSteps
<1>12. CASE RecoverJournal(p)
  BY <1>12 DEF RecoverJournal, Step, trees, Holds, InstallSteps
<1>13. CASE Open(p)
  <2> DEFINE had == root[cmd[p].ver] # "gone"
             announced == [promotion EXCEPT ![cmd[p].ver] = [phase |-> "prepared", had |-> had]]
  <2>1. Holds(p) /\ backup' = backup /\ promotion' \in {promotion, announced}
    BY <1>13 DEF Open, Step, Fails, trees, Holds, InstallSteps
  <2> HIDE DEF had
  <2> QED
    BY <2>1
<1>14. CASE MoveOld(p)
  BY <1>14 DEF MoveOld, Fails, Put, Step, journals, Holds, InstallSteps
<1>15. CASE OldMoved(p)
  <2>1. Holds(p) /\ backup' = backup
          /\ promotion' \in {promotion, Journal(cmd[p].ver, "old_moved")}
    BY <1>15 DEF OldMoved, Step, Fails, trees, Holds, InstallSteps
  <2> QED
    BY <2>1 DEF Journal
<1>16. CASE NewPromoted(p)
  <2>1. Holds(p) /\ backup' = backup
          /\ promotion' \in {promotion, Journal(cmd[p].ver, "new_promoted")}
    BY <1>16 DEF NewPromoted, Step, Fails, trees, Holds, InstallSteps
  <2> QED
    BY <2>1 DEF Journal
<1>17. CASE DropBackup(p)
  BY <1>17 DEF DropBackup, FailsAndLeaves, Put, journals, Holds, InstallSteps
<1>18. CASE DropJournal(p)
  BY <1>18 DEF DropJournal, FailsAndLeaves, trees, Holds, InstallSteps
<1>19. CASE Activate(p)
  <2>1. Holds(p) /\ backup' = backup
          /\ promotion' \in {promotion, Journal(cmd[p].ver, "activated")}
    BY <1>19 DEF Activate, Step, Fails, trees, Holds, InstallSteps
  <2> QED
    BY <2>1 DEF Journal
<1>20. CASE Finish(p)
  BY <1>20 DEF Finish, Fails, Put, Step, journals, Holds, InstallSteps
<1>21. CASE Cleared(p)
  BY <1>21 DEF Cleared, FailsAndLeaves, trees, Holds, InstallSteps
<1>22. CASE Restore(p)
  BY <1>22 DEF Restore, Put, Step, journals, Holds, InstallSteps
<1>23. CASE Unjournal(p)
  <2>1. /\ Holds(p) /\ backup' = backup
        /\ promotion' \in {promotion, [promotion EXCEPT ![cmd[p].ver] = NoPromotion]}
    BY <1>23 DEF Unjournal, trees, Holds, InstallSteps
  <2> QED
    BY <2>1
<1> QED
  BY <1>1, <1>2, <1>3, <1>4, <1>5, <1>6, <1>7, <1>8, <1>9, <1>10, <1>11, <1>12, <1>13,
     <1>14, <1>15, <1>16, <1>17, <1>18, <1>19, <1>20, <1>21, <1>22, <1>23
     DEF Run, Recovery, Install, Uninstall

\* A section speaks of a step under the state lock only.
LEMMA SectionsLocked ==
  ASSUME NEW p \in Process, pc[p] \notin Locked
  PROVE  Found(p)
<1>1. pc[p] \notin {"undo", "recover", "open", "move", "moved", "place", "placed", "unplace",
        "drop", "validate", "shim", "pin", "record", "stale", "activate", "finish", "cleared",
        "relock", "relocked", "repin", "repinned", "rollback", "restore", "unjournal",
        "reconcile", "prepare", "take", "commit", "unpin", "unrecord", "unshim", "clean",
        "tidy", "back_lock", "back_pin", "back_root", "back_journal", "back_shim"}
  BY StepsLocked
<1>2. PromotionSection(p)
  BY <1>1 DEF PromotionSection, Publishing, Rolling
<1>3. MetadataSection(p)
  BY <1>1 DEF MetadataSection
<1>4. RemovalSection(p)
  BY <1>1, RemovalSteps DEF RemovalSection
<1> QED
  BY <1>2, <1>3, <1>4 DEF Found

\* What is said of q is said of its own variables and of the files.
LEMMA FoundKept ==
  ASSUME NEW q \in Process, Found(q), pc'[q] = pc[q], cmd'[q] = cmd[q],
         root' = root, backup' = backup, away' = away, promotion' = promotion,
         removal' = removal, config' = config, lock' = lock
  PROVE  Found(q)'
<1>1. PromotionSection(q)'
  BY DEF Found, PromotionSection, Unpublished, Late, Early
<1>2. MetadataSection(q)'
  BY DEF Found, MetadataSection
<1>3. RemovalSection(q)'
  BY DEF Found, RemovalSection
<1> QED
  BY <1>1, <1>2, <1>3 DEF Found

\* With at most one error every command finds what its step expects, whoever moves.
LEMMA SectionedStep ==
  ASSUME Orderly, Sectioned, NEW p \in Process, Start(p) \/ Kill(p) \/ Run(p)
  PROVE  Sectioned'
<1> SUFFICES ASSUME errors' <= 1
             PROVE  /\ Removals'
                    /\ \A q \in Process : /\ Settling(q)' => Unpublished(cmd[q].ver)'
                                          /\ Found(q)'
  BY DEF Sectioned
<1>1. pc \in [Process -> PcType] /\ cmd \in [Process -> CmdType]
      /\ held \in [Version -> Process \cup {None}] /\ state \in Process \cup {None}
      /\ root \in [Version -> Place] /\ backup \in [Version -> Place]
      /\ away \in [Version -> Place] /\ promotion \in [Version -> PromotionType]
      /\ removal \in [Version -> RemovalType] /\ errors \in Nat
  BY Typed DEF Orderly
<1>2. errors <= 1
  BY <1>1, ErrorsGrow
<1>3. Removals /\ \A q \in Process : (Settling(q) => Unpublished(cmd[q].ver)) /\ Found(q)
  BY <1>2 DEF Sectioned
<1>4. \A q \in Process : Control(q)
  BY DEF Orderly
<1>5. Carries(p) /\ (pc[p] # "idle" => cmd[p].ver \in Version)
  BY <1>4 DEF Control, Carries
<1>6. PromotionSection(p) /\ MetadataSection(p) /\ RemovalSection(p)
      /\ (Settling(p) => Unpublished(cmd[p].ver))
  BY <1>3 DEF Found
<1>7. Removals'
  BY <1>1, <1>3, <1>5, <1>6, RemovalsOwn
<1>8. Settling(p)' => Unpublished(cmd[p].ver)'
  BY <1>1, <1>5, <1>6, SettlingOwn
<1>9. PromotionSection(p)'
  BY <1>1, <1>5, <1>6, PromotionOwn
<1>10. MetadataSection(p)'
  BY <1>1, <1>5, <1>6, MetadataOwn
<1>11. RemovalSection(p)'
  BY <1>1, <1>3, <1>5, <1>6, RemovalOwn
<1>12. Found(p)'
  BY <1>9, <1>10, <1>11 DEF Found
<1>13. ASSUME NEW q \in Process \ {p}
       PROVE  /\ Settling(q)' => Unpublished(cmd[q].ver)'
              /\ Found(q)'
  <2>1. pc'[q] = pc[q] /\ cmd'[q] = cmd[q]
    BY <1>1, Alone
  <2>2. CASE pc[q] \in Locked
    <3>1. state = q /\ pc[p] \notin Locked
      BY <1>4, <2>2 DEF Control
    <3>2. /\ root' = root /\ backup' = backup /\ away' = away
          /\ promotion' = promotion /\ removal' = removal /\ config' = config /\ lock' = lock
      BY <1>1, <3>1, Outside
    <3> QED
      BY <1>3, <2>1, <3>2, FoundKept DEF Settling, Unpublished
  <2>3. CASE pc[q] \notin Locked
    <3>1. Found(q)'
      <4>1. pc'[q] \notin {"undo", "recover", "open", "move", "moved", "place", "placed",
              "unplace", "drop", "validate", "shim", "pin", "record", "stale", "activate",
              "finish", "cleared", "relock", "relocked", "repin", "repinned", "rollback",
              "restore", "unjournal", "reconcile", "prepare", "take", "commit", "unpin",
              "unrecord", "unshim", "clean", "tidy", "back_lock", "back_pin", "back_root",
              "back_journal", "back_shim"}
        BY <2>1, <2>3, StepsLocked
      <4>2. PromotionSection(q)'
        BY <4>1 DEF PromotionSection, Publishing, Rolling
      <4>3. MetadataSection(q)'
        BY <4>1 DEF MetadataSection
      <4>4. RemovalSection(q)'
        BY <4>1, RemovalSteps DEF RemovalSection
      <4> QED
        BY <4>2, <4>3, <4>4 DEF Found
    <3>2. ASSUME Settling(q)' PROVE Unpublished(cmd[q].ver)'
      <4>1. Settling(q) /\ Holds(q) /\ cmd[q].ver \in Version
        BY <1>4, <2>1, <3>2 DEF Settling, Holds, Control, Carries, InstallSteps
      <4>2. held[cmd[q].ver] = q
        BY <1>4, <4>1 DEF Control
      <4>3. ~(Holds(p) /\ cmd[q].ver = cmd[p].ver)
        BY <1>4, <4>2 DEF Control
      <4>4. promotion'[cmd[q].ver] = promotion[cmd[q].ver]
            /\ backup'[cmd[q].ver] = backup[cmd[q].ver]
        BY <1>1, <4>1, <4>3, PromotionGuarded
      <4> QED
        BY <1>3, <2>1, <4>1, <4>4 DEF Unpublished
    <3> QED
      BY <3>1, <3>2
  <2> QED
    BY <2>2, <2>3
<1> QED
  BY <1>7, <1>8, <1>12, <1>13

\* At the beginning no command is in a section.
LEMMA SectionedInit ==
  ASSUME Init
  PROVE  Sectioned
<1>1. Removals
  BY DEF Init, Removals, NoPromotion
<1>2. ASSUME NEW p \in Process PROVE ~Settling(p) /\ Found(p)
  <2>1. pc[p] = "idle"
    BY DEF Init
  <2>2. pc[p] \notin Locked
    BY <2>1 DEF Locked, InstallSteps, UninstallSteps
  <2> QED
    BY <2>1, <2>2, SectionsLocked DEF Settling
<1> QED
  BY <1>1, <1>2 DEF Sectioned

\* A step that changes nothing keeps the sections.
LEMMA SectionedStutter ==
  ASSUME Sectioned, UNCHANGED vars
  PROVE  Sectioned'
<1> USE DEF vars, trees, journals, metadata, locks, counters
<1>1. Removals => Removals'
  BY DEF Removals
<1>2. \A p \in Process : Found(p) => Found(p)'
  BY FoundKept
<1>3. \A p \in Process : (Settling(p) => Unpublished(cmd[p].ver))
                           => (Settling(p)' => Unpublished(cmd[p].ver)')
  BY DEF Settling, Unpublished
<1> QED
  BY <1>1, <1>2, <1>3 DEF Sectioned

\* With at most one error, every command finds at every step the trees, the journals
\* and the metadata the step expects, whatever the others do and wherever they are
\* killed (global_npm_use/promotion.rs, install.rs, uninstall.rs).
THEOREM SectionedAlways == Spec => []Sectioned
<1>1. Init => Sectioned
  BY SectionedInit
<1>2. Orderly /\ Sectioned /\ [Next]_vars => Sectioned'
  BY SectionedStep, SectionedStutter DEF Next
<1> QED
  BY <1>1, <1>2, OrderlyAlways, PTL DEF Spec

-----------------------------------------------------------------------------
(* A command that has failed with one error has undone what it did *)

\* Where a failing command reports its error, the old tree and metadata are back.
LEMMA Undoes ==
  ASSUME pc \in [Process -> PcType], cmd \in [Process -> CmdType],
         root \in [Version -> Place], errors \in Nat, kills \in Nat, errors' <= 1,
         NEW p \in Process, pc[p] # "idle" => cmd[p].ver \in Version, Carries(p), Found(p),
         Aborts(p), Start(p) \/ Kill(p) \/ Run(p)
  PROVE  /\ root'[cmd[p].ver] = cmd[p].old
         /\ config' = cmd[p].config /\ lock' = cmd[p].lock
<1>1. CASE Start(p) \/ TakeVersion(p) \/ TakeState(p) \/ RecoverAside(p)
           \/ RecoverBackup(p) \/ RecoverClear(p)
  BY <1>1
    DEF Start, TakeVersion, TakeState, RecoverAside, RecoverBackup, RecoverClear, Step,
      Aborts
<1>2. CASE RecoverDebris(p) \/ RecoverJournal(p) \/ Recovered(p) \/ RecoverFails(p)
           \/ Refuse(p) \/ UndoRoot(p)
  BY <1>2
    DEF RecoverDebris, RecoverJournal, Recovered, RecoverFails, Refuse, UndoRoot, Step,
      FailsAndLeaves, Leave, Undoing, Aborts
<1>3. CASE UndoShim(p) \/ CompleteConfig(p) \/ CompleteLock(p) \/ CompleteShim(p)
           \/ CompleteRoot(p) \/ UndoJournal(p)
  BY <1>3
    DEF UndoShim, CompleteConfig, CompleteLock, CompleteShim, CompleteRoot, UndoJournal,
      Undoing, Completing, Aborts
<1>4. CASE UndoRefuses(p) \/ UndoFails(p) \/ Undone(p) \/ Reuse(p) \/ Stage(p)
           \/ StageFails(p)
  BY <1>4
    DEF UndoRefuses, UndoFails, Undone, Reuse, Stage, StageFails, Undoing, Leave,
      FailsAndLeaves, Step, Aborts
<1>5. CASE ReuseIsGone(p) \/ Open(p) \/ MoveOld(p) \/ OldMoved(p) \/ PlaceNew(p)
           \/ NewPromoted(p)
  BY <1>5
    DEF ReuseIsGone, Open, MoveOld, OldMoved, PlaceNew, NewPromoted, Leave, Fails, Step,
      Aborts
<1>6. CASE Unplace(p) \/ Validate(p) \/ GenerateShim(p) \/ Generated(p)
           \/ PersistConfig(p) \/ PersistLock(p)
  BY <1>6
    DEF Unplace, Validate, GenerateShim, Generated, PersistConfig, PersistLock, Fails,
      Step, Aborts
<1>7. CASE RemoveStale(p) \/ Published(p) \/ ShimFails(p) \/ Activate(p) \/ Finish(p)
           \/ Cleared(p)
  BY <1>7
    DEF RemoveStale, Published, ShimFails, Activate, Finish, Cleared, Step, Leave, Fails,
      FailsAndLeaves, Aborts
<1>8. CASE Relock(p) \/ Repin(p) \/ Restore(p) \/ Reconcile(p) \/ Select(p)
           \/ NotInstalled(p)
  BY <1>8
    DEF Relock, Repin, Restore, Reconcile, Select, NotInstalled, Fails, Step, Repinned,
      Leave, Aborts
<1>9. CASE Prepare(p) \/ Take(p) \/ Commit(p) \/ RemoveConfig(p) \/ RemoveLock(p)
           \/ RemoveShim(p)
  BY <1>9
    DEF Prepare, Take, Commit, RemoveConfig, RemoveLock, RemoveShim, Fails, Step, Aborts
<1>10. CASE ShimsRemoved(p) \/ Clean(p) \/ Tidy(p) \/ BackMetadata(p) \/ BackShim(p)
  BY <1>10
    DEF ShimsRemoved, Clean, Tidy, BackMetadata, BackShim, Fails, Step, FailsAndLeaves,
      Leave, Aborts
<1>11. CASE Kill(p)
  BY <1>11
    DEF Kill, Leave, trees, journals, metadata, Aborts, Found, PromotionSection,
      MetadataSection, RemovalSection, Carries, Failing
<1>12. CASE DropBackup(p)
  BY <1>12
    DEF DropBackup, FailsAndLeaves, Leave, journals, metadata, locks, Aborts, Found,
      PromotionSection, MetadataSection, RemovalSection, Carries, Failing
<1>13. CASE DropJournal(p)
  BY <1>13
    DEF DropJournal, FailsAndLeaves, Leave, trees, metadata, Aborts, Found,
      PromotionSection, MetadataSection, RemovalSection, Carries, Failing
<1>14. CASE Rollback(p)
  <2>1. pc[p] = "rollback" /\ config' = config /\ lock' = lock
    BY <1>14 DEF Rollback, Step, metadata
  <2>2. /\ config = cmd[p].config /\ lock = cmd[p].lock
        /\ errors' # errors + 1
        /\ root[cmd[p].ver] # "gone"
    BY <2>1, ConstantsAssumption
       DEF Found, MetadataSection, PromotionSection, Carries, Failing, Staged, Rolling
  <2>3. pc'[p] \in {"restore", "unjournal"}
    BY <1>14, <2>2 DEF Rollback, Step
  <2> QED
    BY <2>3 DEF Aborts
<1>15. CASE Unjournal(p)
  <2>1. pc[p] = "unjournal" /\ config' = config /\ lock' = lock
    BY <1>15 DEF Unjournal, Step, metadata
  <2>2. /\ config = cmd[p].config /\ lock = cmd[p].lock
        /\ errors' # errors + 1
        /\ root[cmd[p].ver] = cmd[p].old
    BY <2>1, ConstantsAssumption
       DEF Found, MetadataSection, PromotionSection, Carries, Failing, Staged, Rolling
  <2>3. root' = root
    BY <1>15 DEF Unjournal, trees
  <2> QED
    BY <2>1, <2>2, <2>3
<1>16. CASE Reconciled(p)
  BY <1>16
    DEF Reconciled, Step, Leave, trees, journals, metadata, locks, Aborts, Found,
      PromotionSection, MetadataSection, RemovalSection, Carries, Failing
<1>17. CASE BackRoot(p)
  BY <1>17
    DEF BackRoot, RootsBack, Step, Leave, journals, metadata, locks, Aborts, Found,
      PromotionSection, MetadataSection, RemovalSection, Carries, Failing
<1>18. CASE BackJournal(p)
  BY <1>18
    DEF BackJournal, RootsBack, Leave, trees, metadata, locks, Aborts, Found,
      PromotionSection, MetadataSection, RemovalSection, Carries, Failing
<1>19. CASE Back(p)
  BY <1>19
    DEF Back, Leave, trees, journals, metadata, Aborts, Found, PromotionSection,
      MetadataSection, RemovalSection, Carries, Failing
<1> QED
  BY <1>1, <1>2, <1>3, <1>4, <1>5, <1>6, <1>7, <1>8, <1>9, <1>10, <1>11, <1>12, <1>13,
     <1>14, <1>15, <1>16, <1>17, <1>18, <1>19 DEF Run, Recovery, Install, Uninstall


\* A command that fails with one error, at whatever step and whatever the others do,
\* leaves the root, the config and the lock as it found them
\* (global_npm_use/install.rs:269, promotion.rs, uninstall.rs).
THEOREM FailuresAreUndone == Spec => FailureIsUndone
<1>1. ASSUME Orderly, Sectioned, [Next]_vars, NEW p \in Process, Aborts(p), errors' <= 1
      PROVE  /\ root'[cmd[p].ver] = cmd[p].old
             /\ config' = cmd[p].config /\ lock' = cmd[p].lock
  <2>1. /\ pc \in [Process -> PcType] /\ cmd \in [Process -> CmdType]
        /\ root \in [Version -> Place] /\ errors \in Nat /\ kills \in Nat
    BY <1>1, Typed DEF Orderly
  <2>2. pc'[p] # pc[p]
    BY <1>1 DEF Aborts
  <2>3. PICK q \in Process : Start(q) \/ Kill(q) \/ Run(q)
    BY <1>1, <2>2 DEF Next, vars
  <2>4. q = p
    BY <2>1, <2>2, <2>3, Alone
  <2>5. errors <= 1
    BY <1>1, <2>1, <2>3, ErrorsGrow
  <2>6. Found(p)
    BY <1>1, <2>5 DEF Sectioned
  <2>7. Carries(p) /\ (pc[p] # "idle" => cmd[p].ver \in Version)
    BY <1>1 DEF Orderly, Control, Carries
  <2> QED
    BY <1>1, <2>1, <2>3, <2>4, <2>6, <2>7, Undoes
<1>2. Orderly /\ Sectioned /\ [Next]_vars =>
        [\A p \in Process : Aborts(p) /\ errors' <= 1 =>
           /\ root'[cmd[p].ver] = cmd[p].old
           /\ config' = cmd[p].config /\ lock' = cmd[p].lock]_vars
  BY <1>1
<1> QED
  BY <1>2, OrderlyAlways, SectionedAlways, PTL DEF Spec, FailureIsUndone

-----------------------------------------------------------------------------
(* What is kept: the trees that stand at a root or are on their way back to it *)

\* A tree that is there and not torn: a complete one, or one that passes for it.
Solid == Tree \cup {"hollow"}

\* The places are those trees, a torn one and nothing.
LEMMA SolidPlaces ==
  Place = Solid \cup {"gone", "torn"} /\ "gone" \notin Solid /\ "torn" \notin Solid
  BY ConstantsAssumption DEF Place, Solid

USE SolidPlaces

\* The tree at the root of v, or the one an uninstall has set aside.
Standing(v) == IF away[v] # "gone" THEN away[v] ELSE root[v]

\* What the recovery of a promotion makes of tree t at the root of v.
BaseOf(v, t) ==
  IF promotion[v].phase = "none" THEN t
  ELSE IF Early(v) /\ ~promotion[v].had THEN "gone"
  ELSE IF backup[v] # "gone" /\ (t = "gone" \/ Early(v)) THEN backup[v]
  ELSE t

\* The steps from which the config a command has captured may go back.
Capturing == Opened \cup (Removing \ {"clean", "tidy"})

\* v has to be there: an install has reported it, the config selects it, or the
\* command of p, or of any process, may select it again.
WantedBy(p, v) == v \in promised \/ config = v \/ (pc[p] \in Capturing /\ cmd[p].config = v)
Wanted(v) ==
  \/ v \in promised \/ config = v
  \/ \E p \in Process : pc[p] \in Capturing /\ cmd[p].config = v

\* A tree torn while an uninstall had it aside never comes back.
Sound == \A v \in Version : removal[v].phase # "committed" => away[v] # "torn"

\* An install that reuses a tree has seen it complete.
Reuses(p) ==
  Holds(p) /\ cmd[p].do = "publish" /\ cmd[p].new = "gone" => root[cmd[p].ver] # "torn"

\* A version whose uninstall is committed is wanted by nobody but a config that goes.
Committed ==
  \A v \in Version : removal[v].phase = "committed" =>
    v \notin promised /\ (config = v => removal[v].config)

\* What is wanted stands, or comes back.
Stands(v) == removal[v].phase # "committed" => BaseOf(v, Standing(v)) \in Solid

\* So does the old tree of a command that may put the version it changes back.
Returns(p) ==
  LET c == cmd[p]  v == c.ver  wanted == v \in promised \/ c.config = v IN
  /\ pc[p] \in Opened /\ wanted => c.old \in Solid
  /\ pc[p] \in Removing \ {"clean", "tidy"} /\ wanted => BaseOf(v, c.old) \in Solid

Kept ==
  errors <= 1 =>
    /\ Sound /\ Committed
    /\ \A v \in Version : Wanted(v) => Stands(v)
    /\ \A p \in Process : Reuses(p) /\ Returns(p)

\* The steps from which a captured config may go back.
LEMMA CapturingSteps ==
  Capturing = {"move", "moved", "place", "placed", "unplace", "drop", "validate", "shim", "pin",
               "record", "stale", "activate", "finish", "cleared", "relock", "relocked", "repin",
               "repinned", "rollback", "restore", "unjournal", "reconcile", "take", "commit",
               "unpin", "unrecord", "unshim", "back_lock", "back_pin", "back_root",
               "back_journal", "back_shim"}
  BY RemovalSteps DEF Capturing

\* What p comes to want is the version it installs, once that is in place.
LEMMA WantedGrows ==
  ASSUME pc \in [Process -> PcType], cmd \in [Process -> CmdType],
         NEW p \in Process, Start(p) \/ Kill(p) \/ Run(p)
  PROVE  \A v \in Version : WantedBy(p, v)' =>
           \/ WantedBy(p, v)
           \/ pc[p] \in {"pin", "stale", "cleared"} /\ v = cmd[p].ver
<1>1. CASE Start(p)
  <2>1. pc'[p] \in {"version", "state"} /\ promised' = promised /\ config' = config
    BY <1>1 DEF Start, Step, metadata
  <2> QED
    BY <2>1, CapturingSteps DEF WantedBy
<1>2. CASE TakeVersion(p)
  BY <1>2, CapturingSteps
    DEF TakeVersion, Step, trees, journals, metadata, counters, WantedBy
<1>3. CASE TakeState(p)
  BY <1>3, CapturingSteps DEF TakeState, Step, trees, journals, metadata, counters, WantedBy
<1>4. CASE Kill(p)
  BY <1>4, CapturingSteps DEF Kill, Leave, trees, journals, metadata, WantedBy
<1>5. CASE RecoverAside(p)
  <2>1. pc'[p] \notin Capturing /\ promised' = promised /\ config' = config
    BY <1>5, CapturingSteps DEF RecoverAside, Step, metadata
  <2> QED
    BY <2>1 DEF WantedBy
<1>6. CASE RecoverBackup(p)
  BY <1>6, CapturingSteps
    DEF RecoverBackup, Step, journals, metadata, locks, counters, WantedBy
<1>7. CASE RecoverClear(p)
  BY <1>7, CapturingSteps
    DEF RecoverClear, Step, journals, metadata, locks, counters, WantedBy
<1>8. CASE RecoverDebris(p)
  BY <1>8, CapturingSteps
    DEF RecoverDebris, Step, journals, metadata, locks, counters, WantedBy
<1>9. CASE RecoverJournal(p)
  BY <1>9, CapturingSteps
    DEF RecoverJournal, Step, trees, metadata, locks, counters, WantedBy
<1>10. CASE Recovered(p)
  BY <1>10, CapturingSteps DEF Recovered, Step, trees, journals, metadata, counters, WantedBy
<1>11. CASE RecoverFails(p)
  BY <1>11, CapturingSteps
    DEF RecoverFails, FailsAndLeaves, Leave, journals, metadata, WantedBy
<1>12. CASE Refuse(p)
  BY <1>12, CapturingSteps DEF Refuse, Leave, trees, journals, metadata, counters, WantedBy
<1>13. CASE UndoRoot(p)
  BY <1>13, CapturingSteps
    DEF UndoRoot, Undoing, journals, metadata, locks, counters, WantedBy
<1>14. CASE UndoShim(p)
  BY <1>14, CapturingSteps DEF UndoShim, Undoing, trees, journals, locks, counters, WantedBy
<1>15. CASE CompleteConfig(p)
  BY <1>15, CapturingSteps
    DEF CompleteConfig, Completing, trees, journals, locks, counters, WantedBy
<1>16. CASE CompleteLock(p)
  BY <1>16, CapturingSteps
    DEF CompleteLock, Completing, trees, journals, locks, counters, WantedBy
<1>17. CASE CompleteShim(p)
  BY <1>17, CapturingSteps
    DEF CompleteShim, Completing, trees, journals, locks, counters, WantedBy
<1>18. CASE CompleteRoot(p)
  BY <1>18, CapturingSteps
    DEF CompleteRoot, Completing, journals, metadata, locks, counters, WantedBy
<1>19. CASE UndoJournal(p)
  BY <1>19, CapturingSteps
    DEF UndoJournal, Undoing, Completing, trees, metadata, locks, counters, WantedBy
<1>20. CASE UndoRefuses(p)
  BY <1>20, CapturingSteps
    DEF UndoRefuses, Undoing, Leave, trees, journals, metadata, counters, WantedBy
<1>21. CASE UndoFails(p)
  BY <1>21, CapturingSteps
    DEF UndoFails, FailsAndLeaves, Leave, trees, journals, metadata, WantedBy
<1>22. CASE Undone(p)
  BY <1>22, CapturingSteps DEF Undone, Step, trees, journals, metadata, counters, WantedBy
<1>23. CASE Reuse(p)
  <2>1. pc'[p] \notin Capturing /\ promised' = promised /\ config' = config
    BY <1>23, CapturingSteps DEF Reuse, Step, metadata
  <2> QED
    BY <2>1 DEF WantedBy
<1>24. CASE Stage(p)
  <2>1. pc'[p] \notin Capturing /\ promised' = promised /\ config' = config
    BY <1>24, CapturingSteps DEF Stage, Step, metadata
  <2> QED
    BY <2>1 DEF WantedBy
<1>25. CASE StageFails(p)
  BY <1>25, CapturingSteps
    DEF StageFails, FailsAndLeaves, Leave, trees, journals, metadata, WantedBy
<1>26. CASE ReuseIsGone(p)
  BY <1>26, CapturingSteps
    DEF ReuseIsGone, Leave, trees, journals, metadata, counters, WantedBy
<1>27. CASE Open(p)
  <2>1. cmd'[p] = AfterCapture(cmd[p], cmd[p].do, config, lock, root[cmd[p].ver])
    BY <1>27, Carrying
  <2>2. cmd'[p].config = config /\ promised' = promised /\ config' = config
    BY <1>27, <2>1 DEF Open, AfterCapture, metadata
  <2> QED
    BY <2>2 DEF WantedBy
<1>28. CASE MoveOld(p)
  BY <1>28, CapturingSteps DEF MoveOld, Fails, Step, journals, metadata, locks, WantedBy
<1>29. CASE OldMoved(p)
  BY <1>29, CapturingSteps DEF OldMoved, Fails, Step, trees, metadata, locks, WantedBy
<1>30. CASE PlaceNew(p)
  BY <1>30, CapturingSteps DEF PlaceNew, Fails, Step, journals, metadata, locks, WantedBy
<1>31. CASE NewPromoted(p)
  BY <1>31, CapturingSteps DEF NewPromoted, Fails, Step, trees, metadata, locks, WantedBy
<1>32. CASE Unplace(p)
  BY <1>32, CapturingSteps DEF Unplace, Fails, Step, journals, metadata, locks, WantedBy
<1>33. CASE DropBackup(p)
  BY <1>33, CapturingSteps
    DEF DropBackup, FailsAndLeaves, Leave, journals, metadata, locks, WantedBy
<1>34. CASE DropJournal(p)
  BY <1>34, CapturingSteps DEF DropJournal, FailsAndLeaves, Leave, trees, metadata, WantedBy
<1>35. CASE Validate(p)
  BY <1>35, CapturingSteps, Discarding
    DEF Validate, Fails, Step, trees, journals, metadata, locks, WantedBy, AfterDo
<1>36. CASE GenerateShim(p)
  BY <1>36, CapturingSteps DEF GenerateShim, Step, trees, journals, locks, counters, WantedBy
<1>37. CASE Generated(p)
  BY <1>37, CapturingSteps
    DEF Generated, Step, trees, journals, metadata, locks, counters, WantedBy
<1>38. CASE PersistConfig(p)
  BY <1>38, CapturingSteps DEF PersistConfig, Fails, Step, trees, journals, locks, WantedBy
<1>39. CASE PersistLock(p)
  BY <1>39, CapturingSteps DEF PersistLock, Fails, Step, trees, journals, locks, WantedBy
<1>40. CASE RemoveStale(p)
  BY <1>40, CapturingSteps DEF RemoveStale, Step, trees, journals, locks, counters, WantedBy
<1>41. CASE Published(p)
  BY <1>41, CapturingSteps
    DEF Published, Step, Leave, trees, journals, metadata, locks, counters, WantedBy
<1>42. CASE ShimFails(p)
  BY <1>42, CapturingSteps
    DEF ShimFails, Fails, Step, trees, journals, metadata, locks, WantedBy
<1>43. CASE Activate(p)
  BY <1>43, CapturingSteps DEF Activate, Fails, Step, trees, metadata, locks, WantedBy
<1>44. CASE Finish(p)
  BY <1>44, CapturingSteps DEF Finish, Fails, Step, journals, metadata, locks, WantedBy
<1>45. CASE Cleared(p)
  BY <1>45, CapturingSteps DEF Cleared, FailsAndLeaves, Leave, trees, metadata, WantedBy
<1>46. CASE Relock(p)
  BY <1>46, CapturingSteps DEF Relock, Fails, Step, trees, journals, locks, WantedBy
<1>47. CASE Repin(p)
  BY <1>47, CapturingSteps DEF Repin, Repinned, Fails, Step, trees, journals, locks, WantedBy
<1>48. CASE Rollback(p)
  <2>1. pc[p] \in Capturing /\ promised' = promised /\ config' = config
    BY <1>48, CapturingSteps DEF Rollback, Step, metadata
  <2>2. cmd' = cmd \/ RollbackEnds(p, TRUE) \/ RollbackEnds(p, FALSE)
    BY <1>48 DEF Rollback
  <2>3. \/ cmd' = cmd \/ Leave(p)
        \/ cmd' = [cmd EXCEPT ![p] = AfterTries(cmd[p], 1)]
        \/ cmd' = [cmd EXCEPT ![p] = AfterTries(cmd[p], 2)]
    BY <2>2, RollingBack, Zenon
  <2>4. pc'[p] = "idle" \/ cmd'[p].config = cmd[p].config
    BY <2>3 DEF Leave, AfterTries
  <2> QED
    BY <2>1, <2>4, CapturingSteps DEF WantedBy
<1>49. CASE Restore(p)
  <2>1. pc[p] \in Capturing /\ promised' = promised /\ config' = config
    BY <1>49, CapturingSteps DEF Restore, Step, metadata
  <2>2. cmd' = cmd \/ RollbackEnds(p, TRUE) \/ RollbackEnds(p, FALSE)
    BY <1>49 DEF Restore
  <2>3. \/ cmd' = cmd \/ Leave(p)
        \/ cmd' = [cmd EXCEPT ![p] = AfterTries(cmd[p], 1)]
        \/ cmd' = [cmd EXCEPT ![p] = AfterTries(cmd[p], 2)]
    BY <2>2, RollingBack, Zenon
  <2>4. pc'[p] = "idle" \/ cmd'[p].config = cmd[p].config
    BY <2>3 DEF Leave, AfterTries
  <2> QED
    BY <2>1, <2>4, CapturingSteps DEF WantedBy
<1>50. CASE Unjournal(p)
  <2>1. pc[p] \in Capturing /\ promised' = promised /\ config' = config
    BY <1>50, CapturingSteps DEF Unjournal, Step, metadata
  <2>2. cmd' = cmd \/ RollbackEnds(p, TRUE) \/ RollbackEnds(p, FALSE)
    BY <1>50 DEF Unjournal
  <2>3. \/ cmd' = cmd \/ Leave(p)
        \/ cmd' = [cmd EXCEPT ![p] = AfterTries(cmd[p], 1)]
        \/ cmd' = [cmd EXCEPT ![p] = AfterTries(cmd[p], 2)]
    BY <2>2, RollingBack, Zenon
  <2>4. pc'[p] = "idle" \/ cmd'[p].config = cmd[p].config
    BY <2>3 DEF Leave, AfterTries
  <2> QED
    BY <2>1, <2>4, CapturingSteps DEF WantedBy
<1>51. CASE Reconcile(p)
  BY <1>51, CapturingSteps DEF Reconcile, Step, trees, journals, locks, counters, WantedBy
<1>52. CASE Reconciled(p)
  BY <1>52, CapturingSteps
    DEF Reconciled, Step, Leave, trees, journals, metadata, locks, WantedBy
<1>53. CASE Select(p)
  BY <1>53, CapturingSteps, Discarding
    DEF Select, Step, Leave, trees, journals, metadata, locks, counters, WantedBy, AfterDo
<1>54. CASE NotInstalled(p)
  BY <1>54, CapturingSteps
    DEF NotInstalled, Leave, trees, journals, metadata, counters, WantedBy
<1>55. CASE Prepare(p)
  <2> DEFINE d == IF errors' = errors THEN "remove" ELSE "discard"
  <2>1. cmd'[p] = AfterCapture(cmd[p], d, config, lock, root[cmd[p].ver])
    BY <1>55, Carrying
  <2> HIDE DEF d
  <2>2. cmd'[p].config = config /\ promised' = promised /\ config' = config
    BY <1>55, <2>1 DEF Prepare, AfterCapture, metadata
  <2> QED
    BY <2>2 DEF WantedBy
<1>56. CASE Take(p)
  BY <1>56, CapturingSteps, Discarding
    DEF Take, Fails, Step, journals, metadata, locks, WantedBy, AfterDo
<1>57. CASE Commit(p)
  BY <1>57, CapturingSteps, Discarding
    DEF Commit, Fails, Step, trees, metadata, locks, WantedBy, AfterDo
<1>58. CASE RemoveConfig(p)
  BY <1>58, CapturingSteps DEF RemoveConfig, Fails, Step, trees, journals, locks, WantedBy
<1>59. CASE RemoveLock(p)
  BY <1>59, CapturingSteps DEF RemoveLock, Fails, Step, trees, journals, locks, WantedBy
<1>60. CASE RemoveShim(p)
  BY <1>60, CapturingSteps DEF RemoveShim, Step, trees, journals, locks, counters, WantedBy
<1>61. CASE ShimsRemoved(p)
  BY <1>61, CapturingSteps
    DEF ShimsRemoved, Fails, Step, trees, journals, metadata, locks, WantedBy
<1>62. CASE Clean(p)
  BY <1>62, CapturingSteps
    DEF Clean, FailsAndLeaves, Step, Leave, journals, metadata, locks, WantedBy
<1>63. CASE Tidy(p)
  BY <1>63, CapturingSteps DEF Tidy, FailsAndLeaves, Leave, trees, metadata, WantedBy
<1>64. CASE BackMetadata(p)
  BY <1>64, CapturingSteps DEF BackMetadata, Fails, Step, trees, journals, locks, WantedBy
<1>65. CASE BackRoot(p)
  BY <1>65, CapturingSteps
    DEF BackRoot, RootsBack, Step, Leave, journals, metadata, locks, WantedBy
<1>66. CASE BackJournal(p)
  BY <1>66, CapturingSteps
    DEF BackJournal, RootsBack, Leave, trees, metadata, locks, WantedBy
<1>67. CASE BackShim(p)
  BY <1>67, CapturingSteps DEF BackShim, Step, trees, journals, locks, counters, WantedBy
<1>68. CASE Back(p)
  BY <1>68, CapturingSteps DEF Back, Leave, trees, journals, metadata, WantedBy
<1> QED
  BY <1>1, <1>2, <1>3, <1>4, <1>5, <1>6, <1>7, <1>8, <1>9, <1>10, <1>11, <1>12, <1>13,
     <1>14, <1>15, <1>16, <1>17, <1>18, <1>19, <1>20, <1>21, <1>22, <1>23, <1>24, <1>25,
     <1>26, <1>27, <1>28, <1>29, <1>30, <1>31, <1>32, <1>33, <1>34, <1>35, <1>36, <1>37,
     <1>38, <1>39, <1>40, <1>41, <1>42, <1>43, <1>44, <1>45, <1>46, <1>47, <1>48, <1>49,
     <1>50, <1>51, <1>52, <1>53, <1>54, <1>55, <1>56, <1>57, <1>58, <1>59, <1>60, <1>61,
     <1>62, <1>63, <1>64, <1>65, <1>66, <1>67, <1>68 DEF Run, Recovery, Install, Uninstall

\* What is wanted stands, or comes back, after the step as before it.
LEMMA StandsOwn ==
  ASSUME pc \in [Process -> PcType], cmd \in [Process -> CmdType],
         root \in [Version -> Place], backup \in [Version -> Place],
         away \in [Version -> Place], promotion \in [Version -> PromotionType],
         removal \in [Version -> RemovalType],
         errors \in Nat, errors' <= 1, NEW p \in Process,
         pc[p] # "idle" => cmd[p].ver \in Version, Carries(p), Removals,
         Settling(p) => Unpublished(cmd[p].ver),
         PromotionSection(p), MetadataSection(p), RemovalSection(p),
         Sound, Committed, Returns(p), Start(p) \/ Kill(p) \/ Run(p),
         NEW v \in Version, Stands(v),
         WantedBy(p, v) \/ (pc[p] \in {"pin", "stale", "cleared"} /\ v = cmd[p].ver)
  PROVE  Stands(v)'
<1>1. CASE Start(p) \/ TakeVersion(p) \/ TakeState(p) \/ Kill(p) \/ Recovered(p)
           \/ Refuse(p)
  BY <1>1
    DEF Start, TakeVersion, TakeState, Kill, Recovered, Refuse, trees, journals, Stands,
      Standing, BaseOf, Early
<1>2. CASE UndoShim(p) \/ CompleteConfig(p) \/ CompleteLock(p) \/ CompleteShim(p)
           \/ UndoRefuses(p) \/ UndoFails(p)
  BY <1>2
    DEF UndoShim, CompleteConfig, CompleteLock, CompleteShim, UndoRefuses, UndoFails,
      trees, journals, Stands, Standing, BaseOf, Early
<1>3. CASE Undone(p) \/ Reuse(p) \/ Stage(p) \/ StageFails(p) \/ ReuseIsGone(p)
           \/ Validate(p)
  BY <1>3
    DEF Undone, Reuse, Stage, StageFails, ReuseIsGone, Validate, trees, journals, Stands,
      Standing, BaseOf, Early
<1>4. CASE GenerateShim(p) \/ Generated(p) \/ PersistConfig(p) \/ PersistLock(p)
           \/ RemoveStale(p) \/ Published(p)
  BY <1>4
    DEF GenerateShim, Generated, PersistConfig, PersistLock, RemoveStale, Published, trees,
      journals, Stands, Standing, BaseOf, Early
<1>5. CASE ShimFails(p) \/ Relock(p) \/ Repin(p) \/ Reconcile(p) \/ Reconciled(p)
           \/ Select(p)
  BY <1>5
    DEF ShimFails, Relock, Repin, Reconcile, Reconciled, Select, trees, journals, Stands,
      Standing, BaseOf, Early
<1>6. CASE NotInstalled(p) \/ RemoveConfig(p) \/ RemoveLock(p) \/ RemoveShim(p)
           \/ ShimsRemoved(p) \/ BackMetadata(p)
  BY <1>6
    DEF NotInstalled, RemoveConfig, RemoveLock, RemoveShim, ShimsRemoved, BackMetadata,
      trees, journals, Stands, Standing, BaseOf, Early
<1>7. CASE BackShim(p) \/ Back(p)
  BY <1>7 DEF BackShim, Back, trees, journals, Stands, Standing, BaseOf, Early
<1>8. CASE RecoverAside(p)
  BY <1>8, RemovalSteps, CapturingSteps
    DEF RecoverAside, WantsAside, Put, Step, journals, metadata, Stands, Standing, BaseOf,
      Early, Late, WantedBy, Returns, Sound, PromotionSection, MetadataSection,
      RemovalSection, Carries, Publishing, Rolling, Staged, Failing, Unpublished, Removals
<1>9. CASE RecoverBackup(p)
  <2> DEFINE w == cmd[p].ver
  <2>1. /\ w \in Version /\ WantsBackup(w) /\ root' = Put(root, w, backup[w])
        /\ backup' = Put(backup, w, "gone") /\ away' = away
        /\ promotion' = promotion /\ removal' = removal
    BY <1>9 DEF RecoverBackup, Step, journals
  <2>2. CASE v # w
    BY <2>1, <2>2 DEF Stands, Standing, BaseOf, Early, Put
  <2>3. CASE v = w
    <3>1. removal[v].phase # "committed" => away[v] \in Solid \cup {"gone"}
      BY DEF Sound, Place
    <3>2. root'[v] = backup[v] /\ backup'[v] = "gone"
      BY <2>1, <2>3 DEF Put
    <3> QED
      BY <2>1, <2>3, <3>1, <3>2 DEF Stands, Standing, BaseOf, Early, WantsBackup
  <2> QED
    BY <2>2, <2>3
<1>10. CASE RecoverClear(p)
  BY <1>10, RemovalSteps, CapturingSteps
    DEF RecoverClear, WantsClear, Removed, Put, Step, journals, metadata, Stands, Standing,
      BaseOf, Early, Late, WantedBy, Returns, Sound, PromotionSection, MetadataSection,
      RemovalSection, Carries, Publishing, Rolling, Staged, Failing, Unpublished, Removals
<1>11. CASE RecoverDebris(p)
  <2> DEFINE w == cmd[p].ver
  <2>1. PICK t \in Removed(backup[w]) : backup' = Put(backup, w, t)
    BY <1>11 DEF RecoverDebris
  <2>2. /\ w \in Version /\ Settled(w) /\ root' = root /\ away' = away
        /\ promotion' = promotion /\ removal' = removal /\ backup[w] # "gone"
    BY <1>11 DEF RecoverDebris, Step, journals
  <2>3. CASE v # w
    BY <2>1, <2>2, <2>3 DEF Stands, Standing, BaseOf, Early, Put
  <2>4. CASE v = w
    <3>1. CASE promotion[v].phase = "none"
      BY <2>2, <2>4, <3>1 DEF Stands, Standing, BaseOf, Early
    <3>2. CASE promotion[v].phase # "none"
      <4>1. Stands(v) => removal[v].phase = "committed" \/ ~(Early(v) /\ ~promotion[v].had)
        BY <3>2, ConstantsAssumption DEF Stands, BaseOf
      <4>2. Early(v) /\ promotion[v].had => FALSE
        BY <2>2, <2>4 DEF Settled, WantsBackup, WantsAside
      <4>3. removal[v].phase # "committed" => ~Early(v) /\ Late(v)
        BY <4>1, <4>2, <3>2 DEF Early, Late, PromotionType
      <4>4. removal[v].phase # "committed" => root[v] # "gone"
        BY <2>2, <2>4, <4>3 DEF Settled, Lost
      <4> QED
        BY <2>2, <3>2, <4>3, <4>4 DEF Stands, Standing, BaseOf, Early
    <3> QED
      BY <3>1, <3>2
  <2> QED
    BY <2>3, <2>4
<1>12. CASE RecoverJournal(p)
  BY <1>12, RemovalSteps, CapturingSteps
    DEF RecoverJournal, Settled, Step, NoPromotion, WantsBackup, WantsAside, WantsClear,
      Lost, trees, metadata, Stands, Standing, BaseOf, Early, Late, WantedBy, Returns,
      Sound, PromotionSection, MetadataSection, RemovalSection, Carries, Publishing,
      Rolling, Staged, Failing, Unpublished, Removals
<1>13. CASE RecoverFails(p)
  BY <1>13, RemovalSteps, CapturingSteps
    DEF RecoverFails, FailsAndLeaves, Put, Leave, journals, metadata, Stands, Standing,
      BaseOf, Early, Late, WantedBy, Returns, Sound, PromotionSection, MetadataSection,
      RemovalSection, Carries, Publishing, Rolling, Staged, Failing, Unpublished, Removals
<1>14. CASE UndoRoot(p)
  BY <1>14, RemovalSteps, CapturingSteps
    DEF UndoRoot, Undoing, Put, journals, metadata, Stands, Standing, BaseOf, Early, Late,
      WantedBy, Returns, Sound, PromotionSection, MetadataSection, RemovalSection,
      Carries, Publishing, Rolling, Staged, Failing, Unpublished, Removals
<1>15. CASE CompleteRoot(p)
  BY <1>15, RemovalSteps, CapturingSteps
    DEF CompleteRoot, Completing, Unselected, Removed, Put, journals, metadata, Stands,
      Standing, BaseOf, Early, Late, WantedBy, Returns, Sound, PromotionSection,
      MetadataSection, RemovalSection, Carries, Publishing, Rolling, Staged, Failing,
      Unpublished, Removals
<1>16. CASE UndoJournal(p)
  BY <1>16, RemovalSteps, CapturingSteps
    DEF UndoJournal, Undoing, Completing, Unselected, NoRemoval, trees, metadata, Stands,
      Standing, BaseOf, Early, Late, WantedBy, Returns, Sound, PromotionSection,
      MetadataSection, RemovalSection, Carries, Publishing, Rolling, Staged, Failing,
      Unpublished, Removals, Committed
<1>17. CASE Open(p)
  <2> DEFINE w == cmd[p].ver
             had == root[w] # "gone"
             announced == [promotion EXCEPT ![w] = [phase |-> "prepared", had |-> had]]
  <2>1. /\ pc[p] = "open" /\ w \in Version
        /\ root' = root /\ away' = away /\ backup' = backup /\ removal' = removal
        /\ promotion' \in {promotion, announced}
    BY <1>17 DEF Open, Step, Fails, trees
  <2>2. /\ announced[w].phase = "prepared" /\ (announced[w].had <=> had)
        /\ \A u \in Version \ {w} : announced[u] = promotion[u]
    BY <2>1
  <2> HIDE DEF announced
  <2>3. CASE promotion' = promotion \/ v # w
    BY <2>1, <2>2, <2>3 DEF Stands, Standing, BaseOf, Early
  <2>4. CASE v = w /\ promotion' = announced
    <3>1. promotion[v].phase = "none" /\ backup[v] = "gone"
      BY <2>1, <2>4 DEF Settling, Unpublished
    <3>2. away[v] = "gone" /\ removal[v].phase = "none"
      BY <2>1, <2>4 DEF RemovalSection, Removals
    <3>3. root[v] \in Solid
      BY <3>1, <3>2 DEF Stands, Standing, BaseOf
    <3> QED
      BY <2>1, <2>2, <2>4, <3>1, <3>2, <3>3, ConstantsAssumption
        DEF Stands, Standing, BaseOf, Early
  <2> QED
    BY <2>1, <2>3, <2>4
<1>18. CASE MoveOld(p)
  BY <1>18, RemovalSteps, CapturingSteps
    DEF MoveOld, Fails, Put, Step, journals, metadata, Stands, Standing, BaseOf, Early,
      Late, WantedBy, Returns, Sound, PromotionSection, MetadataSection, RemovalSection,
      Carries, Publishing, Rolling, Staged, Failing, Unpublished, Removals
<1>19. CASE OldMoved(p)
  <2> DEFINE w == cmd[p].ver
  <2>1. /\ pc[p] = "moved" /\ w \in Version
        /\ root' = root /\ away' = away /\ backup' = backup /\ removal' = removal
        /\ promotion' \in {promotion, Journal(w, "old_moved")}
    BY <1>19 DEF OldMoved, Step, Fails, trees
  <2>2. /\ Journal(w, "old_moved")[w].phase = "old_moved"
        /\ Journal(w, "old_moved")[w].had = promotion[w].had
        /\ \A u \in Version \ {w} : Journal(w, "old_moved")[u] = promotion[u]
    BY <2>1, JournalSays
  <2>3. CASE promotion' = promotion \/ v # w
    BY <2>1, <2>2, <2>3 DEF Stands, Standing, BaseOf, Early
  <2>4. CASE v = w /\ promotion' = Journal(w, "old_moved")
    <3>1. promotion'[v].phase = "old_moved" /\ promotion'[v].had = promotion[v].had
      BY <2>2, <2>4
    <3>2. away[v] = "gone" /\ removal[v].phase = "none"
      BY <2>1, <2>4, RemovalSteps DEF RemovalSection, Removals
    <3> QED
      BY <2>1, <2>4, <3>1, <3>2, CapturingSteps
        DEF Stands, Standing, BaseOf, Early, Late, PromotionSection, MetadataSection, WantedBy,
            Returns, Carries, Staged
  <2> QED
    BY <2>1, <2>3, <2>4
<1>20. CASE PlaceNew(p)
  BY <1>20, RemovalSteps, CapturingSteps
    DEF PlaceNew, Fails, Put, Step, journals, metadata, Stands, Standing, BaseOf, Early,
      Late, WantedBy, Returns, Sound, PromotionSection, MetadataSection, RemovalSection,
      Carries, Publishing, Rolling, Staged, Failing, Unpublished, Removals
<1>21. CASE NewPromoted(p)
  <2> DEFINE w == cmd[p].ver
  <2>1. /\ pc[p] = "placed" /\ w \in Version
        /\ root' = root /\ away' = away /\ backup' = backup /\ removal' = removal
        /\ promotion' \in {promotion, Journal(w, "new_promoted")}
    BY <1>21 DEF NewPromoted, Step, Fails, trees
  <2>2. /\ Journal(w, "new_promoted")[w].phase = "new_promoted"
        /\ Journal(w, "new_promoted")[w].had = promotion[w].had
        /\ \A u \in Version \ {w} : Journal(w, "new_promoted")[u] = promotion[u]
    BY <2>1, JournalSays
  <2>3. CASE promotion' = promotion \/ v # w
    BY <2>1, <2>2, <2>3 DEF Stands, Standing, BaseOf, Early
  <2>4. CASE v = w /\ promotion' = Journal(w, "new_promoted")
    <3>1. promotion'[v].phase = "new_promoted" /\ promotion'[v].had = promotion[v].had
      BY <2>2, <2>4
    <3>2. away[v] = "gone" /\ removal[v].phase = "none"
      BY <2>1, <2>4, RemovalSteps DEF RemovalSection, Removals
    <3> QED
      BY <2>1, <2>4, <3>1, <3>2, CapturingSteps
        DEF Stands, Standing, BaseOf, Early, Late, PromotionSection, MetadataSection, WantedBy,
            Returns, Carries, Staged
  <2> QED
    BY <2>1, <2>3, <2>4
<1>22. CASE Unplace(p)
  BY <1>22, RemovalSteps, CapturingSteps
    DEF Unplace, Fails, Put, Step, journals, metadata, Stands, Standing, BaseOf, Early,
      Late, WantedBy, Returns, Sound, PromotionSection, MetadataSection, RemovalSection,
      Carries, Publishing, Rolling, Staged, Failing, Unpublished, Removals
<1>23. CASE DropBackup(p)
  BY <1>23, RemovalSteps, CapturingSteps
    DEF DropBackup, FailsAndLeaves, Put, Leave, journals, metadata, Stands, Standing,
      BaseOf, Early, Late, WantedBy, Returns, Sound, PromotionSection, MetadataSection,
      RemovalSection, Carries, Publishing, Rolling, Staged, Failing, Unpublished, Removals
<1>24. CASE DropJournal(p)
  BY <1>24, RemovalSteps, CapturingSteps
    DEF DropJournal, FailsAndLeaves, Leave, NoPromotion, trees, metadata, Stands, Standing,
      BaseOf, Early, Late, WantedBy, Returns, Sound, PromotionSection, MetadataSection,
      RemovalSection, Carries, Publishing, Rolling, Staged, Failing, Unpublished, Removals
<1>25. CASE Activate(p)
  <2> DEFINE w == cmd[p].ver
  <2>1. /\ pc[p] = "activate" /\ w \in Version
        /\ root' = root /\ away' = away /\ backup' = backup /\ removal' = removal
        /\ promotion' \in {promotion, Journal(w, "activated")}
    BY <1>25 DEF Activate, Step, Fails, trees
  <2>2. /\ Journal(w, "activated")[w].phase = "activated"
        /\ Journal(w, "activated")[w].had = promotion[w].had
        /\ \A u \in Version \ {w} : Journal(w, "activated")[u] = promotion[u]
    BY <2>1, JournalSays
  <2>3. CASE promotion' = promotion \/ v # w
    BY <2>1, <2>2, <2>3 DEF Stands, Standing, BaseOf, Early
  <2>4. CASE v = w /\ promotion' = Journal(w, "activated")
    <3>1. promotion'[v].phase = "activated" /\ promotion'[v].had = promotion[v].had
      BY <2>2, <2>4
    <3>2. away[v] = "gone" /\ removal[v].phase = "none"
      BY <2>1, <2>4, RemovalSteps DEF RemovalSection, Removals
    <3> QED
      BY <2>1, <2>4, <3>1, <3>2, CapturingSteps
        DEF Stands, Standing, BaseOf, Early, Late, PromotionSection, MetadataSection, WantedBy,
            Returns, Carries, Staged
  <2> QED
    BY <2>1, <2>3, <2>4
<1>26. CASE Finish(p)
  BY <1>26, RemovalSteps, CapturingSteps
    DEF Finish, Fails, Removed, Put, Step, journals, metadata, Stands, Standing, BaseOf,
      Early, Late, WantedBy, Returns, Sound, PromotionSection, MetadataSection,
      RemovalSection, Carries, Publishing, Rolling, Staged, Failing, Unpublished, Removals
<1>27. CASE Cleared(p)
  BY <1>27, RemovalSteps, CapturingSteps
    DEF Cleared, FailsAndLeaves, Leave, NoPromotion, trees, metadata, Stands, Standing,
      BaseOf, Early, Late, WantedBy, Returns, Sound, PromotionSection, MetadataSection,
      RemovalSection, Carries, Publishing, Rolling, Staged, Failing, Unpublished, Removals
<1>28. CASE Rollback(p)
  BY <1>28, RemovalSteps, CapturingSteps
    DEF Rollback, RollbackEnds, Put, Step, Leave, journals, metadata, Stands, Standing,
      BaseOf, Early, Late, WantedBy, Returns, Sound, PromotionSection, MetadataSection,
      RemovalSection, Carries, Publishing, Rolling, Staged, Failing, Unpublished, Removals
<1>29. CASE Restore(p)
  BY <1>29, RemovalSteps, CapturingSteps
    DEF Restore, RollbackEnds, Put, Step, Leave, journals, metadata, Stands, Standing,
      BaseOf, Early, Late, WantedBy, Returns, Sound, PromotionSection, MetadataSection,
      RemovalSection, Carries, Publishing, Rolling, Staged, Failing, Unpublished, Removals
<1>30. CASE Unjournal(p)
  BY <1>30, RemovalSteps, CapturingSteps
    DEF Unjournal, RollbackEnds, NoPromotion, Leave, trees, metadata, Stands, Standing,
      BaseOf, Early, Late, WantedBy, Returns, Sound, PromotionSection, MetadataSection,
      RemovalSection, Carries, Publishing, Rolling, Staged, Failing, Unpublished, Removals
<1>31. CASE Prepare(p)
  BY <1>31, RemovalSteps, CapturingSteps
    DEF Prepare, Fails, Step, trees, metadata, Stands, Standing, BaseOf, Early, Late,
      WantedBy, Returns, Sound, PromotionSection, MetadataSection, RemovalSection,
      Carries, Publishing, Rolling, Staged, Failing, Unpublished, Removals
<1>32. CASE Take(p)
  BY <1>32, RemovalSteps, CapturingSteps
    DEF Take, Fails, Put, Step, journals, metadata, Stands, Standing, BaseOf, Early, Late,
      WantedBy, Returns, Sound, PromotionSection, MetadataSection, RemovalSection,
      Carries, Publishing, Rolling, Staged, Failing, Unpublished, Removals
<1>33. CASE Commit(p)
  BY <1>33, RemovalSteps, CapturingSteps
    DEF Commit, Fails, Step, trees, metadata, Stands, Standing, BaseOf, Early, Late,
      WantedBy, Returns, Sound, PromotionSection, MetadataSection, RemovalSection,
      Carries, Publishing, Rolling, Staged, Failing, Unpublished, Removals
<1>34. CASE Clean(p)
  BY <1>34, RemovalSteps, CapturingSteps
    DEF Clean, FailsAndLeaves, Removed, Put, Step, Leave, journals, metadata, Stands,
      Standing, BaseOf, Early, Late, WantedBy, Returns, Sound, PromotionSection,
      MetadataSection, RemovalSection, Carries, Publishing, Rolling, Staged, Failing,
      Unpublished, Removals
<1>35. CASE Tidy(p)
  BY <1>35, RemovalSteps, CapturingSteps
    DEF Tidy, FailsAndLeaves, Leave, NoRemoval, trees, metadata, Stands, Standing, BaseOf,
      Early, Late, WantedBy, Returns, Sound, PromotionSection, MetadataSection,
      RemovalSection, Carries, Publishing, Rolling, Staged, Failing, Unpublished,
      Removals, Committed
<1>36. CASE BackRoot(p)
  BY <1>36, RemovalSteps, CapturingSteps
    DEF BackRoot, RootsBack, Put, Step, Leave, journals, metadata, Stands, Standing,
      BaseOf, Early, Late, WantedBy, Returns, Sound, PromotionSection, MetadataSection,
      RemovalSection, Carries, Publishing, Rolling, Staged, Failing, Unpublished, Removals
<1>37. CASE BackJournal(p)
  BY <1>37, RemovalSteps, CapturingSteps
    DEF BackJournal, RootsBack, NoRemoval, Leave, trees, metadata, Stands, Standing,
      BaseOf, Early, Late, WantedBy, Returns, Sound, PromotionSection, MetadataSection,
      RemovalSection, Carries, Publishing, Rolling, Staged, Failing, Unpublished, Removals
<1> QED
  BY <1>1, <1>2, <1>3, <1>4, <1>5, <1>6, <1>7, <1>8, <1>9, <1>10, <1>11, <1>12, <1>13,
     <1>14, <1>15, <1>16, <1>17, <1>18, <1>19, <1>20, <1>21, <1>22, <1>23, <1>24, <1>25,
     <1>26, <1>27, <1>28, <1>29, <1>30, <1>31, <1>32, <1>33, <1>34, <1>35, <1>36, <1>37
     DEF Run, Recovery, Install, Uninstall

\* What an install is about to have reported stands.
LEMMA InPlace ==
  ASSUME pc \in [Process -> PcType], cmd \in [Process -> CmdType],
         root \in [Version -> Place], promotion \in [Version -> PromotionType],
         NEW p \in Process, pc[p] \in {"pin", "stale", "cleared"}, cmd[p].ver \in Version,
         Carries(p), Removals, PromotionSection(p), RemovalSection(p), Sound, Reuses(p)
  PROVE  Stands(cmd[p].ver)
<1> DEFINE v == cmd[p].ver
<1>1. away[v] = "gone"
  BY RemovalSteps DEF RemovalSection, Removals
<1>2. CASE Late(v) /\ root[v] = cmd[p].new /\ cmd[p].new \in Tree
  <2>1. promotion[v].phase # "none" /\ ~Early(v)
    BY <1>2 DEF Late, Early
  <2>2. root[v] # "gone"
    BY <1>2, ConstantsAssumption
  <2> QED
    BY <1>1, <1>2, <2>1, <2>2 DEF Stands, Standing, BaseOf
<1>3. CASE cmd[p].new = "gone" /\ Unpublished(v) /\ root[v] # "gone"
  <2>1. Holds(p) /\ cmd[p].do = "publish"
    BY DEF Holds, Carries, InstallSteps, Rolling
  <2>2. root[v] # "torn" /\ root[v] \in Place
    BY <1>3, <2>1 DEF Reuses, Sound
  <2>3. root[v] \in Solid
    BY <1>3, <2>2
  <2> QED
    BY <1>1, <1>3, <2>3 DEF Stands, Standing, BaseOf, Unpublished
<1>4. cmd[p].new \in Tree \cup {"gone"} /\ (pc[p] = "cleared" => cmd[p].new \in Tree)
  BY DEF Carries, Staged
<1>5. CASE cmd[p].new \in Tree
  <2>1. cmd[p].new # "gone"
    BY <1>5, ConstantsAssumption
  <2> QED
    BY <1>2, <1>5, <2>1 DEF PromotionSection, Publishing
<1>6. CASE cmd[p].new = "gone" /\ pc[p] # "cleared"
  BY <1>3, <1>6 DEF PromotionSection, Publishing
<1> QED
  BY <1>4, <1>5, <1>6

\* What a step makes of the command that takes it.
LEMMA Changing ==
  ASSUME pc \in [Process -> PcType], cmd \in [Process -> CmdType],
         NEW p \in Process, Start(p) \/ Kill(p) \/ Run(p)
  PROVE  \/ pc'[p] = "idle" /\ cmd'[p] = Idle
         \/ /\ cmd'[p].ver = cmd[p].ver /\ cmd'[p].new = cmd[p].new
            /\ cmd'[p].aside = cmd[p].aside /\ cmd'[p].old = cmd[p].old
            /\ cmd'[p].config = cmd[p].config /\ cmd'[p].do \in {cmd[p].do, "discard", "remove"}
         \/ /\ pc[p] = "idle" /\ pc'[p] \in {"version", "state"}
            /\ cmd'[p].aside = cmd[p].aside /\ cmd'[p].do \in {"recover", "find"}
         \/ /\ pc[p] = "recover" /\ pc'[p] = "recover" /\ cmd'[p].aside = root[cmd[p].ver]
            /\ cmd'[p].do = cmd[p].do
         \/ /\ pc[p] = "check" /\ pc'[p] = "state" /\ root' = root
            /\ cmd'[p].ver = cmd[p].ver /\ cmd'[p].aside = cmd[p].aside
            /\ Passes(root[cmd[p].ver]) \/ cmd'[p].new \in Tree
         \/ /\ pc[p] \in {"open", "prepare"} /\ root' = root
            /\ cmd'[p].ver = cmd[p].ver /\ cmd'[p].new = cmd[p].new
            /\ cmd'[p].aside = cmd[p].aside /\ cmd'[p].old = root[cmd[p].ver]
            /\ cmd'[p].config = config /\ cmd'[p].do \in {cmd[p].do, "discard", "remove"}
<1>1. CASE TakeVersion(p) \/ TakeState(p) \/ RecoverBackup(p) \/ RecoverClear(p)
           \/ RecoverDebris(p) \/ RecoverJournal(p)
  BY <1>1
    DEF TakeVersion, TakeState, RecoverBackup, RecoverClear, RecoverDebris, RecoverJournal,
      Step, locks
<1>2. CASE Recovered(p) \/ UndoRoot(p) \/ UndoShim(p) \/ CompleteConfig(p)
           \/ CompleteLock(p) \/ CompleteShim(p)
  BY <1>2
    DEF Recovered, UndoRoot, UndoShim, CompleteConfig, CompleteLock, CompleteShim, Step,
      locks
<1>3. CASE CompleteRoot(p) \/ UndoJournal(p) \/ Undone(p) \/ MoveOld(p) \/ OldMoved(p)
           \/ PlaceNew(p)
  BY <1>3
    DEF CompleteRoot, UndoJournal, Undone, MoveOld, OldMoved, PlaceNew, Step, Fails, locks
<1>4. CASE NewPromoted(p) \/ Unplace(p) \/ GenerateShim(p) \/ Generated(p)
           \/ PersistConfig(p) \/ PersistLock(p)
  BY <1>4
    DEF NewPromoted, Unplace, GenerateShim, Generated, PersistConfig, PersistLock, Fails,
      Step, locks
<1>5. CASE RemoveStale(p) \/ ShimFails(p) \/ Activate(p) \/ Finish(p) \/ Relock(p)
           \/ Repin(p)
  BY <1>5 DEF RemoveStale, ShimFails, Activate, Finish, Relock, Repin, Step, Fails, locks
<1>6. CASE Reconcile(p) \/ RemoveConfig(p) \/ RemoveLock(p) \/ RemoveShim(p)
           \/ ShimsRemoved(p) \/ BackMetadata(p)
  BY <1>6
    DEF Reconcile, RemoveConfig, RemoveLock, RemoveShim, ShimsRemoved, BackMetadata, Step,
      Fails, locks
<1>7. CASE BackShim(p)
  BY <1>7 DEF BackShim, Step, locks
<1>8. CASE Start(p)
  <2>1. PICK c \in Command :
          /\ cmd'[p] = AfterStart(cmd[p], IF c.op = "install" THEN "recover" ELSE "find", c.ver)
          /\ pc'[p] = IF c.op = "install" THEN "version" ELSE "state"
    BY <1>8, Carrying
  <2>2. pc[p] = "idle"
    BY <1>8 DEF Start, Step
  <2> QED
    BY <2>1, <2>2 DEF AfterStart
<1>9. CASE Kill(p)
  BY <1>9 DEF Kill, Leave
<1>10. CASE RecoverAside(p)
  <2>1. cmd'[p] = AfterAside(cmd[p], root[cmd[p].ver])
    BY <1>10, Carrying
  <2>2. pc[p] = "recover" /\ pc'[p] = "recover"
    BY <1>10 DEF RecoverAside, Step
  <2> QED
    BY <2>1, <2>2 DEF AfterAside
<1>11. CASE RecoverFails(p)
  BY <1>11 DEF RecoverFails, FailsAndLeaves, Leave
<1>12. CASE Refuse(p)
  BY <1>12 DEF Refuse, Leave
<1>13. CASE UndoRefuses(p)
  BY <1>13 DEF UndoRefuses, Leave
<1>14. CASE UndoFails(p)
  BY <1>14 DEF UndoFails, FailsAndLeaves, Leave
<1>15. CASE Reuse(p)
  <2>1. cmd'[p] = AfterDo(cmd[p], "publish")
    BY <1>15, Carrying
  <2>2. pc[p] = "check" /\ pc'[p] = "state" /\ root' = root /\ Passes(root[cmd[p].ver])
    BY <1>15 DEF Reuse, Step, trees
  <2> QED
    BY <2>1, <2>2 DEF AfterDo
<1>16. CASE Stage(p)
  <2>1. PICK t \in Tree : cmd'[p] = AfterStage(cmd[p], t)
    BY <1>16, Carrying
  <2>2. pc[p] = "check" /\ pc'[p] = "state" /\ root' = root
    BY <1>16 DEF Stage, Step, trees
  <2> QED
    BY <2>1, <2>2 DEF AfterStage
<1>17. CASE StageFails(p)
  BY <1>17 DEF StageFails, FailsAndLeaves, Leave
<1>18. CASE ReuseIsGone(p)
  BY <1>18 DEF ReuseIsGone, Leave
<1>19. CASE Open(p)
  <2>1. cmd'[p] = AfterCapture(cmd[p], cmd[p].do, config, lock, root[cmd[p].ver])
    BY <1>19, Carrying
  <2>2. pc[p] = "open" /\ root' = root
    BY <1>19 DEF Open, trees
  <2> QED
    BY <2>1, <2>2 DEF AfterCapture
<1>20. CASE DropBackup(p)
  BY <1>20 DEF DropBackup, FailsAndLeaves, Leave, locks
<1>21. CASE DropJournal(p)
  BY <1>21 DEF DropJournal, FailsAndLeaves, Leave
<1>22. CASE Validate(p)
  <2>1. cmd' = cmd \/ cmd' = [cmd EXCEPT ![p] = AfterDo(cmd[p], "discard")]
    BY <1>22, Discarding DEF Validate
  <2> QED
    BY <2>1 DEF AfterDo
<1>23. CASE Published(p)
  BY <1>23 DEF Published, Step, Leave, locks
<1>24. CASE Cleared(p)
  BY <1>24 DEF Cleared, FailsAndLeaves, Leave
<1>25. CASE Rollback(p)
  <2>1. cmd' = cmd \/ RollbackEnds(p, TRUE) \/ RollbackEnds(p, FALSE)
    BY <1>25 DEF Rollback
  <2>2. \/ cmd' = cmd \/ Leave(p)
        \/ cmd' = [cmd EXCEPT ![p] = AfterTries(cmd[p], 1)]
        \/ cmd' = [cmd EXCEPT ![p] = AfterTries(cmd[p], 2)]
    BY <2>1, RollingBack, Zenon
  <2> QED
    BY <2>2 DEF Leave, AfterTries
<1>26. CASE Restore(p)
  <2>1. cmd' = cmd \/ RollbackEnds(p, TRUE) \/ RollbackEnds(p, FALSE)
    BY <1>26 DEF Restore
  <2>2. \/ cmd' = cmd \/ Leave(p)
        \/ cmd' = [cmd EXCEPT ![p] = AfterTries(cmd[p], 1)]
        \/ cmd' = [cmd EXCEPT ![p] = AfterTries(cmd[p], 2)]
    BY <2>1, RollingBack, Zenon
  <2> QED
    BY <2>2 DEF Leave, AfterTries
<1>27. CASE Unjournal(p)
  <2>1. cmd' = cmd \/ RollbackEnds(p, TRUE) \/ RollbackEnds(p, FALSE)
    BY <1>27 DEF Unjournal
  <2>2. \/ cmd' = cmd \/ Leave(p)
        \/ cmd' = [cmd EXCEPT ![p] = AfterTries(cmd[p], 1)]
        \/ cmd' = [cmd EXCEPT ![p] = AfterTries(cmd[p], 2)]
    BY <2>1, RollingBack, Zenon
  <2> QED
    BY <2>2 DEF Leave, AfterTries
<1>28. CASE Reconciled(p)
  BY <1>28 DEF Reconciled, Step, Leave, locks
<1>29. CASE Select(p)
  <2>1. \/ cmd' = [cmd EXCEPT ![p] = AfterDo(cmd[p], "remove")]
        \/ pc'[p] = "idle" /\ cmd'[p] = Idle
    BY <1>29, Discarding DEF Select, Leave
  <2> QED
    BY <2>1 DEF AfterDo
<1>30. CASE NotInstalled(p)
  BY <1>30 DEF NotInstalled, Leave
<1>31. CASE Prepare(p)
  <2> DEFINE d == IF errors' = errors THEN "remove" ELSE "discard"
  <2>1. cmd'[p] = AfterCapture(cmd[p], d, config, lock, root[cmd[p].ver])
    BY <1>31, Carrying
  <2>2. pc[p] = "prepare" /\ root' = root /\ d \in {"remove", "discard"}
    BY <1>31 DEF Prepare, trees
  <2> HIDE DEF d
  <2> QED
    BY <2>1, <2>2 DEF AfterCapture
<1>32. CASE Take(p)
  <2>1. cmd' = cmd \/ cmd' = [cmd EXCEPT ![p] = AfterDo(cmd[p], "discard")]
    BY <1>32, Discarding DEF Take
  <2> QED
    BY <2>1 DEF AfterDo
<1>33. CASE Commit(p)
  <2>1. cmd' = cmd \/ cmd' = [cmd EXCEPT ![p] = AfterDo(cmd[p], "discard")]
    BY <1>33, Discarding DEF Commit
  <2> QED
    BY <2>1 DEF AfterDo
<1>34. CASE Clean(p)
  BY <1>34 DEF Clean, FailsAndLeaves, Step, Leave, locks
<1>35. CASE Tidy(p)
  BY <1>35 DEF Tidy, FailsAndLeaves, Leave
<1>36. CASE BackRoot(p)
  BY <1>36 DEF BackRoot, RootsBack, Step, Leave, locks
<1>37. CASE BackJournal(p)
  BY <1>37 DEF BackJournal, RootsBack, Leave, locks
<1>38. CASE Back(p)
  BY <1>38 DEF Back, Leave
<1> QED
  BY <1>1, <1>2, <1>3, <1>4, <1>5, <1>6, <1>7, <1>8, <1>9, <1>10, <1>11, <1>12, <1>13,
     <1>14, <1>15, <1>16, <1>17, <1>18, <1>19, <1>20, <1>21, <1>22, <1>23, <1>24, <1>25,
     <1>26, <1>27, <1>28, <1>29, <1>30, <1>31, <1>32, <1>33, <1>34, <1>35, <1>36, <1>37,
     <1>38 DEF Run, Recovery, Install, Uninstall

\* A section is entered at its beginning; an uninstall leaves the promotions alone.
LEMMA Entering ==
  ASSUME pc \in [Process -> PcType], cmd \in [Process -> CmdType],
         NEW p \in Process, Start(p) \/ Kill(p) \/ Run(p)
  PROVE  /\ pc'[p] \in Opened => pc[p] \in Opened \cup {"open"}
         /\ pc'[p] \in Removing => pc[p] \in Removing \cup {"prepare"}
         /\ pc'[p] \in {"clean", "tidy"} \/ pc[p] \notin {"clean", "tidy"} \/ pc'[p] \notin Removing
         /\ pc'[p] \in Removing => promotion' = promotion /\ backup' = backup
         /\ pc'[p] # "idle" => promised' \subseteq promised
<1>1. CASE Start(p)
  BY <1>1, RemovalSteps DEF Start, Step, trees, journals
<1>2. CASE TakeVersion(p)
  BY <1>2, RemovalSteps DEF TakeVersion, Step, trees, journals
<1>3. CASE TakeState(p)
  BY <1>3, RemovalSteps DEF TakeState, Step, trees, journals
<1>4. CASE Kill(p)
  BY <1>4, RemovalSteps DEF Kill, Leave, trees, journals
<1>5. CASE RecoverAside(p)
  BY <1>5, RemovalSteps DEF RecoverAside, Step, journals
<1>6. CASE RecoverBackup(p)
  BY <1>6, RemovalSteps DEF RecoverBackup, Step, journals
<1>7. CASE RecoverClear(p)
  BY <1>7, RemovalSteps DEF RecoverClear, Step, journals
<1>8. CASE RecoverDebris(p)
  BY <1>8, RemovalSteps DEF RecoverDebris, Step, journals
<1>9. CASE RecoverJournal(p)
  BY <1>9, RemovalSteps DEF RecoverJournal, Step, trees
<1>10. CASE Recovered(p)
  BY <1>10, RemovalSteps DEF Recovered, Step, trees, journals
<1>11. CASE RecoverFails(p)
  BY <1>11, RemovalSteps DEF RecoverFails, FailsAndLeaves, Leave, journals
<1>12. CASE Refuse(p)
  BY <1>12, RemovalSteps DEF Refuse, Leave, trees, journals
<1>13. CASE UndoRoot(p)
  BY <1>13, RemovalSteps DEF UndoRoot, Undoing, journals
<1>14. CASE UndoShim(p)
  BY <1>14, RemovalSteps DEF UndoShim, Undoing, trees, journals
<1>15. CASE CompleteConfig(p)
  BY <1>15, RemovalSteps DEF CompleteConfig, Completing, trees, journals
<1>16. CASE CompleteLock(p)
  BY <1>16, RemovalSteps DEF CompleteLock, Completing, trees, journals
<1>17. CASE CompleteShim(p)
  BY <1>17, RemovalSteps DEF CompleteShim, Completing, trees, journals
<1>18. CASE CompleteRoot(p)
  BY <1>18, RemovalSteps DEF CompleteRoot, Completing, journals
<1>19. CASE UndoJournal(p)
  BY <1>19, RemovalSteps DEF UndoJournal, Undoing, Completing, trees
<1>20. CASE UndoRefuses(p)
  BY <1>20, RemovalSteps DEF UndoRefuses, Undoing, Leave, trees, journals
<1>21. CASE UndoFails(p)
  BY <1>21, RemovalSteps DEF UndoFails, FailsAndLeaves, Leave, trees, journals
<1>22. CASE Undone(p)
  BY <1>22, RemovalSteps DEF Undone, Step, trees, journals
<1>23. CASE Reuse(p)
  BY <1>23, RemovalSteps DEF Reuse, Step, trees, journals
<1>24. CASE Stage(p)
  BY <1>24, RemovalSteps DEF Stage, Step, trees, journals
<1>25. CASE StageFails(p)
  BY <1>25, RemovalSteps DEF StageFails, FailsAndLeaves, Leave, trees, journals
<1>26. CASE ReuseIsGone(p)
  BY <1>26, RemovalSteps DEF ReuseIsGone, Leave, trees, journals
<1>27. CASE Open(p)
  BY <1>27, RemovalSteps DEF Open, Fails, Step, trees
<1>28. CASE MoveOld(p)
  BY <1>28, RemovalSteps DEF MoveOld, Fails, Step, journals
<1>29. CASE OldMoved(p)
  BY <1>29, RemovalSteps DEF OldMoved, Fails, Step, trees
<1>30. CASE PlaceNew(p)
  BY <1>30, RemovalSteps DEF PlaceNew, Fails, Step, journals
<1>31. CASE NewPromoted(p)
  BY <1>31, RemovalSteps DEF NewPromoted, Fails, Step, trees
<1>32. CASE Unplace(p)
  BY <1>32, RemovalSteps DEF Unplace, Fails, Step, journals
<1>33. CASE DropBackup(p)
  BY <1>33, RemovalSteps DEF DropBackup, FailsAndLeaves, Leave, journals
<1>34. CASE DropJournal(p)
  BY <1>34, RemovalSteps DEF DropJournal, FailsAndLeaves, Leave, trees
<1>35. CASE Validate(p)
  BY <1>35, RemovalSteps DEF Validate, Fails, Step, trees, journals
<1>36. CASE GenerateShim(p)
  BY <1>36, RemovalSteps DEF GenerateShim, Step, trees, journals
<1>37. CASE Generated(p)
  BY <1>37, RemovalSteps DEF Generated, Step, trees, journals
<1>38. CASE PersistConfig(p)
  BY <1>38, RemovalSteps DEF PersistConfig, Fails, Step, trees, journals
<1>39. CASE PersistLock(p)
  BY <1>39, RemovalSteps DEF PersistLock, Fails, Step, trees, journals
<1>40. CASE RemoveStale(p)
  BY <1>40, RemovalSteps DEF RemoveStale, Step, trees, journals
<1>41. CASE Published(p)
  BY <1>41, RemovalSteps DEF Published, Step, Leave, trees, journals
<1>42. CASE ShimFails(p)
  BY <1>42, RemovalSteps DEF ShimFails, Fails, Step, trees, journals
<1>43. CASE Activate(p)
  BY <1>43, RemovalSteps DEF Activate, Fails, Step, trees
<1>44. CASE Finish(p)
  BY <1>44, RemovalSteps DEF Finish, Fails, Step, journals
<1>45. CASE Cleared(p)
  BY <1>45, RemovalSteps DEF Cleared, FailsAndLeaves, Leave, trees
<1>46. CASE Relock(p)
  BY <1>46, RemovalSteps DEF Relock, Fails, Step, trees, journals
<1>47. CASE Repin(p)
  BY <1>47, RemovalSteps DEF Repin, Repinned, Fails, Step, trees, journals
<1>48. CASE Rollback(p)
  <2>1. pc[p] \in Opened \ Removing /\ promised' = promised
    BY <1>48, RemovalSteps DEF Rollback, Step
  <2>2. pc'[p] \in {"restore", "unjournal"} \/ RollbackEnds(p, TRUE) \/ RollbackEnds(p, FALSE)
    BY <1>48 DEF Rollback, Step
  <2>3. \/ pc'[p] \in {"restore", "unjournal"} \/ Leave(p)
        \/ pc' = [pc EXCEPT ![p] = IF cmd[p].do = "discard" THEN "rollback" ELSE "reconcile"]
        \/ pc' = [pc EXCEPT ![p] = "reconcile"]
    BY <2>2, RollingBack, Zenon
  <2>4. pc'[p] \in {"idle", "restore", "unjournal", "rollback", "reconcile"}
    BY <2>3 DEF Leave
  <2> QED
    BY <2>1, <2>4, RemovalSteps
<1>49. CASE Restore(p)
  <2>1. pc[p] \in Opened \ Removing /\ promised' = promised
    BY <1>49, RemovalSteps DEF Restore, Step
  <2>2. pc'[p] \in {"restore", "unjournal"} \/ RollbackEnds(p, TRUE) \/ RollbackEnds(p, FALSE)
    BY <1>49 DEF Restore, Step
  <2>3. \/ pc'[p] \in {"restore", "unjournal"} \/ Leave(p)
        \/ pc' = [pc EXCEPT ![p] = IF cmd[p].do = "discard" THEN "rollback" ELSE "reconcile"]
        \/ pc' = [pc EXCEPT ![p] = "reconcile"]
    BY <2>2, RollingBack, Zenon
  <2>4. pc'[p] \in {"idle", "restore", "unjournal", "rollback", "reconcile"}
    BY <2>3 DEF Leave
  <2> QED
    BY <2>1, <2>4, RemovalSteps
<1>50. CASE Unjournal(p)
  <2>1. pc[p] \in Opened \ Removing /\ promised' = promised
    BY <1>50, RemovalSteps DEF Unjournal, Step
  <2>2. pc'[p] \in {"restore", "unjournal"} \/ RollbackEnds(p, TRUE) \/ RollbackEnds(p, FALSE)
    BY <1>50 DEF Unjournal, Step
  <2>3. \/ pc'[p] \in {"restore", "unjournal"} \/ Leave(p)
        \/ pc' = [pc EXCEPT ![p] = IF cmd[p].do = "discard" THEN "rollback" ELSE "reconcile"]
        \/ pc' = [pc EXCEPT ![p] = "reconcile"]
    BY <2>2, RollingBack, Zenon
  <2>4. pc'[p] \in {"idle", "restore", "unjournal", "rollback", "reconcile"}
    BY <2>3 DEF Leave
  <2> QED
    BY <2>1, <2>4, RemovalSteps
<1>51. CASE Reconcile(p)
  BY <1>51, RemovalSteps DEF Reconcile, Step, trees, journals
<1>52. CASE Reconciled(p)
  BY <1>52, RemovalSteps DEF Reconciled, Step, Leave, trees, journals
<1>53. CASE Select(p)
  BY <1>53, RemovalSteps DEF Select, Step, Leave, trees, journals
<1>54. CASE NotInstalled(p)
  BY <1>54, RemovalSteps DEF NotInstalled, Leave, trees, journals
<1>55. CASE Prepare(p)
  BY <1>55, RemovalSteps DEF Prepare, Fails, Step, trees
<1>56. CASE Take(p)
  BY <1>56, RemovalSteps DEF Take, Fails, Step, journals
<1>57. CASE Commit(p)
  BY <1>57, RemovalSteps DEF Commit, Fails, Step, trees
<1>58. CASE RemoveConfig(p)
  BY <1>58, RemovalSteps DEF RemoveConfig, Fails, Step, trees, journals
<1>59. CASE RemoveLock(p)
  BY <1>59, RemovalSteps DEF RemoveLock, Fails, Step, trees, journals
<1>60. CASE RemoveShim(p)
  BY <1>60, RemovalSteps DEF RemoveShim, Step, trees, journals
<1>61. CASE ShimsRemoved(p)
  BY <1>61, RemovalSteps DEF ShimsRemoved, Fails, Step, trees, journals
<1>62. CASE Clean(p)
  BY <1>62, RemovalSteps DEF Clean, FailsAndLeaves, Step, Leave, journals
<1>63. CASE Tidy(p)
  BY <1>63, RemovalSteps DEF Tidy, FailsAndLeaves, Leave, trees
<1>64. CASE BackMetadata(p)
  BY <1>64, RemovalSteps DEF BackMetadata, Fails, Step, trees, journals
<1>65. CASE BackRoot(p)
  BY <1>65, RemovalSteps DEF BackRoot, RootsBack, Step, Leave, journals
<1>66. CASE BackJournal(p)
  BY <1>66, RemovalSteps DEF BackJournal, RootsBack, Leave, trees
<1>67. CASE BackShim(p)
  BY <1>67, RemovalSteps DEF BackShim, Step, trees, journals
<1>68. CASE Back(p)
  BY <1>68, RemovalSteps DEF Back, Leave, trees, journals
<1> QED
  BY <1>1, <1>2, <1>3, <1>4, <1>5, <1>6, <1>7, <1>8, <1>9, <1>10, <1>11, <1>12, <1>13,
     <1>14, <1>15, <1>16, <1>17, <1>18, <1>19, <1>20, <1>21, <1>22, <1>23, <1>24, <1>25,
     <1>26, <1>27, <1>28, <1>29, <1>30, <1>31, <1>32, <1>33, <1>34, <1>35, <1>36, <1>37,
     <1>38, <1>39, <1>40, <1>41, <1>42, <1>43, <1>44, <1>45, <1>46, <1>47, <1>48, <1>49,
     <1>50, <1>51, <1>52, <1>53, <1>54, <1>55, <1>56, <1>57, <1>58, <1>59, <1>60, <1>61,
     <1>62, <1>63, <1>64, <1>65, <1>66, <1>67, <1>68 DEF Run, Recovery, Install, Uninstall

\* What is captured when a publication or an uninstall begins.
LEMMA Opens ==
  ASSUME pc \in [Process -> PcType], cmd \in [Process -> CmdType],
         NEW p \in Process, pc[p] \in {"open", "prepare"}, pc'[p] \in Opened \cup Removing,
         Start(p) \/ Kill(p) \/ Run(p)
  PROVE  /\ cmd'[p].ver = cmd[p].ver /\ cmd'[p].old = root[cmd[p].ver]
         /\ cmd'[p].config = config
<1>1. CASE Start(p)
  BY <1>1, RemovalSteps DEF Start, Step
<1>2. CASE TakeVersion(p)
  BY <1>2, RemovalSteps DEF TakeVersion, Step
<1>3. CASE TakeState(p)
  BY <1>3, RemovalSteps DEF TakeState, Step
<1>4. CASE Kill(p)
  BY <1>4, RemovalSteps DEF Kill, Leave
<1>5. CASE RecoverAside(p)
  BY <1>5, RemovalSteps DEF RecoverAside, Step
<1>6. CASE RecoverBackup(p)
  BY <1>6, RemovalSteps DEF RecoverBackup, Step
<1>7. CASE RecoverClear(p)
  BY <1>7, RemovalSteps DEF RecoverClear, Step
<1>8. CASE RecoverDebris(p)
  BY <1>8, RemovalSteps DEF RecoverDebris, Step
<1>9. CASE RecoverJournal(p)
  BY <1>9, RemovalSteps DEF RecoverJournal, Step
<1>10. CASE Recovered(p)
  BY <1>10, RemovalSteps DEF Recovered, Step
<1>11. CASE RecoverFails(p)
  BY <1>11, RemovalSteps DEF RecoverFails, FailsAndLeaves, Leave
<1>12. CASE Refuse(p)
  BY <1>12, RemovalSteps DEF Refuse, Leave
<1>13. CASE UndoRoot(p)
  BY <1>13, RemovalSteps DEF UndoRoot, Undoing
<1>14. CASE UndoShim(p)
  BY <1>14, RemovalSteps DEF UndoShim, Undoing
<1>15. CASE CompleteConfig(p)
  BY <1>15, RemovalSteps DEF CompleteConfig, Completing
<1>16. CASE CompleteLock(p)
  BY <1>16, RemovalSteps DEF CompleteLock, Completing
<1>17. CASE CompleteShim(p)
  BY <1>17, RemovalSteps DEF CompleteShim, Completing
<1>18. CASE CompleteRoot(p)
  BY <1>18, RemovalSteps DEF CompleteRoot, Completing
<1>19. CASE UndoJournal(p)
  BY <1>19, RemovalSteps DEF UndoJournal, Undoing, Completing
<1>20. CASE UndoRefuses(p)
  BY <1>20, RemovalSteps DEF UndoRefuses, Undoing, Leave
<1>21. CASE UndoFails(p)
  BY <1>21, RemovalSteps DEF UndoFails, FailsAndLeaves, Leave
<1>22. CASE Undone(p)
  BY <1>22, RemovalSteps DEF Undone, Step
<1>23. CASE Reuse(p)
  BY <1>23, RemovalSteps DEF Reuse, Step
<1>24. CASE Stage(p)
  BY <1>24, RemovalSteps DEF Stage, Step
<1>25. CASE StageFails(p)
  BY <1>25, RemovalSteps DEF StageFails, FailsAndLeaves, Leave
<1>26. CASE ReuseIsGone(p)
  BY <1>26, RemovalSteps DEF ReuseIsGone, Leave
<1>27. CASE Open(p)
  <2>1. cmd'[p] = AfterCapture(cmd[p], cmd[p].do, config, lock, root[cmd[p].ver])
    BY <1>27, Carrying
  <2> QED
    BY <2>1 DEF AfterCapture
<1>28. CASE MoveOld(p)
  BY <1>28, RemovalSteps DEF MoveOld, Fails, Step
<1>29. CASE OldMoved(p)
  BY <1>29, RemovalSteps DEF OldMoved, Fails, Step
<1>30. CASE PlaceNew(p)
  BY <1>30, RemovalSteps DEF PlaceNew, Fails, Step
<1>31. CASE NewPromoted(p)
  BY <1>31, RemovalSteps DEF NewPromoted, Fails, Step
<1>32. CASE Unplace(p)
  BY <1>32, RemovalSteps DEF Unplace, Fails, Step
<1>33. CASE DropBackup(p)
  BY <1>33, RemovalSteps DEF DropBackup, FailsAndLeaves, Leave
<1>34. CASE DropJournal(p)
  BY <1>34, RemovalSteps DEF DropJournal, FailsAndLeaves, Leave
<1>35. CASE Validate(p)
  BY <1>35, RemovalSteps DEF Validate, Fails, Step
<1>36. CASE GenerateShim(p)
  BY <1>36, RemovalSteps DEF GenerateShim, Step
<1>37. CASE Generated(p)
  BY <1>37, RemovalSteps DEF Generated, Step
<1>38. CASE PersistConfig(p)
  BY <1>38, RemovalSteps DEF PersistConfig, Fails, Step
<1>39. CASE PersistLock(p)
  BY <1>39, RemovalSteps DEF PersistLock, Fails, Step
<1>40. CASE RemoveStale(p)
  BY <1>40, RemovalSteps DEF RemoveStale, Step
<1>41. CASE Published(p)
  BY <1>41, RemovalSteps DEF Published, Step, Leave
<1>42. CASE ShimFails(p)
  BY <1>42, RemovalSteps DEF ShimFails, Fails, Step
<1>43. CASE Activate(p)
  BY <1>43, RemovalSteps DEF Activate, Fails, Step
<1>44. CASE Finish(p)
  BY <1>44, RemovalSteps DEF Finish, Fails, Step
<1>45. CASE Cleared(p)
  BY <1>45, RemovalSteps DEF Cleared, FailsAndLeaves, Leave
<1>46. CASE Relock(p)
  BY <1>46, RemovalSteps DEF Relock, Fails, Step
<1>47. CASE Repin(p)
  BY <1>47, RemovalSteps DEF Repin, Repinned, Fails, Step
<1>48. CASE Rollback(p)
  <2> QED
    BY <1>48 DEF Rollback
<1>49. CASE Restore(p)
  <2> QED
    BY <1>49 DEF Restore
<1>50. CASE Unjournal(p)
  <2> QED
    BY <1>50 DEF Unjournal
<1>51. CASE Reconcile(p)
  BY <1>51, RemovalSteps DEF Reconcile, Step
<1>52. CASE Reconciled(p)
  BY <1>52, RemovalSteps DEF Reconciled, Step, Leave
<1>53. CASE Select(p)
  BY <1>53, RemovalSteps DEF Select, Step, Leave
<1>54. CASE NotInstalled(p)
  BY <1>54, RemovalSteps DEF NotInstalled, Leave
<1>55. CASE Prepare(p)
  <2> DEFINE d == IF errors' = errors THEN "remove" ELSE "discard"
  <2>1. cmd'[p] = AfterCapture(cmd[p], d, config, lock, root[cmd[p].ver])
    BY <1>55, Carrying
  <2> HIDE DEF d
  <2> QED
    BY <2>1 DEF AfterCapture
<1>56. CASE Take(p)
  BY <1>56, RemovalSteps DEF Take, Fails, Step
<1>57. CASE Commit(p)
  BY <1>57, RemovalSteps DEF Commit, Fails, Step
<1>58. CASE RemoveConfig(p)
  BY <1>58, RemovalSteps DEF RemoveConfig, Fails, Step
<1>59. CASE RemoveLock(p)
  BY <1>59, RemovalSteps DEF RemoveLock, Fails, Step
<1>60. CASE RemoveShim(p)
  BY <1>60, RemovalSteps DEF RemoveShim, Step
<1>61. CASE ShimsRemoved(p)
  BY <1>61, RemovalSteps DEF ShimsRemoved, Fails, Step
<1>62. CASE Clean(p)
  BY <1>62, RemovalSteps DEF Clean, FailsAndLeaves, Step, Leave
<1>63. CASE Tidy(p)
  BY <1>63, RemovalSteps DEF Tidy, FailsAndLeaves, Leave
<1>64. CASE BackMetadata(p)
  BY <1>64, RemovalSteps DEF BackMetadata, Fails, Step
<1>65. CASE BackRoot(p)
  BY <1>65, RemovalSteps DEF BackRoot, RootsBack, Step, Leave
<1>66. CASE BackJournal(p)
  BY <1>66, RemovalSteps DEF BackJournal, RootsBack, Leave
<1>67. CASE BackShim(p)
  BY <1>67, RemovalSteps DEF BackShim, Step
<1>68. CASE Back(p)
  BY <1>68, RemovalSteps DEF Back, Leave
<1> QED
  BY <1>1, <1>2, <1>3, <1>4, <1>5, <1>6, <1>7, <1>8, <1>9, <1>10, <1>11, <1>12, <1>13,
     <1>14, <1>15, <1>16, <1>17, <1>18, <1>19, <1>20, <1>21, <1>22, <1>23, <1>24, <1>25,
     <1>26, <1>27, <1>28, <1>29, <1>30, <1>31, <1>32, <1>33, <1>34, <1>35, <1>36, <1>37,
     <1>38, <1>39, <1>40, <1>41, <1>42, <1>43, <1>44, <1>45, <1>46, <1>47, <1>48, <1>49,
     <1>50, <1>51, <1>52, <1>53, <1>54, <1>55, <1>56, <1>57, <1>58, <1>59, <1>60, <1>61,
     <1>62, <1>63, <1>64, <1>65, <1>66, <1>67, <1>68 DEF Run, Recovery, Install, Uninstall

\* The old tree of a command that may put it back is complete.
LEMMA ReturnsOwn ==
  ASSUME pc \in [Process -> PcType], cmd \in [Process -> CmdType],
         root \in [Version -> Place], promotion \in [Version -> PromotionType],
         NEW p \in Process, pc[p] # "idle" => cmd[p].ver \in Version, Removals,
         pc[p] = "open" => Unpublished(cmd[p].ver), RemovalSection(p), Returns(p),
         pc[p] # "idle" /\ WantedBy(p, cmd[p].ver) => Stands(cmd[p].ver),
         Start(p) \/ Kill(p) \/ Run(p)
  PROVE  Returns(p)'
<1> DEFINE v == cmd[p].ver
           wanted == v \in promised \/ cmd[p].config = v
<1>1. CASE pc'[p] \notin Opened \cup Removing
  BY <1>1 DEF Returns
<1>2. CASE pc[p] \in Opened \cup Removing /\ pc'[p] \in Opened \cup Removing
  <2>1. /\ cmd'[p].ver = v /\ cmd'[p].old = cmd[p].old /\ cmd'[p].config = cmd[p].config
    BY <1>2, Changing, RemovalSteps
  <2>2. (cmd'[p].ver \in promised' \/ cmd'[p].config = cmd'[p].ver) => wanted
    BY <1>2, <2>1, Entering, RemovalSteps
  <2>3. CASE pc'[p] \in Opened
    <3>1. pc[p] \in Opened
      BY <1>2, <2>3, Entering, RemovalSteps
    <3>2. wanted => cmd[p].old \in Solid
      BY <3>1 DEF Returns
    <3> QED
      BY <2>1, <2>2, <2>3, <3>2, RemovalSteps DEF Returns
  <2>4. CASE pc'[p] \in Removing \ {"clean", "tidy"}
    <3>1. pc[p] \in Removing \ {"clean", "tidy"} /\ promotion' = promotion /\ backup' = backup
      BY <1>2, <2>4, Entering, RemovalSteps
    <3>2. wanted => BaseOf(v, cmd[p].old) \in Solid
      BY <3>1 DEF Returns
    <3>3. BaseOf(cmd[p].ver, cmd[p].old)' = BaseOf(v, cmd[p].old)
      BY <2>1, <3>1 DEF BaseOf, Early
    <3> QED
      BY <2>2, <2>4, <3>2, <3>3, RemovalSteps DEF Returns
  <2> QED
    BY <1>2, <2>3, <2>4, RemovalSteps DEF Returns
<1>3. CASE pc[p] = "open" /\ pc'[p] \in Opened
  <2>1. cmd'[p].ver = v /\ cmd'[p].old = root[v] /\ cmd'[p].config = config
    BY <1>3, Opens
  <2>2. promised' \subseteq promised /\ away[v] = "gone"
    BY <1>3, Entering, RemovalSteps DEF RemovalSection, Removals
  <2>3. Stands(v) => root[v] \in Solid
    BY <1>3, <2>2 DEF Stands, Standing, BaseOf, Unpublished, RemovalSection
  <2> QED
    BY <1>3, <2>1, <2>2, <2>3, RemovalSteps DEF Returns, WantedBy
<1>4. CASE pc[p] = "prepare" /\ pc'[p] \in Removing
  <2>1. cmd'[p].ver = v /\ cmd'[p].old = root[v] /\ cmd'[p].config = config
    BY <1>4, Opens, RemovalSteps
  <2>2. promised' \subseteq promised /\ away[v] = "gone"
    BY <1>4, Entering, RemovalSteps DEF RemovalSection, Removals
  <2>3. promotion' = promotion /\ backup' = backup
    BY <1>4, Entering
  <2>4. Stands(v) => BaseOf(v, root[v]) \in Solid
    BY <1>4, <2>2 DEF Stands, Standing, RemovalSection
  <2>5. BaseOf(cmd[p].ver, cmd[p].old)' = BaseOf(v, root[v])
    BY <2>1, <2>3 DEF BaseOf, Early
  <2> QED
    BY <1>4, <2>1, <2>2, <2>4, <2>5, RemovalSteps DEF Returns, WantedBy
<1> QED
  BY <1>1, <1>2, <1>3, <1>4, Entering

\* A torn tree that an uninstall has set aside never comes back.
LEMMA TornNever ==
  ASSUME pc \in [Process -> PcType], cmd \in [Process -> CmdType],
         root \in [Version -> Place], backup \in [Version -> Place],
         away \in [Version -> Place], removal \in [Version -> RemovalType],
         errors \in Nat, errors' <= 1, NEW p \in Process,
         pc[p] # "idle" => cmd[p].ver \in Version, Carries(p), Removals,
         RemovalSection(p), Sound, Start(p) \/ Kill(p) \/ Run(p)
  PROVE  \A u \in Version : removal'[u].phase # "committed" => away'[u] # "torn"
<1>1. CASE Start(p) \/ TakeVersion(p) \/ TakeState(p) \/ Kill(p) \/ RecoverAside(p)
           \/ RecoverBackup(p)
  BY <1>1
    DEF Start, TakeVersion, TakeState, Kill, RecoverAside, RecoverBackup, trees, journals,
      Sound
<1>2. CASE RecoverClear(p) \/ RecoverDebris(p) \/ RecoverJournal(p) \/ Recovered(p)
           \/ RecoverFails(p) \/ Refuse(p)
  BY <1>2
    DEF RecoverClear, RecoverDebris, RecoverJournal, Recovered, RecoverFails, Refuse,
      trees, journals, Sound
<1>3. CASE UndoShim(p) \/ CompleteConfig(p) \/ CompleteLock(p) \/ CompleteShim(p)
           \/ UndoRefuses(p) \/ UndoFails(p)
  BY <1>3
    DEF UndoShim, CompleteConfig, CompleteLock, CompleteShim, UndoRefuses, UndoFails,
      trees, journals, Sound
<1>4. CASE Undone(p) \/ Reuse(p) \/ Stage(p) \/ StageFails(p) \/ ReuseIsGone(p)
           \/ Open(p)
  BY <1>4 DEF Undone, Reuse, Stage, StageFails, ReuseIsGone, Open, trees, journals, Sound
<1>5. CASE MoveOld(p) \/ OldMoved(p) \/ PlaceNew(p) \/ NewPromoted(p) \/ Unplace(p)
           \/ DropBackup(p)
  BY <1>5
    DEF MoveOld, OldMoved, PlaceNew, NewPromoted, Unplace, DropBackup, trees, journals,
      Sound
<1>6. CASE DropJournal(p) \/ Validate(p) \/ GenerateShim(p) \/ Generated(p)
           \/ PersistConfig(p) \/ PersistLock(p)
  BY <1>6
    DEF DropJournal, Validate, GenerateShim, Generated, PersistConfig, PersistLock, trees,
      journals, Sound
<1>7. CASE RemoveStale(p) \/ Published(p) \/ ShimFails(p) \/ Activate(p) \/ Finish(p)
           \/ Cleared(p)
  BY <1>7
    DEF RemoveStale, Published, ShimFails, Activate, Finish, Cleared, trees, journals, Sound
<1>8. CASE Relock(p) \/ Repin(p) \/ Rollback(p) \/ Restore(p) \/ Unjournal(p)
           \/ Reconcile(p)
  BY <1>8 DEF Relock, Repin, Rollback, Restore, Unjournal, Reconcile, trees, journals, Sound
<1>9. CASE Reconciled(p) \/ Select(p) \/ NotInstalled(p) \/ RemoveConfig(p)
           \/ RemoveLock(p) \/ RemoveShim(p)
  BY <1>9
    DEF Reconciled, Select, NotInstalled, RemoveConfig, RemoveLock, RemoveShim, trees,
      journals, Sound
<1>10. CASE ShimsRemoved(p) \/ BackMetadata(p) \/ BackShim(p) \/ Back(p)
  BY <1>10 DEF ShimsRemoved, BackMetadata, BackShim, Back, trees, journals, Sound
<1>11. CASE UndoRoot(p)
  BY <1>11, RemovalSteps DEF UndoRoot, Undoing, Put, journals, Sound
<1>12. CASE CompleteRoot(p)
  BY <1>12, RemovalSteps DEF CompleteRoot, Completing, Removed, Put, journals, Sound
<1>13. CASE UndoJournal(p)
  BY <1>13, RemovalSteps DEF UndoJournal, Undoing, Completing, NoRemoval, trees, Sound
<1>14. CASE Prepare(p)
  <2> DEFINE v == cmd[p].ver
             begun == [removal EXCEPT ![v] = [phase |-> "moving", config |-> config = v,
                                              lock |-> lock = v]]
  <2>1. pc[p] = "prepare" /\ v \in Version /\ removal' \in {removal, begun} /\ away' = away
    BY <1>14 DEF Prepare, Step, Fails, trees
  <2>2. \A u \in Version \ {v} : begun[u] = removal[u]
    BY <2>1
  <2> HIDE DEF begun
  <2>3. away[v] = "gone"
    BY <2>1 DEF RemovalSection, Removals
  <2> QED
    BY <2>1, <2>2, <2>3 DEF Sound
<1>15. CASE Take(p)
  BY <1>15, RemovalSteps DEF Take, Fails, Put, Step, journals, Sound, RemovalSection, Passes
<1>16. CASE Commit(p)
  BY <1>16, RemovalSteps DEF Commit, Fails, Step, trees, Sound, RemovalSection, Passes
<1>17. CASE Clean(p)
  BY <1>17, RemovalSteps
    DEF Clean, FailsAndLeaves, Removed, Put, Step, journals, Sound, RemovalSection
<1>18. CASE Tidy(p)
  BY <1>18, RemovalSteps DEF Tidy, FailsAndLeaves, NoRemoval, trees, Sound, RemovalSection
<1>19. CASE BackRoot(p)
  BY <1>19, RemovalSteps DEF BackRoot, Put, Step, journals, Sound, RemovalSection
<1>20. CASE BackJournal(p)
  BY <1>20, RemovalSteps DEF BackJournal, NoRemoval, trees, Sound, RemovalSection
<1> QED
  BY <1>1, <1>2, <1>3, <1>4, <1>5, <1>6, <1>7, <1>8, <1>9, <1>10, <1>11, <1>12, <1>13,
     <1>14, <1>15, <1>16, <1>17, <1>18, <1>19, <1>20 DEF Run, Recovery, Install, Uninstall

\* What a committed uninstall removes stays unwanted.
LEMMA CommittedOwn ==
  ASSUME pc \in [Process -> PcType], cmd \in [Process -> CmdType],
         removal \in [Version -> RemovalType], errors \in Nat, errors' <= 1, NEW p \in Process,
         pc[p] # "idle" => cmd[p].ver \in Version, MetadataSection(p), RemovalSection(p),
         Committed, Start(p) \/ Kill(p) \/ Run(p)
  PROVE  Committed'
<1>1. CASE Start(p) \/ TakeVersion(p) \/ TakeState(p) \/ Kill(p) \/ RecoverAside(p)
           \/ RecoverBackup(p)
  BY <1>1
    DEF Start, TakeVersion, TakeState, Kill, RecoverAside, RecoverBackup, journals,
      metadata, Committed
<1>2. CASE RecoverClear(p) \/ RecoverDebris(p) \/ RecoverJournal(p) \/ Recovered(p)
           \/ RecoverFails(p) \/ Refuse(p)
  BY <1>2
    DEF RecoverClear, RecoverDebris, RecoverJournal, Recovered, RecoverFails, Refuse,
      journals, metadata, Committed
<1>3. CASE UndoRoot(p) \/ UndoShim(p) \/ CompleteLock(p) \/ CompleteShim(p)
           \/ CompleteRoot(p) \/ UndoRefuses(p)
  BY <1>3
    DEF UndoRoot, UndoShim, CompleteLock, CompleteShim, CompleteRoot, UndoRefuses,
      journals, metadata, Committed
<1>4. CASE UndoFails(p) \/ Undone(p) \/ Reuse(p) \/ Stage(p) \/ StageFails(p)
           \/ ReuseIsGone(p)
  BY <1>4
    DEF UndoFails, Undone, Reuse, Stage, StageFails, ReuseIsGone, journals, metadata,
      Committed
<1>5. CASE Open(p) \/ MoveOld(p) \/ OldMoved(p) \/ PlaceNew(p) \/ NewPromoted(p)
           \/ Unplace(p)
  BY <1>5
    DEF Open, MoveOld, OldMoved, PlaceNew, NewPromoted, Unplace, journals, metadata,
      Committed
<1>6. CASE DropBackup(p) \/ DropJournal(p) \/ Validate(p) \/ GenerateShim(p)
           \/ Generated(p) \/ PersistLock(p)
  BY <1>6
    DEF DropBackup, DropJournal, Validate, GenerateShim, Generated, PersistLock, journals,
      metadata, Committed
<1>7. CASE RemoveStale(p) \/ ShimFails(p) \/ Activate(p) \/ Finish(p) \/ Relock(p)
           \/ Rollback(p)
  BY <1>7
    DEF RemoveStale, ShimFails, Activate, Finish, Relock, Rollback, journals, metadata,
      Committed
<1>8. CASE Restore(p) \/ Unjournal(p) \/ Reconcile(p) \/ Reconciled(p) \/ Select(p)
           \/ NotInstalled(p)
  BY <1>8
    DEF Restore, Unjournal, Reconcile, Reconciled, Select, NotInstalled, journals,
      metadata, Committed
<1>9. CASE Take(p) \/ RemoveLock(p) \/ RemoveShim(p) \/ ShimsRemoved(p) \/ Clean(p)
           \/ BackRoot(p)
  BY <1>9
    DEF Take, RemoveLock, RemoveShim, ShimsRemoved, Clean, BackRoot, journals, metadata,
      Committed
<1>10. CASE BackShim(p) \/ Back(p)
  BY <1>10 DEF BackShim, Back, journals, metadata, Committed
<1>11. CASE CompleteConfig(p)
  BY <1>11, RemovalSteps
    DEF CompleteConfig, Completing, journals, Committed, RemovalSection, MetadataSection
<1>12. CASE UndoJournal(p)
  BY <1>12, RemovalSteps
    DEF UndoJournal, Undoing, Completing, NoRemoval, metadata, Committed, RemovalSection,
      MetadataSection
<1>13. CASE PersistConfig(p)
  BY <1>13, RemovalSteps
    DEF PersistConfig, Fails, Step, journals, Committed, RemovalSection, MetadataSection
<1>14. CASE Published(p)
  BY <1>14, RemovalSteps
    DEF Published, Step, journals, metadata, Committed, RemovalSection, MetadataSection
<1>15. CASE Cleared(p)
  BY <1>15, RemovalSteps
    DEF Cleared, FailsAndLeaves, metadata, Committed, RemovalSection, MetadataSection
<1>16. CASE Repin(p)
  BY <1>16, RemovalSteps
    DEF Repin, Repinned, Fails, Step, journals, Committed, RemovalSection, MetadataSection
<1>17. CASE Prepare(p)
  BY <1>17, RemovalSteps
    DEF Prepare, Fails, Step, metadata, Committed, RemovalSection, MetadataSection
<1>18. CASE Commit(p)
  <2> DEFINE v == cmd[p].ver
             committed == [removal EXCEPT ![v].phase = "committed"]
  <2>1. /\ pc[p] = "commit" /\ v \in Version /\ promised' = promised \ {v} /\ config' = config
        /\ removal' \in {removal, committed}
    BY <1>18 DEF Commit, Step, Fails, metadata
  <2>2. /\ committed[v].config = removal[v].config
        /\ \A u \in Version \ {v} : committed[u] = removal[u]
    BY <2>1, CommittedSays
  <2> HIDE DEF committed
  <2>3. /\ \A u \in Version \ {v} : removal'[u] = removal[u]
        /\ removal'[v].config = removal[v].config
    BY <2>1, <2>2
  <2>4. config = v => removal[v].config
    BY <2>1, RemovalSteps DEF MetadataSection, RemovalSection
  <2> QED
    BY <2>1, <2>3, <2>4 DEF Committed
<1>19. CASE RemoveConfig(p)
  BY <1>19, RemovalSteps
    DEF RemoveConfig, Fails, Step, journals, Committed, RemovalSection, MetadataSection
<1>20. CASE Tidy(p)
  BY <1>20, RemovalSteps
    DEF Tidy, FailsAndLeaves, NoRemoval, metadata, Committed, RemovalSection,
      MetadataSection
<1>21. CASE BackMetadata(p)
  BY <1>21, RemovalSteps
    DEF BackMetadata, Fails, Step, journals, Committed, RemovalSection, MetadataSection
<1>22. CASE BackJournal(p)
  BY <1>22, RemovalSteps
    DEF BackJournal, NoRemoval, metadata, Committed, RemovalSection, MetadataSection
<1> QED
  BY <1>1, <1>2, <1>3, <1>4, <1>5, <1>6, <1>7, <1>8, <1>9, <1>10, <1>11, <1>12, <1>13,
     <1>14, <1>15, <1>16, <1>17, <1>18, <1>19, <1>20, <1>21, <1>22
     DEF Run, Recovery, Install, Uninstall

\* Only an install that stages a tree, or recovers, leaves a torn one at its root.
LEMMA RootGuarded ==
  ASSUME pc \in [Process -> PcType], cmd \in [Process -> CmdType],
         root \in [Version -> Place], removal \in [Version -> RemovalType],
         errors \in Nat, errors' <= 1, NEW p \in Process,
         pc[p] # "idle" => cmd[p].ver \in Version, Carries(p), RemovalSection(p), Sound,
         Start(p) \/ Kill(p) \/ Run(p)
  PROVE  \A v \in Version : \/ root'[v] = root[v] \/ root'[v] # "torn"
                            \/ /\ Holds(p) /\ v = cmd[p].ver
                               /\ cmd[p].do # "publish" \/ cmd[p].new # "gone"
<1>1. CASE Start(p) \/ TakeVersion(p) \/ TakeState(p) \/ Kill(p) \/ RecoverDebris(p)
           \/ RecoverJournal(p)
  BY <1>1 DEF Start, TakeVersion, TakeState, Kill, RecoverDebris, RecoverJournal, trees
<1>2. CASE Recovered(p) \/ Refuse(p) \/ UndoShim(p) \/ CompleteConfig(p)
           \/ CompleteLock(p) \/ CompleteShim(p)
  BY <1>2 DEF Recovered, Refuse, UndoShim, CompleteConfig, CompleteLock, CompleteShim, trees
<1>3. CASE CompleteRoot(p) \/ UndoJournal(p) \/ UndoRefuses(p) \/ UndoFails(p)
           \/ Undone(p) \/ Reuse(p)
  BY <1>3 DEF CompleteRoot, UndoJournal, UndoRefuses, UndoFails, Undone, Reuse, trees
<1>4. CASE Stage(p) \/ StageFails(p) \/ ReuseIsGone(p) \/ Open(p) \/ OldMoved(p)
           \/ NewPromoted(p)
  BY <1>4 DEF Stage, StageFails, ReuseIsGone, Open, OldMoved, NewPromoted, trees
<1>5. CASE DropJournal(p) \/ Validate(p) \/ GenerateShim(p) \/ Generated(p)
           \/ PersistConfig(p) \/ PersistLock(p)
  BY <1>5
    DEF DropJournal, Validate, GenerateShim, Generated, PersistConfig, PersistLock, trees
<1>6. CASE RemoveStale(p) \/ Published(p) \/ ShimFails(p) \/ Activate(p) \/ Finish(p)
           \/ Cleared(p)
  BY <1>6 DEF RemoveStale, Published, ShimFails, Activate, Finish, Cleared, trees
<1>7. CASE Relock(p) \/ Repin(p) \/ Unjournal(p) \/ Reconcile(p) \/ Reconciled(p)
           \/ Select(p)
  BY <1>7 DEF Relock, Repin, Unjournal, Reconcile, Reconciled, Select, trees
<1>8. CASE NotInstalled(p) \/ Prepare(p) \/ Commit(p) \/ RemoveConfig(p) \/ RemoveLock(p)
           \/ RemoveShim(p)
  BY <1>8 DEF NotInstalled, Prepare, Commit, RemoveConfig, RemoveLock, RemoveShim, trees
<1>9. CASE ShimsRemoved(p) \/ Clean(p) \/ Tidy(p) \/ BackMetadata(p) \/ BackJournal(p)
           \/ BackShim(p)
  BY <1>9 DEF ShimsRemoved, Clean, Tidy, BackMetadata, BackJournal, BackShim, trees
<1>10. CASE Back(p)
  BY <1>10 DEF Back, trees
<1>11. CASE RecoverAside(p)
  BY <1>11, RemovalSteps
    DEF RecoverAside, Put, Step, Holds, InstallSteps, Carries, Staged, Rolling
<1>12. CASE RecoverBackup(p)
  BY <1>12, RemovalSteps
    DEF RecoverBackup, Put, Step, Holds, InstallSteps, Carries, Staged, Rolling
<1>13. CASE RecoverClear(p)
  BY <1>13, RemovalSteps
    DEF RecoverClear, Put, Step, Holds, InstallSteps, Carries, Staged, Rolling
<1>14. CASE RecoverFails(p)
  BY <1>14, RemovalSteps
    DEF RecoverFails, FailsAndLeaves, Put, Holds, InstallSteps, Carries, Staged, Rolling
<1>15. CASE UndoRoot(p)
  BY <1>15, RemovalSteps
    DEF UndoRoot, Undoing, Put, Holds, InstallSteps, Carries, Staged, Rolling, Sound
<1>16. CASE MoveOld(p)
  BY <1>16, RemovalSteps
    DEF MoveOld, Fails, Put, Step, Holds, InstallSteps, Carries, Staged, Rolling
<1>17. CASE PlaceNew(p)
  BY <1>17, RemovalSteps
    DEF PlaceNew, Fails, Put, Step, Holds, InstallSteps, Carries, Staged, Rolling
<1>18. CASE Unplace(p)
  BY <1>18, RemovalSteps
    DEF Unplace, Fails, Put, Step, Holds, InstallSteps, Carries, Staged, Rolling
<1>19. CASE DropBackup(p)
  BY <1>19, RemovalSteps
    DEF DropBackup, FailsAndLeaves, Put, Holds, InstallSteps, Carries, Staged, Rolling
<1>20. CASE Rollback(p)
  BY <1>20, RemovalSteps
    DEF Rollback, Put, Step, Holds, InstallSteps, Carries, Staged, Rolling
<1>21. CASE Restore(p)
  BY <1>21, RemovalSteps
    DEF Restore, Put, Step, Holds, InstallSteps, Carries, Staged, Rolling
<1>22. CASE Take(p)
  BY <1>22, RemovalSteps
    DEF Take, Fails, Put, Step, Holds, InstallSteps, Carries, Staged, Rolling
<1>23. CASE BackRoot(p)
  BY <1>23, RemovalSteps
    DEF BackRoot, Put, Step, Holds, InstallSteps, Carries, Staged, Rolling, RemovalSection,
      Passes
<1> QED
  BY <1>1, <1>2, <1>3, <1>4, <1>5, <1>6, <1>7, <1>8, <1>9, <1>10, <1>11, <1>12, <1>13,
     <1>14, <1>15, <1>16, <1>17, <1>18, <1>19, <1>20, <1>21, <1>22, <1>23
     DEF Run, Recovery, Install, Uninstall

\* Who publishes is at a step of an install, or waits to be.
LEMMA StepsOfInstalls ==
  ASSUME pc \in [Process -> PcType], NEW p \in Process, Carries(p), cmd[p].do = "publish"
  PROVE  pc[p] \in (InstallSteps \ {"version"}) \cup {"state", "undo"}
  BY DEF Carries, PcType, InstallSteps, UninstallSteps, Backing, Idle

\* A reused tree stays complete while its lock is held.
LEMMA ReusesOwn ==
  ASSUME pc \in [Process -> PcType], cmd \in [Process -> CmdType],
         root \in [Version -> Place], removal \in [Version -> RemovalType],
         errors \in Nat, errors' <= 1, NEW p \in Process,
         pc[p] # "idle" => cmd[p].ver \in Version, Carries(p), RemovalSection(p), Sound,
         Reuses(p), Start(p) \/ Kill(p) \/ Run(p)
  PROVE  Reuses(p)'
<1> SUFFICES ASSUME Holds(p)', cmd'[p].do = "publish", cmd'[p].new = "gone"
             PROVE  root'[cmd'[p].ver] # "torn"
  BY DEF Reuses
<1>1. cmd'[p].ver = cmd[p].ver /\ pc[p] # "idle"
      /\ \/ cmd[p].do = "publish" /\ cmd[p].new = "gone"
         \/ root' = root /\ Passes(root[cmd[p].ver])
  <2>1. Idle.do = "none" /\ "gone" \notin Tree
    BY ConstantsAssumption DEF Idle
  <2>2. pc[p] = "recover" => cmd[p].do = "recover"
    BY DEF Carries
  <2>3. pc[p] = "idle" => cmd[p].do = "none"
    BY <2>1 DEF Carries
  <2>4. pc[p] = "prepare" => cmd[p].do = "remove"
    BY DEF Carries, UninstallSteps, Backing
  <2>5. pc[p] = "open" => cmd[p].do = "publish"
    BY DEF Carries, InstallSteps, Rolling
  <2> QED
    BY <2>1, <2>2, <2>3, <2>4, <2>5, Changing
<1>2. CASE root' = root /\ Passes(root[cmd[p].ver])
  BY <1>1, <1>2, ConstantsAssumption DEF Passes
<1>3. CASE cmd[p].do = "publish" /\ cmd[p].new = "gone"
  <2>1. pc[p] \in (InstallSteps \ {"version"}) \cup {"state", "undo"}
    BY <1>3, StepsOfInstalls
  <2>2. root[cmd[p].ver] # "torn"
    BY <1>3, <2>1 DEF Reuses, Holds
  <2> QED
    BY <1>1, <1>3, <2>2, RootGuarded
<1> QED
  BY <1>1, <1>2, <1>3

-----------------------------------------------------------------------------
(* All of it together *)

\* Outside the steps of a captured config, p comes to none of them without the lock.
LEMMA CapturingLocked ==
  ASSUME pc \in [Process -> PcType], cmd \in [Process -> CmdType], NEW p \in Process,
         Start(p) \/ Kill(p) \/ Run(p), pc[p] \notin Locked
  PROVE  pc[p] \notin Capturing /\ pc'[p] \notin Capturing
<1>1. Opened \cup Removing \cup {"open", "prepare"} \subseteq Locked
  BY RemovalSteps, StepsLocked
<1> QED
  BY <1>1, Entering DEF Capturing

\* What a step of p leaves of what the command of another process counts on.
LEMMA KeptOthers ==
  ASSUME Orderly, Sectioned, Kept, NEW p \in Process, Start(p) \/ Kill(p) \/ Run(p),
         errors' <= 1, errors <= 1, NEW q \in Process \ {p}
  PROVE  Reuses(q)' /\ Returns(q)'
<1>1. /\ pc \in [Process -> PcType] /\ cmd \in [Process -> CmdType]
      /\ root \in [Version -> Place] /\ removal \in [Version -> RemovalType]
      /\ held \in [Version -> Process \cup {None}] /\ errors \in Nat
  BY Typed DEF Orderly
<1>2. pc'[q] = pc[q] /\ cmd'[q] = cmd[q]
  BY <1>1, Alone
<1>3. /\ Sound /\ Reuses(q) /\ Returns(q) /\ RemovalSection(p)
      /\ Control(p) /\ Control(q) /\ Carries(p) /\ Carries(q)
      /\ (pc[p] # "idle" => cmd[p].ver \in Version)
  BY DEF Kept, Sectioned, Found, Orderly, Control, Carries
<1>4. Holds(p) /\ Holds(q) => cmd[p].ver # cmd[q].ver
  BY <1>3 DEF Control
<1>5. Reuses(q)'
  <2> SUFFICES ASSUME Holds(q), cmd[q].do = "publish", cmd[q].new = "gone"
               PROVE  root'[cmd[q].ver] # "torn"
    BY <1>2 DEF Reuses, Holds
  <2>1. cmd[q].ver \in Version
    BY <1>3 DEF Carries, Holds, InstallSteps
  <2>2. root[cmd[q].ver] # "torn"
    BY <1>3 DEF Reuses
  <2> QED
    BY <1>1, <1>3, <1>4, <2>1, <2>2, RootGuarded
<1>6. Returns(q)'
  <2>1. CASE pc[q] \notin Opened \cup Removing
    BY <1>2, <2>1 DEF Returns
  <2>2. CASE pc[q] \in Opened \cup Removing
    <3>1. pc[q] \in Locked
      BY <2>2, RemovalSteps, StepsLocked
    <3>2. pc[p] \notin Locked
      BY <1>3, <3>1 DEF Control
    <3>3. promotion' = promotion /\ backup' = backup /\ promised' = promised
      BY <1>1, <3>2, Outside
    <3> QED
      BY <1>2, <1>3, <3>3 DEF Returns, BaseOf, Early
  <2> QED
    BY <2>1, <2>2
<1> QED
  BY <1>5, <1>6

\* What is wanted stands, whoever takes a step.
LEMMA StandsStep ==
  ASSUME Orderly, Sectioned, Kept, NEW p \in Process, Start(p) \/ Kill(p) \/ Run(p),
         errors' <= 1, errors <= 1, NEW v \in Version, Wanted(v)'
  PROVE  Stands(v)'
<1>1. /\ pc \in [Process -> PcType] /\ cmd \in [Process -> CmdType]
      /\ root \in [Version -> Place] /\ backup \in [Version -> Place]
      /\ away \in [Version -> Place] /\ promotion \in [Version -> PromotionType]
      /\ removal \in [Version -> RemovalType] /\ errors \in Nat
  BY Typed DEF Orderly
<1>2. \A q \in Process \ {p} : pc'[q] = pc[q] /\ cmd'[q] = cmd[q]
  BY <1>1, Alone
<1>3. /\ Sound /\ Committed /\ Reuses(p) /\ Returns(p) /\ Removals
      /\ (Settling(p) => Unpublished(cmd[p].ver))
      /\ PromotionSection(p) /\ MetadataSection(p) /\ RemovalSection(p)
      /\ \A q \in Process : Control(q)
      /\ Carries(p) /\ (pc[p] # "idle" => cmd[p].ver \in Version)
  BY DEF Kept, Sectioned, Found, Orderly, Control, Carries
<1>4. \A u \in Version : Wanted(u) => Stands(u)
  BY DEF Kept
<1>5. CASE pc[p] \notin Locked
  <2>1. /\ root' = root /\ backup' = backup /\ away' = away /\ promotion' = promotion
        /\ removal' = removal /\ config' = config /\ promised' = promised
    BY <1>1, <1>5, Outside
  <2>2. pc'[p] \notin Capturing
    BY <1>1, <1>5, CapturingLocked
  <2>3. Wanted(v)
    BY <1>2, <2>1, <2>2 DEF Wanted, Capturing
  <2> QED
    BY <1>4, <2>1, <2>3 DEF Stands, Standing, BaseOf, Early
<1>6. CASE pc[p] \in Locked
  <2>1. \A q \in Process \ {p} : pc'[q] \notin Capturing
    <3>1. \A q \in Process \ {p} : pc[q] \notin Locked
      BY <1>3, <1>6 DEF Control
    <3>2. Capturing \subseteq Locked
      BY CapturingSteps, StepsLocked
    <3> QED
      BY <1>2, <3>1, <3>2
  <2>2. WantedBy(p, v)'
    BY <2>1 DEF Wanted, WantedBy, Capturing
  <2>3. \/ WantedBy(p, v)
        \/ pc[p] \in {"pin", "stale", "cleared"} /\ v = cmd[p].ver
    BY <1>1, <2>2, WantedGrows
  <2>4. WantedBy(p, v) => Stands(v)
    BY <1>4 DEF Wanted, WantedBy
  <2>5. pc[p] \in {"pin", "stale", "cleared"} => Stands(cmd[p].ver)
    BY <1>1, <1>3, InPlace
  <2> QED
    BY <1>1, <1>3, <2>3, <2>4, <2>5, StandsOwn
<1> QED
  BY <1>5, <1>6

\* What is kept is kept by every step.
LEMMA KeptStep ==
  ASSUME Orderly, Sectioned, Kept, NEW p \in Process, Start(p) \/ Kill(p) \/ Run(p)
  PROVE  Kept'
<1> SUFFICES ASSUME errors' <= 1
             PROVE  /\ Sound' /\ Committed'
                    /\ \A v \in Version : Wanted(v)' => Stands(v)'
                    /\ \A q \in Process : Reuses(q)' /\ Returns(q)'
  BY DEF Kept
<1>1. /\ pc \in [Process -> PcType] /\ cmd \in [Process -> CmdType]
      /\ root \in [Version -> Place] /\ backup \in [Version -> Place]
      /\ away \in [Version -> Place] /\ promotion \in [Version -> PromotionType]
      /\ removal \in [Version -> RemovalType] /\ errors \in Nat
  BY Typed DEF Orderly
<1>2. errors <= 1
  BY <1>1, ErrorsGrow
<1>3. /\ Sound /\ Committed /\ Reuses(p) /\ Returns(p) /\ Removals
      /\ (Settling(p) => Unpublished(cmd[p].ver))
      /\ PromotionSection(p) /\ MetadataSection(p) /\ RemovalSection(p)
      /\ Carries(p) /\ (pc[p] # "idle" => cmd[p].ver \in Version)
  BY <1>2 DEF Kept, Sectioned, Found, Orderly, Control, Carries
<1>4. Sound'
  BY <1>1, <1>3, TornNever DEF Sound
<1>5. Committed'
  BY <1>1, <1>3, CommittedOwn
<1>6. \A v \in Version : Wanted(v)' => Stands(v)'
  BY <1>2, StandsStep
<1>7. Reuses(p)'
  BY <1>1, <1>3, ReusesOwn
<1>8. Returns(p)'
  <2>1. pc[p] # "idle" /\ WantedBy(p, cmd[p].ver) => Stands(cmd[p].ver)
    BY <1>2, <1>3 DEF Kept, Wanted, WantedBy
  <2>2. pc[p] = "open" => Unpublished(cmd[p].ver)
    BY <1>3 DEF Settling
  <2> QED
    BY <1>1, <1>3, <2>1, <2>2, ReturnsOwn
<1>9. \A q \in Process \ {p} : Reuses(q)' /\ Returns(q)'
  BY <1>2, KeptOthers
<1> QED
  BY <1>4, <1>5, <1>6, <1>7, <1>8, <1>9

\* At the beginning what the config selects stands, and nothing else is wanted.
LEMMA KeptInit ==
  ASSUME Init
  PROVE  Kept
<1>1. \A p \in Process : pc[p] = "idle" /\ cmd[p] = Idle
  BY DEF Init
<1>2. "idle" \notin Capturing /\ "idle" \notin Opened /\ "idle" \notin Removing
  BY CapturingSteps, RemovalSteps
<1>3. \A v \in Version : /\ root[v] \in Tree \cup {"gone"} /\ backup[v] = "gone"
                         /\ away[v] = "gone" /\ promotion[v].phase = "none"
                         /\ removal[v].phase = "none" /\ (v \in promised => root[v] \in Tree)
  BY DEF Init, NoPromotion, NoRemoval
<1>4. Tree \subseteq Solid
  BY DEF Solid
<1>5. Sound
  BY <1>3 DEF Sound
<1>6. Committed
  BY <1>3 DEF Committed
<1>7. \A v \in Version : Wanted(v) => Stands(v)
  <2>1. config \in promised \cup {None}
    BY DEF Init
  <2>2. \A v \in Version : Wanted(v) => v \in promised
    BY <1>1, <1>2, <2>1, ConstantsAssumption DEF Wanted
  <2> QED
    BY <1>3, <1>4, <2>2 DEF Stands, Standing, BaseOf
<1>8. \A p \in Process : Reuses(p) /\ Returns(p)
  BY <1>1, <1>2 DEF Reuses, Returns, Holds, Idle
<1> QED
  BY <1>5, <1>6, <1>7, <1>8 DEF Kept

\* A step that changes nothing keeps what is kept.
LEMMA KeptStutter ==
  ASSUME Kept, UNCHANGED vars
  PROVE  Kept'
  BY DEF Kept, Sound, Committed, Wanted, Stands, Standing, BaseOf, Early, Reuses, Returns, Holds,
         vars, trees, journals, metadata, locks, counters

\* In every reachable state with at most one error what is reported or selected stands, or
\* comes back with the next recovery (global_npm_use/promotion.rs, uninstall.rs).
THEOREM KeptAlways == Spec => []Kept
<1>1. Init => Kept
  BY KeptInit
<1>2. Orderly /\ Sectioned /\ Kept /\ [Next]_vars => Kept'
  BY KeptStep, KeptStutter DEF Next
<1> QED
  BY <1>1, <1>2, OrderlyAlways, SectionedAlways, PTL DEF Spec

\* Where the history knows of no hollow tree there is none.
Recalled ==
  \A v \in Version \ hollowed :
    root[v] # "hollow" /\ backup[v] # "hollow" /\ away[v] # "hollow"

\* The history forgets no hollow tree.
THEOREM RecalledAlways == Spec => []Recalled
<1>1. Init => Recalled
  BY ConstantsAssumption DEF Init, Recalled
<1>2. Recalled /\ [Next]_vars => Recalled'
  <2>1. Recalled /\ Next => Recalled'
    BY DEF Recalled, Next, Recalls
  <2>2. Recalled /\ UNCHANGED vars => Recalled'
    BY DEF Recalled, vars, trees, history
  <2> QED
    BY <2>1, <2>2
<1> QED
  BY <1>1, <1>2, PTL DEF Spec

\* A version an install reported, and no uninstall committed to remove, survives any
\* kills and a file system error, unless a removal cut short has left a tree of it that
\* passes the checks for a completed install (GlobalNpm!InstalledIsKept).
THEOREM InstalledAreKept == Spec => []InstalledIsKept
<1>1. ASSUME Orderly, Kept, Recalled, errors <= 1, NEW v \in promised \ hollowed
      PROVE  Surviving(v) \in Tree
  <2>1. v \in Version /\ away[v] \in Place /\ promotion[v] \in PromotionType
    BY <1>1, Typed DEF Orderly
  <2>2. removal[v].phase # "committed" /\ Stands(v)
    BY <1>1, <2>1 DEF Kept, Committed, Wanted
  <2>3. BaseOf(v, Standing(v)) \in Solid
    BY <2>2 DEF Stands
  <2>4. root[v] # "hollow" /\ backup[v] # "hollow" /\ away[v] # "hollow"
    BY <1>1, <2>1 DEF Recalled
  <2>5. CASE away[v] # "gone"
    <3>1. away[v] \in Tree
      BY <1>1, <2>1, <2>2, <2>4, <2>5 DEF Kept, Sound, Place
    <3> QED
      BY <2>2, <2>5, <3>1 DEF Surviving
  <2>6. CASE away[v] = "gone"
    <3>1. BaseOf(v, root[v]) \in Solid
      BY <2>3, <2>6 DEF Standing
    <3>2. Surviving(v) = BaseOf(v, root[v])
      BY <2>2, <2>6, <3>1 DEF Surviving, BaseOf, Early
    <3>3. Surviving(v) # "hollow"
      BY <2>2, <2>4, <2>6 DEF Surviving
    <3> QED
      BY <3>1, <3>2, <3>3 DEF Solid
  <2> QED
    BY <2>5, <2>6
<1>2. Orderly /\ Kept /\ Recalled => InstalledIsKept
  BY <1>1 DEF InstalledIsKept
<1> QED
  BY <1>2, OrderlyAlways, KeptAlways, RecalledAlways, PTL

\* With no command at work and no journal left, the pinned version is there and passes
\* the checks for a completed install (GlobalNpm!SelectedIsThere).
THEOREM SelectedAreThere == Spec => []SelectedIsThere
<1>1. ASSUME Orderly, Sectioned, Kept, errors <= 1, config # None,
             \A v \in Version : promotion[v] = NoPromotion /\ removal[v] = NoRemoval
      PROVE  Passes(root[config])
  <2>1. config \in Version
    BY <1>1, Typed DEF Orderly
  <2>2. /\ promotion[config].phase = "none" /\ removal[config].phase = "none"
        /\ away[config] = "gone"
    BY <1>1, <2>1 DEF NoPromotion, NoRemoval, Sectioned, Removals
  <2>3. Stands(config)
    BY <1>1, <2>1 DEF Kept, Wanted
  <2> QED
    BY <2>2, <2>3 DEF Stands, Standing, BaseOf, Passes, Solid
<1>2. Orderly /\ Sectioned /\ Kept => SelectedIsThere
  BY <1>1 DEF SelectedIsThere
<1> QED
  BY <1>2, OrderlyAlways, SectionedAlways, KeptAlways, PTL

-----------------------------------------------------------------------------
(* Until something fails or a root is taken from an open promotion, GlobalNpm     *)
(* implements GlobalTool: the trees between any two steps                         *)

\* Once the backup of a promotion is cleared it is gone.
Cleaned(p) == pc[p] = "cleared" => backup[cmd[p].ver] = "gone"

\* What the journals of v say is what is there: before the new tree is announced the
\* old one is at the root or in the backup, from then on the new one is at the root;
\* a tree an uninstall has set aside is nowhere else, and no promotion of it is open.
Ready(v) ==
  /\ promotion[v].phase = "none" => root[v] \in Tree \cup {"gone"} /\ backup[v] = "gone"
  /\ Early(v) /\ promotion[v].had =>
       \/ root[v] \in Tree \cup {"gone"} /\ backup[v] \in Tree
       \/ root[v] \in Tree /\ backup[v] = "gone"
  /\ Early(v) /\ ~promotion[v].had => backup[v] = "gone"
  /\ Late(v) => root[v] \in Tree
  /\ away[v] # "gone" \/ removal[v].phase = "committed" =>
       root[v] = "gone" /\ promotion[v].phase = "none"
  /\ removal[v].phase # "committed" => away[v] \in Tree \cup {"gone"}

Neat ==
  errors = 0 /\ clashed = {} =>
    /\ \A p \in Process : Cleaned(p)
    /\ \A v \in Version : Ready(v)

\* The step takes no root whose promotion is open.
Unclashing ==
  \A v \in Version : promotion[v].phase # "none" /\ away[v] = "gone" => away'[v] = "gone"

\* No error keeps a backup where it is.
LEMMA CleanedOwn ==
  ASSUME pc \in [Process -> PcType], cmd \in [Process -> CmdType],
         backup \in [Version -> Place], errors = 0, errors' = 0, NEW p \in Process,
         pc[p] # "idle" => cmd[p].ver \in Version, pc[p] \notin Failing, PromotionSection(p),
         Cleaned(p), Start(p) \/ Kill(p) \/ Run(p)
  PROVE  Cleaned(p)'
<1>1. CASE Start(p)
  <2>1. pc'[p] \in {"version", "state"}
    BY <1>1 DEF Start, Step
  <2> QED
    BY <2>1 DEF Cleaned
<1>2. CASE TakeVersion(p)
  BY <1>2 DEF TakeVersion, Step, trees, Cleaned
<1>3. CASE TakeState(p)
  BY <1>3 DEF TakeState, Step, trees, Cleaned
<1>4. CASE Kill(p)
  BY <1>4 DEF Kill, Leave, trees, Cleaned
<1>5. CASE RecoverAside(p)
  <2>1. pc'[p] \in {"recover", "back_root"}
    BY <1>5 DEF RecoverAside, Step, Fails
  <2> QED
    BY <2>1 DEF Cleaned
<1>6. CASE RecoverBackup(p)
  BY <1>6 DEF RecoverBackup, Put, Step, Cleaned
<1>7. CASE RecoverClear(p)
  BY <1>7 DEF RecoverClear, Put, Step, Cleaned
<1>8. CASE RecoverDebris(p)
  BY <1>8 DEF RecoverDebris, Put, Step, Cleaned
<1>9. CASE RecoverJournal(p)
  BY <1>9 DEF RecoverJournal, Step, trees, Cleaned
<1>10. CASE Recovered(p)
  BY <1>10 DEF Recovered, Step, trees, Cleaned
<1>11. CASE RecoverFails(p)
  BY <1>11 DEF RecoverFails, FailsAndLeaves, Put, Leave, Cleaned
<1>12. CASE Refuse(p)
  BY <1>12 DEF Refuse, Leave, trees, Cleaned
<1>13. CASE UndoRoot(p)
  BY <1>13 DEF UndoRoot, Undoing, Put, Cleaned, journals
<1>14. CASE UndoShim(p)
  BY <1>14 DEF UndoShim, Undoing, trees, Cleaned
<1>15. CASE CompleteConfig(p)
  BY <1>15 DEF CompleteConfig, Completing, trees, Cleaned
<1>16. CASE CompleteLock(p)
  BY <1>16 DEF CompleteLock, Completing, trees, Cleaned
<1>17. CASE CompleteShim(p)
  BY <1>17 DEF CompleteShim, Completing, trees, Cleaned
<1>18. CASE CompleteRoot(p)
  BY <1>18 DEF CompleteRoot, Completing, Put, Cleaned
<1>19. CASE UndoJournal(p)
  BY <1>19 DEF UndoJournal, Undoing, Completing, trees, Cleaned
<1>20. CASE UndoRefuses(p)
  BY <1>20 DEF UndoRefuses, Undoing, Leave, trees, Cleaned
<1>21. CASE UndoFails(p)
  BY <1>21 DEF UndoFails, FailsAndLeaves, Leave, trees, Cleaned
<1>22. CASE Undone(p)
  BY <1>22 DEF Undone, Step, trees, Cleaned
<1>23. CASE Reuse(p)
  <2>1. pc'[p] \in {"state", "back_root"}
    BY <1>23 DEF Reuse, Step, Fails
  <2> QED
    BY <2>1 DEF Cleaned
<1>24. CASE Stage(p)
  <2>1. pc'[p] \in {"state", "back_root"}
    BY <1>24 DEF Stage, Step, Fails
  <2> QED
    BY <2>1 DEF Cleaned
<1>25. CASE StageFails(p)
  BY <1>25 DEF StageFails, FailsAndLeaves, Leave, trees, Cleaned
<1>26. CASE ReuseIsGone(p)
  BY <1>26 DEF ReuseIsGone, Leave, trees, Cleaned
<1>27. CASE Open(p)
  <2>1. pc'[p] \in {"shim", "move", "place", "drop"}
    BY <1>27 DEF Open, Step, Fails
  <2> QED
    BY <2>1 DEF Cleaned
<1>28. CASE MoveOld(p)
  BY <1>28 DEF MoveOld, Fails, Put, Step, Cleaned
<1>29. CASE OldMoved(p)
  BY <1>29 DEF OldMoved, Fails, Step, trees, Cleaned
<1>30. CASE PlaceNew(p)
  BY <1>30 DEF PlaceNew, Fails, Put, Step, Cleaned
<1>31. CASE NewPromoted(p)
  BY <1>31 DEF NewPromoted, Fails, Step, trees, Cleaned
<1>32. CASE Unplace(p)
  BY <1>32 DEF Unplace, Fails, Put, Step, Cleaned
<1>33. CASE DropBackup(p)
  BY <1>33 DEF DropBackup, FailsAndLeaves, Put, Leave, Cleaned
<1>34. CASE DropJournal(p)
  BY <1>34 DEF DropJournal, FailsAndLeaves, Leave, trees, Cleaned
<1>35. CASE Validate(p)
  BY <1>35 DEF Validate, Fails, Step, trees, Cleaned
<1>36. CASE GenerateShim(p)
  BY <1>36 DEF GenerateShim, Step, trees, Cleaned
<1>37. CASE Generated(p)
  BY <1>37 DEF Generated, Step, trees, Cleaned
<1>38. CASE PersistConfig(p)
  BY <1>38 DEF PersistConfig, Fails, Step, trees, Cleaned
<1>39. CASE PersistLock(p)
  BY <1>39 DEF PersistLock, Fails, Step, trees, Cleaned
<1>40. CASE RemoveStale(p)
  BY <1>40 DEF RemoveStale, Step, trees, Cleaned
<1>41. CASE Published(p)
  BY <1>41 DEF Published, Step, Leave, trees, Cleaned
<1>42. CASE ShimFails(p)
  BY <1>42 DEF ShimFails, Fails, Step, trees, Cleaned
<1>43. CASE Activate(p)
  BY <1>43 DEF Activate, Fails, Step, trees, Cleaned, PromotionSection
<1>44. CASE Finish(p)
  BY <1>44 DEF Finish, Fails, Put, Step, Cleaned, Removed
<1>45. CASE Cleared(p)
  BY <1>45 DEF Cleared, FailsAndLeaves, Leave, trees, Cleaned
<1>46. CASE Relock(p)
  BY <1>46 DEF Relock, Fails, Step, trees, Cleaned
<1>47. CASE Repin(p)
  BY <1>47 DEF Repin, Repinned, Fails, Step, trees, Cleaned
<1>48. CASE Rollback(p)
  <2>1. pc[p] = "rollback"
    BY <1>48 DEF Rollback, Step
  <2> QED
    BY <2>1 DEF Failing
<1>49. CASE Restore(p)
  <2>1. pc[p] = "restore"
    BY <1>49 DEF Restore, Step
  <2> QED
    BY <2>1 DEF Failing
<1>50. CASE Unjournal(p)
  <2>1. pc[p] = "unjournal"
    BY <1>50 DEF Unjournal, Step
  <2> QED
    BY <2>1 DEF Failing
<1>51. CASE Reconcile(p)
  BY <1>51 DEF Reconcile, Step, trees, Cleaned
<1>52. CASE Reconciled(p)
  BY <1>52 DEF Reconciled, Step, Leave, trees, Cleaned
<1>53. CASE Select(p)
  BY <1>53 DEF Select, Step, Leave, trees, Cleaned
<1>54. CASE NotInstalled(p)
  BY <1>54 DEF NotInstalled, Leave, trees, Cleaned
<1>55. CASE Prepare(p)
  <2>1. pc'[p] \in {"take", "back_root"}
    BY <1>55 DEF Prepare, Step, Fails
  <2> QED
    BY <2>1 DEF Cleaned
<1>56. CASE Take(p)
  BY <1>56 DEF Take, Fails, Put, Step, Cleaned
<1>57. CASE Commit(p)
  BY <1>57 DEF Commit, Fails, Step, trees, Cleaned
<1>58. CASE RemoveConfig(p)
  BY <1>58 DEF RemoveConfig, Fails, Step, trees, Cleaned
<1>59. CASE RemoveLock(p)
  BY <1>59 DEF RemoveLock, Fails, Step, trees, Cleaned
<1>60. CASE RemoveShim(p)
  BY <1>60 DEF RemoveShim, Step, trees, Cleaned
<1>61. CASE ShimsRemoved(p)
  BY <1>61 DEF ShimsRemoved, Fails, Step, trees, Cleaned
<1>62. CASE Clean(p)
  BY <1>62 DEF Clean, FailsAndLeaves, Put, Step, Leave, Cleaned
<1>63. CASE Tidy(p)
  BY <1>63 DEF Tidy, FailsAndLeaves, Leave, trees, Cleaned
<1>64. CASE BackMetadata(p)
  BY <1>64 DEF BackMetadata, Fails, Step, trees, Cleaned
<1>65. CASE BackRoot(p)
  BY <1>65 DEF BackRoot, RootsBack, Put, Step, Leave, Cleaned
<1>66. CASE BackJournal(p)
  BY <1>66 DEF BackJournal, RootsBack, Leave, trees, Cleaned
<1>67. CASE BackShim(p)
  BY <1>67 DEF BackShim, Step, trees, Cleaned
<1>68. CASE Back(p)
  BY <1>68 DEF Back, Leave, trees, Cleaned
<1> QED
  BY <1>1, <1>2, <1>3, <1>4, <1>5, <1>6, <1>7, <1>8, <1>9, <1>10, <1>11, <1>12, <1>13,
     <1>14, <1>15, <1>16, <1>17, <1>18, <1>19, <1>20, <1>21, <1>22, <1>23, <1>24, <1>25,
     <1>26, <1>27, <1>28, <1>29, <1>30, <1>31, <1>32, <1>33, <1>34, <1>35, <1>36, <1>37,
     <1>38, <1>39, <1>40, <1>41, <1>42, <1>43, <1>44, <1>45, <1>46, <1>47, <1>48, <1>49,
     <1>50, <1>51, <1>52, <1>53, <1>54, <1>55, <1>56, <1>57, <1>58, <1>59, <1>60, <1>61,
     <1>62, <1>63, <1>64, <1>65, <1>66, <1>67, <1>68 DEF Run, Recovery, Install, Uninstall

\* The journal of a version says what is there after every step.
LEMMA ReadyOwn ==
  ASSUME pc \in [Process -> PcType], cmd \in [Process -> CmdType],
         root \in [Version -> Place], backup \in [Version -> Place],
         away \in [Version -> Place], promotion \in [Version -> PromotionType],
         removal \in [Version -> RemovalType], errors = 0, errors' = 0, NEW p \in Process,
         pc[p] # "idle" => cmd[p].ver \in Version, pc[p] \notin Failing, Carries(p), Removals,
         pc[p] = "open" => Unpublished(cmd[p].ver),
         PromotionSection(p), MetadataSection(p), RemovalSection(p), Cleaned(p),
         Start(p) \/ Kill(p) \/ Run(p), Unclashing,
         NEW v \in Version, Ready(v)
  PROVE  Ready(v)'
<1>1. CASE Start(p) \/ TakeVersion(p) \/ TakeState(p) \/ Kill(p) \/ Recovered(p)
           \/ Refuse(p)
  BY <1>1
    DEF Start, TakeVersion, TakeState, Kill, Recovered, Refuse, trees, journals, Ready,
      Early, Late
<1>2. CASE UndoShim(p) \/ CompleteConfig(p) \/ CompleteLock(p) \/ CompleteShim(p)
           \/ UndoRefuses(p) \/ UndoFails(p)
  BY <1>2
    DEF UndoShim, CompleteConfig, CompleteLock, CompleteShim, UndoRefuses, UndoFails,
      trees, journals, Ready, Early, Late
<1>3. CASE Undone(p) \/ Reuse(p) \/ Stage(p) \/ StageFails(p) \/ ReuseIsGone(p)
           \/ Validate(p)
  BY <1>3
    DEF Undone, Reuse, Stage, StageFails, ReuseIsGone, Validate, trees, journals, Ready,
      Early, Late
<1>4. CASE GenerateShim(p) \/ Generated(p) \/ PersistConfig(p) \/ PersistLock(p)
           \/ RemoveStale(p) \/ Published(p)
  BY <1>4
    DEF GenerateShim, Generated, PersistConfig, PersistLock, RemoveStale, Published, trees,
      journals, Ready, Early, Late
<1>5. CASE ShimFails(p) \/ Relock(p) \/ Repin(p) \/ Reconcile(p) \/ Reconciled(p)
           \/ Select(p)
  BY <1>5
    DEF ShimFails, Relock, Repin, Reconcile, Reconciled, Select, trees, journals, Ready,
      Early, Late
<1>6. CASE NotInstalled(p) \/ RemoveConfig(p) \/ RemoveLock(p) \/ RemoveShim(p)
           \/ ShimsRemoved(p) \/ BackMetadata(p)
  BY <1>6
    DEF NotInstalled, RemoveConfig, RemoveLock, RemoveShim, ShimsRemoved, BackMetadata,
      trees, journals, Ready, Early, Late
<1>7. CASE BackShim(p) \/ Back(p)
  BY <1>7 DEF BackShim, Back, trees, journals, Ready, Early, Late
<1>8. CASE RecoverAside(p)
  BY <1>8, RemovalSteps
    DEF RecoverAside, WantsAside, Put, Step, journals, Ready, Early, Late,
      PromotionSection, Carries, Publishing, Staged, Rolling, Removals,
      InstallSteps, UninstallSteps, Backing, Failing, RemovalSection, Cleaned, Unpublished
<1>9. CASE RecoverBackup(p)
  BY <1>9, RemovalSteps
    DEF RecoverBackup, WantsBackup, Put, Step, journals, Ready, Early, Late,
      PromotionSection, Carries, Publishing, Staged, Rolling, Removals,
      InstallSteps, UninstallSteps, Backing, Failing, RemovalSection, Cleaned, Unpublished
<1>10. CASE RecoverClear(p)
  BY <1>10, RemovalSteps
    DEF RecoverClear, WantsClear, Removed, Put, Step, journals, Ready, Early, Late,
      PromotionSection, Carries, Publishing, Staged, Rolling, Removals,
      InstallSteps, UninstallSteps, Backing, Failing, RemovalSection, Cleaned, Unpublished
<1>11. CASE RecoverDebris(p)
  BY <1>11, RemovalSteps
    DEF RecoverDebris, Settled, Removed, Put, Step, WantsBackup, WantsAside, WantsClear,
      Lost, journals, Ready, Early, Late, PromotionSection, Carries,
      Publishing, Staged, Rolling, Removals, InstallSteps, UninstallSteps, Backing,
      Failing, RemovalSection, Cleaned, Unpublished
<1>12. CASE RecoverJournal(p)
  <2> DEFINE w == cmd[p].ver
  <2>1. /\ pc[p] = "recover" /\ w \in Version
        /\ root' = root /\ away' = away /\ backup' = backup /\ removal' = removal
        /\ promotion' = [promotion EXCEPT ![w] = NoPromotion]
        /\ Settled(w) /\ backup[w] = "gone" /\ promotion[w].phase # "none"
    BY <1>12 DEF RecoverJournal, Step, trees
  <2>2. /\ promotion'[w].phase = "none"
        /\ \A u \in Version \ {w} : promotion'[u] = promotion[u]
    BY <2>1 DEF NoPromotion
  <2>3. CASE v # w
    BY <2>1, <2>2, <2>3 DEF Ready, Early, Late
  <2>4. CASE v = w
    <3>1. root[v] \in Tree \cup {"gone"}
      <4>1. CASE Late(v)
        BY <4>1 DEF Ready
      <4>2. CASE Early(v) /\ promotion[v].had
        BY <2>1, <2>4, <4>2 DEF Ready
      <4>3. CASE Early(v) /\ ~promotion[v].had
        BY <2>1, <2>4, <4>3 DEF Settled, WantsClear
      <4> QED
        BY <2>1, <2>4, <4>1, <4>2, <4>3 DEF Early, Late, PromotionType
    <3> QED
      BY <2>1, <2>2, <2>4, <3>1 DEF Ready, Early, Late
  <2> QED
    BY <2>3, <2>4
<1>13. CASE RecoverFails(p)
  BY <1>13, RemovalSteps
    DEF RecoverFails, FailsAndLeaves, Put, Leave, journals, Ready, Early, Late,
      PromotionSection, Carries, Publishing, Staged, Rolling, Removals,
      InstallSteps, UninstallSteps, Backing, Failing, RemovalSection, Cleaned, Unpublished
<1>14. CASE UndoRoot(p)
  BY <1>14, RemovalSteps
    DEF UndoRoot, Undoing, Put, journals, Ready, Early, Late, PromotionSection, Carries,
      Publishing, Staged, Rolling, Removals, InstallSteps, UninstallSteps,
      Backing, Failing, RemovalSection, Cleaned, Unpublished
<1>15. CASE CompleteRoot(p)
  BY <1>15, RemovalSteps
    DEF CompleteRoot, Completing, Removed, Put, journals, Ready, Early, Late,
      PromotionSection, Carries, Publishing, Staged, Rolling, Removals,
      InstallSteps, UninstallSteps, Backing, Failing, RemovalSection, Cleaned, Unpublished
<1>16. CASE UndoJournal(p)
  BY <1>16, RemovalSteps
    DEF UndoJournal, Undoing, Completing, NoRemoval, trees, Ready, Early, Late,
      PromotionSection, Carries, Publishing, Staged, Rolling, Removals,
      InstallSteps, UninstallSteps, Backing, Failing, RemovalSection, Cleaned, Unpublished
<1>17. CASE Open(p)
  <2> DEFINE w == cmd[p].ver
             had == root[w] # "gone"
             announced == [promotion EXCEPT ![w] = [phase |-> "prepared", had |-> had]]
  <2>1. /\ pc[p] = "open" /\ w \in Version
        /\ root' = root /\ away' = away /\ backup' = backup /\ removal' = removal
        /\ promotion' \in {promotion, announced}
    BY <1>17 DEF Open, Step, Fails, trees
  <2>2. /\ announced[w].phase = "prepared" /\ (announced[w].had <=> had)
        /\ \A u \in Version \ {w} : announced[u] = promotion[u]
    BY <2>1
  <2> HIDE DEF announced
  <2>3. CASE promotion' = promotion \/ v # w
    BY <2>1, <2>2, <2>3 DEF Ready, Early, Late
  <2>4. CASE v = w /\ promotion' = announced
    <3>1. promotion[v].phase = "none" /\ backup[v] = "gone"
      BY <2>1, <2>4 DEF Unpublished
    <3>2. away[v] = "gone" /\ removal[v].phase = "none"
      BY <2>1, <2>4 DEF RemovalSection, Removals
    <3> QED
      BY <2>1, <2>2, <2>4, <3>1, <3>2, ConstantsAssumption DEF Ready, Early, Late
  <2> QED
    BY <2>1, <2>3, <2>4
<1>18. CASE MoveOld(p)
  BY <1>18, RemovalSteps
    DEF MoveOld, Fails, Put, Step, journals, Ready, Early, Late, PromotionSection, Carries,
      Publishing, Staged, Rolling, Removals, InstallSteps, UninstallSteps,
      Backing, Failing, RemovalSection, Cleaned, Unpublished
<1>19. CASE OldMoved(p)
  <2> DEFINE w == cmd[p].ver
  <2>1. /\ pc[p] = "moved" /\ w \in Version
        /\ root' = root /\ away' = away /\ backup' = backup /\ removal' = removal
        /\ promotion' \in {promotion, Journal(w, "old_moved")}
    BY <1>19 DEF OldMoved, Step, Fails, trees
  <2>2. /\ Journal(w, "old_moved")[w].phase = "old_moved"
        /\ Journal(w, "old_moved")[w].had = promotion[w].had
        /\ \A u \in Version \ {w} : Journal(w, "old_moved")[u] = promotion[u]
    BY <2>1, JournalSays
  <2>3. CASE promotion' = promotion \/ v # w
    BY <2>1, <2>2, <2>3 DEF Ready, Early, Late
  <2>4. CASE v = w /\ promotion' = Journal(w, "old_moved")
    <3>1. root[v] = cmd[p].new => root[v] \in Tree
      BY <2>1 DEF Carries, Staged
    <3>2. away[v] = "gone" /\ removal[v].phase = "none"
      BY <2>1, <2>4, RemovalSteps DEF RemovalSection, Removals
    <3> QED
      BY <2>1, <2>2, <2>4, <3>1, <3>2, ConstantsAssumption
        DEF Ready, Early, Late, PromotionSection
  <2> QED
    BY <2>1, <2>3, <2>4
<1>20. CASE PlaceNew(p)
  BY <1>20, RemovalSteps
    DEF PlaceNew, Fails, Put, Step, journals, Ready, Early, Late, PromotionSection,
      Carries, Publishing, Staged, Rolling, Removals, InstallSteps,
      UninstallSteps, Backing, Failing, RemovalSection, Cleaned, Unpublished
<1>21. CASE NewPromoted(p)
  <2> DEFINE w == cmd[p].ver
  <2>1. /\ pc[p] = "placed" /\ w \in Version
        /\ root' = root /\ away' = away /\ backup' = backup /\ removal' = removal
        /\ promotion' \in {promotion, Journal(w, "new_promoted")}
    BY <1>21 DEF NewPromoted, Step, Fails, trees
  <2>2. /\ Journal(w, "new_promoted")[w].phase = "new_promoted"
        /\ Journal(w, "new_promoted")[w].had = promotion[w].had
        /\ \A u \in Version \ {w} : Journal(w, "new_promoted")[u] = promotion[u]
    BY <2>1, JournalSays
  <2>3. CASE promotion' = promotion \/ v # w
    BY <2>1, <2>2, <2>3 DEF Ready, Early, Late
  <2>4. CASE v = w /\ promotion' = Journal(w, "new_promoted")
    <3>1. root[v] = cmd[p].new => root[v] \in Tree
      BY <2>1 DEF Carries, Staged
    <3>2. away[v] = "gone" /\ removal[v].phase = "none"
      BY <2>1, <2>4, RemovalSteps DEF RemovalSection, Removals
    <3> QED
      BY <2>1, <2>2, <2>4, <3>1, <3>2, ConstantsAssumption
        DEF Ready, Early, Late, PromotionSection
  <2> QED
    BY <2>1, <2>3, <2>4
<1>22. CASE Unplace(p)
  BY <1>22, RemovalSteps
    DEF Unplace, Fails, Put, Step, journals, Ready, Early, Late, PromotionSection, Carries,
      Publishing, Staged, Rolling, Removals, InstallSteps, UninstallSteps,
      Backing, Failing, RemovalSection, Cleaned, Unpublished
<1>23. CASE DropBackup(p)
  BY <1>23, RemovalSteps
    DEF DropBackup, FailsAndLeaves, Put, Leave, journals, Ready, Early, Late,
      PromotionSection, Carries, Publishing, Staged, Rolling, Removals,
      InstallSteps, UninstallSteps, Backing, Failing, RemovalSection, Cleaned, Unpublished
<1>24. CASE DropJournal(p)
  BY <1>24, RemovalSteps
    DEF DropJournal, FailsAndLeaves, Leave, NoPromotion, trees, Ready, Early, Late,
      PromotionSection, Carries, Publishing, Staged, Rolling, Removals,
      InstallSteps, UninstallSteps, Backing, Failing, RemovalSection, Cleaned, Unpublished
<1>25. CASE Activate(p)
  <2> DEFINE w == cmd[p].ver
  <2>1. /\ pc[p] = "activate" /\ w \in Version
        /\ root' = root /\ away' = away /\ backup' = backup /\ removal' = removal
        /\ promotion' \in {promotion, Journal(w, "activated")}
    BY <1>25 DEF Activate, Step, Fails, trees
  <2>2. /\ Journal(w, "activated")[w].phase = "activated"
        /\ Journal(w, "activated")[w].had = promotion[w].had
        /\ \A u \in Version \ {w} : Journal(w, "activated")[u] = promotion[u]
    BY <2>1, JournalSays
  <2>3. CASE promotion' = promotion \/ v # w
    BY <2>1, <2>2, <2>3 DEF Ready, Early, Late
  <2>4. CASE v = w /\ promotion' = Journal(w, "activated")
    <3>1. root[v] = cmd[p].new => root[v] \in Tree
      BY <2>1 DEF Carries, Staged
    <3>2. away[v] = "gone" /\ removal[v].phase = "none"
      BY <2>1, <2>4, RemovalSteps DEF RemovalSection, Removals
    <3> QED
      BY <2>1, <2>2, <2>4, <3>1, <3>2, ConstantsAssumption
        DEF Ready, Early, Late, PromotionSection
  <2> QED
    BY <2>1, <2>3, <2>4
<1>26. CASE Finish(p)
  BY <1>26, RemovalSteps
    DEF Finish, Fails, Removed, Put, Step, journals, Ready, Early, Late, PromotionSection,
      Carries, Publishing, Staged, Rolling, Removals, InstallSteps,
      UninstallSteps, Backing, Failing, RemovalSection, Cleaned, Unpublished
<1>27. CASE Cleared(p)
  BY <1>27, RemovalSteps
    DEF Cleared, FailsAndLeaves, Leave, NoPromotion, trees, Ready, Early, Late,
      PromotionSection, Carries, Publishing, Staged, Rolling, Removals,
      InstallSteps, UninstallSteps, Backing, Failing, RemovalSection, Cleaned, Unpublished
<1>28. CASE Rollback(p)
  <2>1. pc[p] = "rollback"
    BY <1>28 DEF Rollback, Step
  <2> QED
    BY <2>1 DEF Failing
<1>29. CASE Restore(p)
  <2>1. pc[p] = "restore"
    BY <1>29 DEF Restore, Step
  <2> QED
    BY <2>1 DEF Failing
<1>30. CASE Unjournal(p)
  <2>1. pc[p] = "unjournal"
    BY <1>30 DEF Unjournal, Step
  <2> QED
    BY <2>1 DEF Failing
<1>31. CASE Prepare(p)
  BY <1>31, RemovalSteps
    DEF Prepare, Fails, Step, trees, Ready, Early, Late, PromotionSection, Carries,
      Publishing, Staged, Rolling, Removals, InstallSteps, UninstallSteps,
      Backing, Failing, RemovalSection, Cleaned, Unpublished
<1>32. CASE Take(p)
  <2> DEFINE w == cmd[p].ver
  <2>1. pc[p] = "take" /\ w \in Version /\ promotion' = promotion /\ removal' = removal
        /\ backup' = backup
    BY <1>32 DEF Take, Fails, Step, journals
  <2>2. removal[w].phase = "moving" /\ root[w] = cmd[p].old /\ away[w] = "gone"
        /\ cmd[p].old # "gone"
    BY <2>1, RemovalSteps, ConstantsAssumption DEF RemovalSection, Passes
  <2>3. \/ root' = root /\ away' = away
        \/ /\ root' = [root EXCEPT ![w] = "gone"] /\ away' = [away EXCEPT ![w] = root[w]]
    BY <1>32 DEF Take, Put
  <2>4. CASE root' = root /\ away' = away
    BY <2>1, <2>4 DEF Ready, Early, Late
  <2>5. CASE /\ root' = [root EXCEPT ![w] = "gone"] /\ away' = [away EXCEPT ![w] = root[w]]
    <3>1. away'[w] = root[w] /\ root'[w] = "gone" /\ root[w] # "gone"
      BY <2>1, <2>2, <2>5
    <3>2. promotion[w].phase = "none"
      BY <2>1, <2>2, <3>1 DEF Unclashing
    <3>3. \A u \in Version \ {w} : away'[u] = away[u] /\ root'[u] = root[u]
      BY <2>1, <2>5
    <3>4. CASE v # w
      BY <2>1, <3>3, <3>4 DEF Ready, Early, Late
    <3>5. CASE v = w
      <4>1. root[v] \in Tree /\ backup[v] = "gone" /\ away[v] = "gone" /\ removal[v].phase = "moving"
            /\ away'[v] = root[v] /\ root'[v] = "gone" /\ ~Early(v) /\ ~Late(v)
        BY <2>2, <3>1, <3>2, <3>5 DEF Ready, Early, Late
      <4> QED
        BY <2>1, <3>2, <3>5, <4>1 DEF Ready, Early, Late
    <3> QED
      BY <3>4, <3>5
  <2> QED
    BY <2>3, <2>4, <2>5
<1>33. CASE Commit(p)
  <2> DEFINE w == cmd[p].ver
             committed == [removal EXCEPT ![w].phase = "committed"]
  <2>1. /\ pc[p] = "commit" /\ w \in Version /\ promotion' = promotion
        /\ backup' = backup /\ root' = root /\ away' = away /\ removal' \in {removal, committed}
    BY <1>33 DEF Commit, Fails, Step, trees
  <2>2. root[w] = "gone" /\ away[w] # "gone"
    BY <2>1, RemovalSteps, ConstantsAssumption DEF RemovalSection, Passes
  <2>3. /\ committed[w].phase = "committed"
        /\ \A u \in Version \ {w} : committed[u] = removal[u]
    BY <2>1, CommittedSays
  <2>4. CASE removal' = removal \/ v # w
    BY <2>1, <2>3, <2>4 DEF Ready, Early, Late
  <2>5. CASE v = w /\ removal' = committed
    <3>1. removal'[v].phase = "committed" /\ promotion[v].phase = "none" /\ backup[v] = "gone"
      BY <2>2, <2>3, <2>5 DEF Ready
    <3> QED
      BY <2>1, <2>2, <2>5, <3>1 DEF Ready, Early, Late
  <2> QED
    BY <2>1, <2>4, <2>5
<1>34. CASE Clean(p)
  BY <1>34, RemovalSteps
    DEF Clean, FailsAndLeaves, Removed, Put, Step, Leave, journals, Ready, Early, Late,
      PromotionSection, Carries, Publishing, Staged, Rolling, Removals,
      InstallSteps, UninstallSteps, Backing, Failing, RemovalSection, Cleaned, Unpublished
<1>35. CASE Tidy(p)
  BY <1>35, RemovalSteps
    DEF Tidy, FailsAndLeaves, Leave, NoRemoval, trees, Ready, Early, Late,
      PromotionSection, Carries, Publishing, Staged, Rolling, Removals,
      InstallSteps, UninstallSteps, Backing, Failing, RemovalSection, Cleaned, Unpublished
<1>36. CASE BackRoot(p)
  BY <1>36, RemovalSteps
    DEF BackRoot, RootsBack, Put, Step, Leave, journals, Ready, Early, Late,
      PromotionSection, Carries, Publishing, Staged, Rolling, Removals,
      InstallSteps, UninstallSteps, Backing, Failing, RemovalSection, Cleaned, Unpublished
<1>37. CASE BackJournal(p)
  BY <1>37, RemovalSteps
    DEF BackJournal, RootsBack, NoRemoval, Leave, trees, Ready, Early, Late,
      PromotionSection, Carries, Publishing, Staged, Rolling, Removals,
      InstallSteps, UninstallSteps, Backing, Failing, RemovalSection, Cleaned, Unpublished
<1> QED
  BY <1>1, <1>2, <1>3, <1>4, <1>5, <1>6, <1>7, <1>8, <1>9, <1>10, <1>11, <1>12, <1>13,
     <1>14, <1>15, <1>16, <1>17, <1>18, <1>19, <1>20, <1>21, <1>22, <1>23, <1>24, <1>25,
     <1>26, <1>27, <1>28, <1>29, <1>30, <1>31, <1>32, <1>33, <1>34, <1>35, <1>36, <1>37
     DEF Run, Recovery, Install, Uninstall

\* A step leaves what a recovery would find, but for the promotion of a new tree and
\* the commit of an uninstall.
LEMMA SurvivingOwn ==
  ASSUME pc \in [Process -> PcType], cmd \in [Process -> CmdType],
         root \in [Version -> Place], backup \in [Version -> Place],
         away \in [Version -> Place], promotion \in [Version -> PromotionType],
         removal \in [Version -> RemovalType], errors = 0, errors' = 0, NEW p \in Process,
         pc[p] # "idle" => cmd[p].ver \in Version, pc[p] \notin Failing, Carries(p), Removals,
         pc[p] = "open" => Unpublished(cmd[p].ver),
         PromotionSection(p), MetadataSection(p), RemovalSection(p), Cleaned(p),
         Start(p) \/ Kill(p) \/ Run(p), Unclashing,
         NEW v \in Version, Ready(v)
  PROVE  \/ Surviving(v)' = Surviving(v)
         \/ /\ pc[p] = "placed" /\ pc'[p] = "validate" /\ v = cmd[p].ver
            /\ Surviving(v)' \in Tree
         \/ Commit(p)
<1>1. CASE Start(p) \/ TakeVersion(p) \/ TakeState(p) \/ Kill(p) \/ Recovered(p)
           \/ Refuse(p)
  BY <1>1
    DEF Start, TakeVersion, TakeState, Kill, Recovered, Refuse, trees, journals, Surviving,
      Early
<1>2. CASE UndoShim(p) \/ CompleteConfig(p) \/ CompleteLock(p) \/ CompleteShim(p)
           \/ UndoRefuses(p) \/ UndoFails(p)
  BY <1>2
    DEF UndoShim, CompleteConfig, CompleteLock, CompleteShim, UndoRefuses, UndoFails,
      trees, journals, Surviving, Early
<1>3. CASE Undone(p) \/ Reuse(p) \/ Stage(p) \/ StageFails(p) \/ ReuseIsGone(p)
           \/ Validate(p)
  BY <1>3
    DEF Undone, Reuse, Stage, StageFails, ReuseIsGone, Validate, trees, journals,
      Surviving, Early
<1>4. CASE GenerateShim(p) \/ Generated(p) \/ PersistConfig(p) \/ PersistLock(p)
           \/ RemoveStale(p) \/ Published(p)
  BY <1>4
    DEF GenerateShim, Generated, PersistConfig, PersistLock, RemoveStale, Published, trees,
      journals, Surviving, Early
<1>5. CASE ShimFails(p) \/ Relock(p) \/ Repin(p) \/ Reconcile(p) \/ Reconciled(p)
           \/ Select(p)
  BY <1>5
    DEF ShimFails, Relock, Repin, Reconcile, Reconciled, Select, trees, journals,
      Surviving, Early
<1>6. CASE NotInstalled(p) \/ RemoveConfig(p) \/ RemoveLock(p) \/ RemoveShim(p)
           \/ ShimsRemoved(p) \/ BackMetadata(p)
  BY <1>6
    DEF NotInstalled, RemoveConfig, RemoveLock, RemoveShim, ShimsRemoved, BackMetadata,
      trees, journals, Surviving, Early
<1>7. CASE BackShim(p) \/ Back(p)
  BY <1>7 DEF BackShim, Back, trees, journals, Surviving, Early
<1>8. CASE RecoverAside(p)
  BY <1>8, RemovalSteps
    DEF RecoverAside, WantsAside, Put, Step, journals, Surviving, Ready, Early, Late,
      PromotionSection, RemovalSection, Removals, Cleaned
<1>9. CASE RecoverBackup(p)
  BY <1>9, RemovalSteps
    DEF RecoverBackup, WantsBackup, Put, Step, journals, Surviving, Ready, Early, Late,
      PromotionSection, RemovalSection, Removals, Cleaned
<1>10. CASE RecoverClear(p)
  BY <1>10, RemovalSteps
    DEF RecoverClear, WantsClear, Removed, Put, Step, journals, Surviving, Ready, Early,
      Late, PromotionSection, RemovalSection, Removals, Cleaned
<1>11. CASE RecoverDebris(p)
  <2> DEFINE w == cmd[p].ver
  <2>1. PICK t \in Removed(backup[w]) : backup' = Put(backup, w, t)
    BY <1>11 DEF RecoverDebris
  <2>2. /\ w \in Version /\ Settled(w) /\ root' = root /\ away' = away
        /\ promotion' = promotion /\ removal' = removal /\ backup[w] # "gone"
    BY <1>11 DEF RecoverDebris, Step, journals
  <2>3. CASE v # w
    BY <2>1, <2>2, <2>3 DEF Surviving, Early, Put
  <2>4. CASE v = w
    <3>1. ~Early(v) /\ promotion[v].phase # "none"
      BY <2>2, <2>4 DEF Ready, Settled, WantsBackup, WantsAside
    <3>2. root[v] # "gone"
      BY <2>2, <2>4, <3>1 DEF Settled, Lost, Early, Late, PromotionType
    <3> QED
      BY <2>2, <3>1, <3>2 DEF Surviving, Early
  <2> QED
    BY <2>3, <2>4
<1>12. CASE RecoverJournal(p)
  <2> DEFINE w == cmd[p].ver
  <2>1. /\ pc[p] = "recover" /\ w \in Version
        /\ root' = root /\ away' = away /\ backup' = backup /\ removal' = removal
        /\ promotion' = [promotion EXCEPT ![w] = NoPromotion]
        /\ Settled(w) /\ backup[w] = "gone"
    BY <1>12 DEF RecoverJournal, Step, trees
  <2>2. /\ promotion'[w].phase = "none"
        /\ \A u \in Version \ {w} : promotion'[u] = promotion[u]
    BY <2>1 DEF NoPromotion
  <2>3. CASE v # w
    BY <2>1, <2>2, <2>3 DEF Surviving, Early
  <2>4. CASE v = w
    BY <2>1, <2>2, <2>4 DEF Surviving, Early, Settled, WantsClear
  <2> QED
    BY <2>3, <2>4
<1>13. CASE RecoverFails(p)
  BY <1>13, RemovalSteps
    DEF RecoverFails, FailsAndLeaves, Put, Leave, journals, Surviving, Ready, Early, Late,
      PromotionSection, RemovalSection, Removals, Cleaned
<1>14. CASE UndoRoot(p)
  BY <1>14, RemovalSteps
    DEF UndoRoot, Undoing, Put, journals, Surviving, Ready, Early, Late, PromotionSection,
      RemovalSection, Removals, Cleaned
<1>15. CASE CompleteRoot(p)
  BY <1>15, RemovalSteps
    DEF CompleteRoot, Completing, Removed, Put, journals, Surviving, Ready, Early, Late,
      PromotionSection, RemovalSection, Removals, Cleaned
<1>16. CASE UndoJournal(p)
  BY <1>16, RemovalSteps
    DEF UndoJournal, Undoing, Completing, NoRemoval, trees, Surviving, Ready, Early, Late,
      PromotionSection, RemovalSection, Removals, Cleaned
<1>17. CASE Open(p)
  <2> DEFINE w == cmd[p].ver
             had == root[w] # "gone"
             announced == [promotion EXCEPT ![w] = [phase |-> "prepared", had |-> had]]
  <2>1. /\ pc[p] = "open" /\ w \in Version
        /\ root' = root /\ away' = away /\ backup' = backup /\ removal' = removal
        /\ promotion' \in {promotion, announced}
    BY <1>17 DEF Open, Step, Fails, trees
  <2>2. /\ announced[w].phase = "prepared" /\ (announced[w].had <=> had)
        /\ \A u \in Version \ {w} : announced[u] = promotion[u]
    BY <2>1
  <2> HIDE DEF announced
  <2>3. CASE promotion' = promotion \/ v # w
    BY <2>1, <2>2, <2>3 DEF Surviving, Early
  <2>4. CASE v = w /\ promotion' = announced
    <3>1. promotion[v].phase = "none" /\ backup[v] = "gone"
      BY <2>1, <2>4 DEF Unpublished
    <3> QED
      BY <2>1, <2>2, <2>4, <3>1 DEF Surviving, Early
  <2> QED
    BY <2>1, <2>3, <2>4
<1>18. CASE MoveOld(p)
  BY <1>18, RemovalSteps
    DEF MoveOld, Fails, Put, Step, journals, Surviving, Ready, Early, Late,
      PromotionSection, RemovalSection, Removals, Cleaned
<1>19. CASE OldMoved(p)
  <2> DEFINE w == cmd[p].ver
  <2>1. /\ pc[p] = "moved" /\ w \in Version
        /\ root' = root /\ away' = away /\ backup' = backup /\ removal' = removal
        /\ promotion' \in {promotion, Journal(w, "old_moved")}
    BY <1>19 DEF OldMoved, Step, Fails, trees
  <2>2. /\ Journal(w, "old_moved")[w].phase = "old_moved"
        /\ Journal(w, "old_moved")[w].had = promotion[w].had
        /\ \A u \in Version \ {w} : Journal(w, "old_moved")[u] = promotion[u]
    BY <2>1, JournalSays
  <2>3. CASE promotion' = promotion \/ v # w
    BY <2>1, <2>2, <2>3 DEF Surviving, Early
  <2>4. CASE v = w /\ promotion' = Journal(w, "old_moved")
    <3>1. promotion'[v].phase = "old_moved" /\ promotion'[v].had = promotion[v].had
      BY <2>2, <2>4
    <3>2. removal[v].phase = "none" /\ away[v] = "gone"
      BY <2>1, RemovalSteps DEF RemovalSection, Removals
    <3> QED
      BY <2>1, <2>4, <3>1, <3>2 DEF Surviving, Early, PromotionSection
  <2> QED
    BY <2>1, <2>3, <2>4
<1>20. CASE PlaceNew(p)
  BY <1>20, RemovalSteps
    DEF PlaceNew, Fails, Put, Step, journals, Surviving, Ready, Early, Late,
      PromotionSection, RemovalSection, Removals, Cleaned
<1>21. CASE NewPromoted(p)
  <2> DEFINE w == cmd[p].ver
  <2>1. /\ pc[p] = "placed" /\ w \in Version
        /\ root' = root /\ away' = away /\ backup' = backup /\ removal' = removal
        /\ promotion' \in {promotion, Journal(w, "new_promoted")}
    BY <1>21 DEF NewPromoted, Step, Fails, trees
  <2>2. /\ Journal(w, "new_promoted")[w].phase = "new_promoted"
        /\ Journal(w, "new_promoted")[w].had = promotion[w].had
        /\ \A u \in Version \ {w} : Journal(w, "new_promoted")[u] = promotion[u]
    BY <2>1, JournalSays
  <2>3. CASE promotion' = promotion \/ v # w
    BY <2>1, <2>2, <2>3 DEF Surviving, Early
  <2>4. CASE v = w /\ promotion' = Journal(w, "new_promoted")
    <3>1. promotion'[v].phase = "new_promoted" /\ promotion'[v].had = promotion[v].had
      BY <2>2, <2>4
    <3>2. removal[v].phase = "none" /\ away[v] = "gone"
      BY <2>1, RemovalSteps DEF RemovalSection, Removals
    <3>3. root[v] = cmd[p].new /\ cmd[p].new \in Tree
      BY <2>1, <2>4 DEF PromotionSection, Carries, Staged
    <3>4. Surviving(v)' \in Tree
      BY <2>1, <3>1, <3>2, <3>3, ConstantsAssumption DEF Surviving, Early
    <3> QED
      BY <1>21, <2>1, <2>4, <3>4 DEF NewPromoted, Step, Fails
  <2> QED
    BY <2>1, <2>3, <2>4
<1>22. CASE Unplace(p)
  BY <1>22, RemovalSteps
    DEF Unplace, Fails, Put, Step, journals, Surviving, Ready, Early, Late,
      PromotionSection, RemovalSection, Removals, Cleaned, Failing
<1>23. CASE DropBackup(p)
  BY <1>23, RemovalSteps
    DEF DropBackup, FailsAndLeaves, Put, Leave, journals, Surviving, Ready, Early, Late,
      PromotionSection, RemovalSection, Removals, Cleaned
<1>24. CASE DropJournal(p)
  BY <1>24, RemovalSteps
    DEF DropJournal, FailsAndLeaves, Leave, NoPromotion, trees, Surviving, Ready, Early,
      Late, PromotionSection, RemovalSection, Removals, Cleaned
<1>25. CASE Activate(p)
  <2> DEFINE w == cmd[p].ver
  <2>1. /\ pc[p] = "activate" /\ w \in Version
        /\ root' = root /\ away' = away /\ backup' = backup /\ removal' = removal
        /\ promotion' \in {promotion, Journal(w, "activated")}
    BY <1>25 DEF Activate, Step, Fails, trees
  <2>2. /\ Journal(w, "activated")[w].phase = "activated"
        /\ Journal(w, "activated")[w].had = promotion[w].had
        /\ \A u \in Version \ {w} : Journal(w, "activated")[u] = promotion[u]
    BY <2>1, JournalSays
  <2>3. CASE promotion' = promotion \/ v # w
    BY <2>1, <2>2, <2>3 DEF Surviving, Early
  <2>4. CASE v = w /\ promotion' = Journal(w, "activated")
    <3>1. promotion'[v].phase = "activated" /\ promotion'[v].had = promotion[v].had
      BY <2>2, <2>4
    <3>2. removal[v].phase = "none" /\ away[v] = "gone"
      BY <2>1, RemovalSteps DEF RemovalSection, Removals
    <3>3. Late(v) /\ root[v] = cmd[p].new
      BY <2>1, <2>4 DEF PromotionSection
    <3> QED
      BY <2>1, <2>4, <3>1, <3>2, <3>3 DEF Surviving, Early, Late, Carries, Staged
  <2> QED
    BY <2>1, <2>3, <2>4
<1>26. CASE Finish(p)
  BY <1>26, RemovalSteps
    DEF Finish, Fails, Removed, Put, Step, journals, Surviving, Ready, Early, Late,
      PromotionSection, RemovalSection, Removals, Cleaned
<1>27. CASE Cleared(p)
  BY <1>27, RemovalSteps
    DEF Cleared, FailsAndLeaves, Leave, NoPromotion, trees, Surviving, Ready, Early, Late,
      PromotionSection, RemovalSection, Removals, Cleaned
<1>28. CASE Rollback(p)
  <2>1. pc[p] = "rollback"
    BY <1>28 DEF Rollback, Step
  <2> QED
    BY <2>1 DEF Failing
<1>29. CASE Restore(p)
  <2>1. pc[p] = "restore"
    BY <1>29 DEF Restore, Step
  <2> QED
    BY <2>1 DEF Failing
<1>30. CASE Unjournal(p)
  <2>1. pc[p] = "unjournal"
    BY <1>30 DEF Unjournal, Step
  <2> QED
    BY <2>1 DEF Failing
<1>31. CASE Prepare(p)
  BY <1>31, RemovalSteps
    DEF Prepare, Fails, Step, trees, Surviving, Ready, Early, Late, PromotionSection,
      RemovalSection, Removals, Cleaned
<1>32. CASE Take(p)
  <2> DEFINE w == cmd[p].ver
  <2>1. pc[p] = "take" /\ w \in Version /\ promotion' = promotion /\ removal' = removal
        /\ backup' = backup
    BY <1>32 DEF Take, Fails, Step, journals
  <2>2. removal[w].phase = "moving" /\ root[w] = cmd[p].old /\ away[w] = "gone"
        /\ cmd[p].old # "gone"
    BY <2>1, RemovalSteps, ConstantsAssumption DEF RemovalSection, Passes
  <2>3. \/ root' = root /\ away' = away
        \/ /\ root' = [root EXCEPT ![w] = "gone"] /\ away' = [away EXCEPT ![w] = root[w]]
    BY <1>32 DEF Take, Put
  <2>4. CASE root' = root /\ away' = away
    BY <2>1, <2>4 DEF Surviving, Early
  <2>5. CASE /\ root' = [root EXCEPT ![w] = "gone"] /\ away' = [away EXCEPT ![w] = root[w]]
    <3>1. away'[w] = root[w] /\ root'[w] = "gone" /\ root[w] # "gone"
      BY <2>1, <2>2, <2>5
    <3>2. promotion[w].phase = "none"
      BY <2>1, <2>2, <3>1 DEF Unclashing
    <3>3. \A u \in Version \ {w} : away'[u] = away[u] /\ root'[u] = root[u]
      BY <2>1, <2>5
    <3>4. CASE v # w
      BY <2>1, <3>3, <3>4 DEF Surviving, Early
    <3>5. CASE v = w
      <4>1. root[v] \in Tree /\ backup[v] = "gone" /\ away[v] = "gone" /\ removal[v].phase = "moving"
            /\ away'[v] = root[v] /\ root'[v] = "gone" /\ ~Early(v) /\ ~Late(v)
        BY <2>2, <3>1, <3>2, <3>5 DEF Ready, Early, Late
      <4> QED
        BY <2>1, <3>2, <3>5, <4>1 DEF Surviving, Early
    <3> QED
      BY <3>4, <3>5
  <2> QED
    BY <2>3, <2>4, <2>5
<1>33. CASE Commit(p)
  BY <1>33
<1>34. CASE Clean(p)
  BY <1>34, RemovalSteps
    DEF Clean, FailsAndLeaves, Removed, Put, Step, Leave, journals, Surviving, Ready,
      Early, Late, PromotionSection, RemovalSection, Removals, Cleaned
<1>35. CASE Tidy(p)
  BY <1>35, RemovalSteps
    DEF Tidy, FailsAndLeaves, Leave, NoRemoval, trees, Surviving, Ready, Early, Late,
      PromotionSection, RemovalSection, Removals, Cleaned
<1>36. CASE BackRoot(p)
  BY <1>36, RemovalSteps
    DEF BackRoot, RootsBack, Put, Step, Leave, journals, Surviving, Ready, Early, Late,
      PromotionSection, RemovalSection, Removals, Cleaned
<1>37. CASE BackJournal(p)
  BY <1>37, RemovalSteps
    DEF BackJournal, RootsBack, NoRemoval, Leave, trees, Surviving, Ready, Early, Late,
      PromotionSection, RemovalSection, Removals, Cleaned
<1> QED
  BY <1>1, <1>2, <1>3, <1>4, <1>5, <1>6, <1>7, <1>8, <1>9, <1>10, <1>11, <1>12, <1>13,
     <1>14, <1>15, <1>16, <1>17, <1>18, <1>19, <1>20, <1>21, <1>22, <1>23, <1>24, <1>25,
     <1>26, <1>27, <1>28, <1>29, <1>30, <1>31, <1>32, <1>33, <1>34, <1>35, <1>36, <1>37
     DEF Run, Recovery, Install, Uninstall

\* What is selected changes only where the config is written and where an uninstall is
\* committed.
LEMMA PinnedOwn ==
  ASSUME pc \in [Process -> PcType], cmd \in [Process -> CmdType],
         root \in [Version -> Place], backup \in [Version -> Place],
         away \in [Version -> Place], promotion \in [Version -> PromotionType],
         removal \in [Version -> RemovalType], errors = 0, errors' = 0, NEW p \in Process,
         pc[p] # "idle" => cmd[p].ver \in Version, pc[p] \notin Failing, Carries(p), Removals,
         pc[p] = "open" => Unpublished(cmd[p].ver),
         PromotionSection(p), MetadataSection(p), RemovalSection(p), Cleaned(p),
         Start(p) \/ Kill(p) \/ Run(p),
         config \in Version \cup {None}
  PROVE  \/ Pinned' = Pinned
         \/ /\ pc[p] = "pin" /\ pc'[p] = "record" /\ Pinned' = cmd[p].ver
            /\ Surviving(cmd[p].ver) # "gone"
         \/ Commit(p)
<1>1. CASE Start(p) \/ TakeVersion(p) \/ TakeState(p) \/ Kill(p) \/ RecoverAside(p)
           \/ RecoverBackup(p)
  BY <1>1
    DEF Start, TakeVersion, TakeState, Kill, RecoverAside, RecoverBackup, journals,
      metadata, Pinned
<1>2. CASE RecoverClear(p) \/ RecoverDebris(p) \/ RecoverJournal(p) \/ Recovered(p)
           \/ RecoverFails(p) \/ Refuse(p)
  BY <1>2
    DEF RecoverClear, RecoverDebris, RecoverJournal, Recovered, RecoverFails, Refuse,
      journals, metadata, Pinned
<1>3. CASE UndoRoot(p) \/ UndoShim(p) \/ CompleteLock(p) \/ CompleteShim(p)
           \/ CompleteRoot(p) \/ UndoRefuses(p)
  BY <1>3
    DEF UndoRoot, UndoShim, CompleteLock, CompleteShim, CompleteRoot, UndoRefuses,
      journals, metadata, Pinned
<1>4. CASE UndoFails(p) \/ Undone(p) \/ Reuse(p) \/ Stage(p) \/ StageFails(p)
           \/ ReuseIsGone(p)
  BY <1>4
    DEF UndoFails, Undone, Reuse, Stage, StageFails, ReuseIsGone, journals, metadata, Pinned
<1>5. CASE Open(p) \/ MoveOld(p) \/ OldMoved(p) \/ PlaceNew(p) \/ NewPromoted(p)
           \/ Unplace(p)
  BY <1>5
    DEF Open, MoveOld, OldMoved, PlaceNew, NewPromoted, Unplace, journals, metadata, Pinned
<1>6. CASE DropBackup(p) \/ DropJournal(p) \/ Validate(p) \/ GenerateShim(p)
           \/ Generated(p) \/ PersistLock(p)
  BY <1>6
    DEF DropBackup, DropJournal, Validate, GenerateShim, Generated, PersistLock, journals,
      metadata, Pinned
<1>7. CASE RemoveStale(p) \/ Published(p) \/ ShimFails(p) \/ Activate(p) \/ Finish(p)
           \/ Cleared(p)
  BY <1>7
    DEF RemoveStale, Published, ShimFails, Activate, Finish, Cleared, journals, metadata,
      Pinned
<1>8. CASE Relock(p) \/ Rollback(p) \/ Restore(p) \/ Unjournal(p) \/ Reconcile(p)
           \/ Reconciled(p)
  BY <1>8
    DEF Relock, Rollback, Restore, Unjournal, Reconcile, Reconciled, journals, metadata,
      Pinned
<1>9. CASE Select(p) \/ NotInstalled(p) \/ Take(p) \/ RemoveLock(p) \/ RemoveShim(p)
           \/ ShimsRemoved(p)
  BY <1>9
    DEF Select, NotInstalled, Take, RemoveLock, RemoveShim, ShimsRemoved, journals,
      metadata, Pinned
<1>10. CASE Clean(p) \/ BackRoot(p) \/ BackShim(p) \/ Back(p)
  BY <1>10 DEF Clean, BackRoot, BackShim, Back, journals, metadata, Pinned
<1>11. CASE CompleteConfig(p)
  BY <1>11, RemovalSteps
    DEF CompleteConfig, Completing, journals, Pinned, RemovalSection, MetadataSection,
      Failing
<1>12. CASE UndoJournal(p)
  BY <1>12, RemovalSteps
    DEF UndoJournal, Undoing, Completing, Unselected, NoRemoval, metadata, Pinned,
      RemovalSection, MetadataSection, Failing
<1>13. CASE PersistConfig(p)
  <2> DEFINE w == cmd[p].ver
  <2>1. pc[p] = "pin" /\ pc'[p] = "record" /\ w \in Version /\ config' = w /\ removal' = removal
    BY <1>13 DEF PersistConfig, Step, Fails, journals
  <2>2. removal[w].phase = "none" /\ away[w] = "gone"
    BY <2>1, RemovalSteps DEF RemovalSection, Removals
  <2>3. Pinned' = w
    BY <2>1, <2>2 DEF Pinned
  <2>4. root[w] # "gone" /\ ~Early(w) /\ (cmd[p].new # "gone" \/ backup[w] = "gone")
    <3>1. CASE cmd[p].new = "gone"
      BY <2>1, <3>1 DEF PromotionSection, Publishing, Unpublished, Early
    <3>2. CASE cmd[p].new # "gone"
      BY <2>1, <3>2 DEF PromotionSection, Publishing, Late, Early
    <3> QED
      BY <3>1, <3>2
  <2>5. Surviving(w) # "gone"
    BY <2>2, <2>4 DEF Surviving
  <2> QED
    BY <2>1, <2>3, <2>5
<1>14. CASE Repin(p)
  BY <1>14, RemovalSteps
    DEF Repin, Fails, Step, journals, Pinned, RemovalSection, MetadataSection, Failing
<1>15. CASE Prepare(p)
  <2> DEFINE w == cmd[p].ver
             begun == [removal EXCEPT ![w] = [phase |-> "moving", config |-> config = w,
                                              lock |-> lock = w]]
  <2>1. /\ pc[p] = "prepare" /\ w \in Version /\ removal' \in {removal, begun}
        /\ config' = config
    BY <1>15 DEF Prepare, Step, Fails, metadata
  <2>2. begun[w].phase = "moving" /\ \A u \in Version \ {w} : begun[u] = removal[u]
    BY <2>1
  <2> HIDE DEF begun
  <2>3. removal[w].phase = "none"
    BY <2>1 DEF RemovalSection
  <2> QED
    BY <2>1, <2>2, <2>3 DEF Pinned
<1>16. CASE Commit(p)
  BY <1>16
<1>17. CASE RemoveConfig(p)
  BY <1>17, RemovalSteps
    DEF RemoveConfig, Fails, Step, journals, Pinned, RemovalSection, MetadataSection,
      Failing
<1>18. CASE Tidy(p)
  BY <1>18, RemovalSteps
    DEF Tidy, FailsAndLeaves, NoRemoval, metadata, Pinned, RemovalSection, MetadataSection,
      Failing
<1>19. CASE BackMetadata(p)
  BY <1>19, RemovalSteps
    DEF BackMetadata, Fails, Step, journals, Pinned, RemovalSection, MetadataSection,
      Failing
<1>20. CASE BackJournal(p)
  BY <1>20, RemovalSteps
    DEF BackJournal, NoRemoval, metadata, Pinned, RemovalSection, MetadataSection, Failing
<1> QED
  BY <1>1, <1>2, <1>3, <1>4, <1>5, <1>6, <1>7, <1>8, <1>9, <1>10, <1>11, <1>12, <1>13,
     <1>14, <1>15, <1>16, <1>17, <1>18, <1>19, <1>20 DEF Run, Recovery, Install, Uninstall

\* What is recorded changes only where the lockfile is written and where an uninstall is
\* committed.
LEMMA RecordedOwn ==
  ASSUME pc \in [Process -> PcType], cmd \in [Process -> CmdType],
         root \in [Version -> Place], backup \in [Version -> Place],
         away \in [Version -> Place], promotion \in [Version -> PromotionType],
         removal \in [Version -> RemovalType], errors = 0, errors' = 0, NEW p \in Process,
         pc[p] # "idle" => cmd[p].ver \in Version, pc[p] \notin Failing, Carries(p), Removals,
         pc[p] = "open" => Unpublished(cmd[p].ver),
         PromotionSection(p), MetadataSection(p), RemovalSection(p), Cleaned(p),
         Start(p) \/ Kill(p) \/ Run(p),
         lock \in Version \cup {None}
  PROVE  \/ Recorded' = Recorded
         \/ /\ pc[p] = "record" /\ pc'[p] = "stale" /\ Recorded' = cmd[p].ver
            /\ Pinned = cmd[p].ver
         \/ Commit(p)
<1>1. CASE Start(p) \/ TakeVersion(p) \/ TakeState(p) \/ Kill(p) \/ RecoverAside(p)
           \/ RecoverBackup(p)
  BY <1>1
    DEF Start, TakeVersion, TakeState, Kill, RecoverAside, RecoverBackup, journals,
      metadata, Recorded
<1>2. CASE RecoverClear(p) \/ RecoverDebris(p) \/ RecoverJournal(p) \/ Recovered(p)
           \/ RecoverFails(p) \/ Refuse(p)
  BY <1>2
    DEF RecoverClear, RecoverDebris, RecoverJournal, Recovered, RecoverFails, Refuse,
      journals, metadata, Recorded
<1>3. CASE UndoRoot(p) \/ UndoShim(p) \/ CompleteConfig(p) \/ CompleteShim(p)
           \/ CompleteRoot(p) \/ UndoRefuses(p)
  BY <1>3
    DEF UndoRoot, UndoShim, CompleteConfig, CompleteShim, CompleteRoot, UndoRefuses,
      journals, metadata, Recorded
<1>4. CASE UndoFails(p) \/ Undone(p) \/ Reuse(p) \/ Stage(p) \/ StageFails(p)
           \/ ReuseIsGone(p)
  BY <1>4
    DEF UndoFails, Undone, Reuse, Stage, StageFails, ReuseIsGone, journals, metadata,
      Recorded
<1>5. CASE Open(p) \/ MoveOld(p) \/ OldMoved(p) \/ PlaceNew(p) \/ NewPromoted(p)
           \/ Unplace(p)
  BY <1>5
    DEF Open, MoveOld, OldMoved, PlaceNew, NewPromoted, Unplace, journals, metadata,
      Recorded
<1>6. CASE DropBackup(p) \/ DropJournal(p) \/ Validate(p) \/ GenerateShim(p)
           \/ Generated(p) \/ PersistConfig(p)
  BY <1>6
    DEF DropBackup, DropJournal, Validate, GenerateShim, Generated, PersistConfig,
      journals, metadata, Recorded
<1>7. CASE RemoveStale(p) \/ Published(p) \/ ShimFails(p) \/ Activate(p) \/ Finish(p)
           \/ Cleared(p)
  BY <1>7
    DEF RemoveStale, Published, ShimFails, Activate, Finish, Cleared, journals, metadata,
      Recorded
<1>8. CASE Repin(p) \/ Rollback(p) \/ Restore(p) \/ Unjournal(p) \/ Reconcile(p)
           \/ Reconciled(p)
  BY <1>8
    DEF Repin, Rollback, Restore, Unjournal, Reconcile, Reconciled, journals, metadata,
      Recorded
<1>9. CASE Select(p) \/ NotInstalled(p) \/ Take(p) \/ RemoveConfig(p) \/ RemoveShim(p)
           \/ ShimsRemoved(p)
  BY <1>9
    DEF Select, NotInstalled, Take, RemoveConfig, RemoveShim, ShimsRemoved, journals,
      metadata, Recorded
<1>10. CASE Clean(p) \/ BackRoot(p) \/ BackShim(p) \/ Back(p)
  BY <1>10 DEF Clean, BackRoot, BackShim, Back, journals, metadata, Recorded
<1>11. CASE CompleteLock(p)
  BY <1>11, RemovalSteps
    DEF CompleteLock, Completing, journals, Recorded, RemovalSection, MetadataSection,
      Failing
<1>12. CASE UndoJournal(p)
  BY <1>12, RemovalSteps
    DEF UndoJournal, Undoing, Completing, Unselected, NoRemoval, metadata, Recorded,
      RemovalSection, MetadataSection, Failing
<1>13. CASE PersistLock(p)
  <2> DEFINE w == cmd[p].ver
  <2>1. /\ pc[p] = "record" /\ pc'[p] = "stale" /\ w \in Version
        /\ lock' = w /\ removal' = removal
    BY <1>13 DEF PersistLock, Step, Fails, journals
  <2>2. removal[w].phase = "none" /\ config = w
    BY <2>1, RemovalSteps DEF RemovalSection, MetadataSection
  <2> QED
    BY <2>1, <2>2 DEF Pinned, Recorded
<1>14. CASE Relock(p)
  BY <1>14, RemovalSteps
    DEF Relock, Fails, Step, journals, Recorded, RemovalSection, MetadataSection, Failing
<1>15. CASE Prepare(p)
  <2> DEFINE w == cmd[p].ver
             begun == [removal EXCEPT ![w] = [phase |-> "moving", config |-> config = w,
                                              lock |-> lock = w]]
  <2>1. /\ pc[p] = "prepare" /\ w \in Version /\ removal' \in {removal, begun}
        /\ lock' = lock
    BY <1>15 DEF Prepare, Step, Fails, metadata
  <2>2. begun[w].phase = "moving" /\ \A u \in Version \ {w} : begun[u] = removal[u]
    BY <2>1
  <2> HIDE DEF begun
  <2>3. removal[w].phase = "none"
    BY <2>1 DEF RemovalSection
  <2> QED
    BY <2>1, <2>2, <2>3 DEF Recorded
<1>16. CASE Commit(p)
  BY <1>16
<1>17. CASE RemoveLock(p)
  BY <1>17, RemovalSteps
    DEF RemoveLock, Fails, Step, journals, Recorded, RemovalSection, MetadataSection,
      Failing
<1>18. CASE Tidy(p)
  BY <1>18, RemovalSteps
    DEF Tidy, FailsAndLeaves, NoRemoval, metadata, Recorded, RemovalSection,
      MetadataSection, Failing
<1>19. CASE BackMetadata(p)
  BY <1>19, RemovalSteps
    DEF BackMetadata, Fails, Step, journals, Recorded, RemovalSection, MetadataSection,
      Failing
<1>20. CASE BackJournal(p)
  BY <1>20, RemovalSteps
    DEF BackJournal, NoRemoval, metadata, Recorded, RemovalSection, MetadataSection, Failing
<1> QED
  BY <1>1, <1>2, <1>3, <1>4, <1>5, <1>6, <1>7, <1>8, <1>9, <1>10, <1>11, <1>12, <1>13,
     <1>14, <1>15, <1>16, <1>17, <1>18, <1>19, <1>20 DEF Run, Recovery, Install, Uninstall

\* The commit of an uninstall takes the tree, the pin and the record.
LEMMA CommitOwn ==
  ASSUME pc \in [Process -> PcType], cmd \in [Process -> CmdType],
         away \in [Version -> Place], removal \in [Version -> RemovalType],
         config \in Version \cup {None}, lock \in Version \cup {None},
         errors = 0, errors' = 0, NEW p \in Process, NEW w \in Version, w = cmd[p].ver,
         MetadataSection(p), RemovalSection(p), Commit(p)
  PROVE  /\ Surviving(w) # "gone" /\ Surviving(w)' = "gone"
         /\ \A v \in Version \ {w} : Surviving(v)' = Surviving(v)
         /\ Pinned' = IF Pinned = w THEN None ELSE Pinned
         /\ Recorded' = IF Recorded = w THEN None ELSE Recorded
<1> DEFINE committed == [removal EXCEPT ![w].phase = "committed"]
<1>1. /\ pc[p] = "commit" /\ pc'[p] = "unpin" /\ removal' = committed
      /\ root' = root /\ away' = away /\ backup' = backup /\ promotion' = promotion
      /\ config' = config /\ lock' = lock
  BY DEF Commit, Step, Fails, trees, metadata
<1>2. /\ committed[w].phase = "committed" /\ committed[w].config = removal[w].config
      /\ committed[w].lock = removal[w].lock
      /\ \A u \in Version \ {w} : committed[u] = removal[u]
  BY CommittedSays
<1> HIDE DEF committed
<1>3. /\ removal[w].phase = "moving" /\ away[w] # "gone"
      /\ (removal[w].config <=> config = w) /\ (removal[w].lock <=> lock = w)
      /\ \A u \in Version \ {w} : removal[u].phase = "none"
  BY <1>1, RemovalSteps, ConstantsAssumption DEF RemovalSection, MetadataSection, Passes
<1>4. Surviving(w) # "gone" /\ Surviving(w)' = "gone"
  BY <1>1, <1>2, <1>3 DEF Surviving
<1>5. \A v \in Version \ {w} : Surviving(v)' = Surviving(v)
  BY <1>1, <1>2 DEF Surviving, Early
<1>6. Pinned' = IF Pinned = w THEN None ELSE Pinned
  BY <1>1, <1>2, <1>3, ConstantsAssumption DEF Pinned
<1>7. Recorded' = IF Recorded = w THEN None ELSE Recorded
  BY <1>1, <1>2, <1>3, ConstantsAssumption DEF Recorded
<1> QED
  BY <1>4, <1>5, <1>6, <1>7

\* All that is invariant.
Steady == Orderly /\ Sectioned /\ Neat

\* A step of p before which and in which nothing fails and no root is taken from an
\* open promotion.
Blameless(p) ==
  (Start(p) \/ Kill(p) \/ Run(p)) /\ Recalls /\ errors' = 0 /\ clashed' = {}

\* What the process of such a step finds.
LEMMA SteadyFacts ==
  ASSUME Steady, NEW p \in Process, Blameless(p)
  PROVE  /\ pc \in [Process -> PcType] /\ cmd \in [Process -> CmdType]
         /\ root \in [Version -> Place] /\ backup \in [Version -> Place]
         /\ away \in [Version -> Place] /\ promotion \in [Version -> PromotionType]
         /\ removal \in [Version -> RemovalType] /\ config \in Version \cup {None}
         /\ lock \in Version \cup {None}
         /\ errors = 0 /\ errors' = 0 /\ Unclashing /\ (Start(p) \/ Kill(p) \/ Run(p))
         /\ (pc[p] # "idle" => cmd[p].ver \in Version) /\ pc[p] \notin Failing /\ Carries(p)
         /\ Removals /\ (pc[p] = "open" => Unpublished(cmd[p].ver))
         /\ PromotionSection(p) /\ MetadataSection(p) /\ RemovalSection(p)
         /\ Cleaned(p) /\ \A v \in Version : Ready(v)
<1>1. TypeOK /\ Control(p)
  BY DEF Steady, Orderly
<1>2. errors = 0 /\ errors' = 0
  <2>1. pc \in [Process -> PcType] /\ cmd \in [Process -> CmdType] /\ errors \in Nat
    BY <1>1, Typed
  <2> QED
    BY <2>1, ErrorsGrow DEF Blameless
<1>3. Removals /\ (Settling(p) => Unpublished(cmd[p].ver)) /\ Found(p)
  BY <1>2 DEF Steady, Sectioned
<1>4. Carries(p) /\ (pc[p] # "idle" => cmd[p].ver \in Version)
  BY <1>1 DEF Control, Carries
<1>5. pc[p] \notin Failing
  BY <1>2, <1>4 DEF Carries
<1>6. clashed = {} /\ Unclashing
  BY DEF Blameless, Recalls, Unclashing
<1>7. Cleaned(p) /\ \A v \in Version : Ready(v)
  BY <1>2, <1>6 DEF Steady, Neat
<1> QED
  BY <1>1, <1>2, <1>3, <1>4, <1>5, <1>6, <1>7, Typed DEF Blameless, Found, Settling

\* The order of the trees is kept by every step.
LEMMA NeatStep ==
  ASSUME Steady, NEW p \in Process, Start(p) \/ Kill(p) \/ Run(p), Recalls
  PROVE  Neat'
<1> SUFFICES ASSUME Blameless(p)
             PROVE  /\ \A q \in Process : Cleaned(q)'
                    /\ \A v \in Version : Ready(v)'
  BY DEF Neat, Blameless
<1>1. \A v \in Version : Ready(v)'
  BY SteadyFacts, ReadyOwn
<1>2. Cleaned(p)'
  BY SteadyFacts, CleanedOwn
<1>3. ASSUME NEW q \in Process \ {p} PROVE Cleaned(q)'
  <2>1. pc'[q] = pc[q] /\ cmd'[q] = cmd[q]
    BY SteadyFacts, Alone
  <2>2. Cleaned(q)
    BY SteadyFacts DEF Steady, Neat, Blameless, Recalls
  <2>3. pc[q] = "cleared" => backup' = backup
    <3>1. pc[q] = "cleared" => pc[p] \notin Locked
      BY StepsLocked DEF Steady, Orderly, Control
    <3> QED
      BY <3>1, SteadyFacts, Outside
  <2> QED
    BY <2>1, <2>2, <2>3 DEF Cleaned
<1> QED
  BY <1>1, <1>2, <1>3

\* At the beginning the journals say nothing, and nothing is aside.
LEMMA NeatInit ==
  ASSUME Init
  PROVE  Neat
<1>1. \A p \in Process : pc[p] = "idle"
  BY DEF Init
<1>2. \A v \in Version : /\ root[v] \in Tree \cup {"gone"} /\ backup[v] = "gone"
                         /\ away[v] = "gone" /\ promotion[v].phase = "none"
                         /\ removal[v].phase = "none"
  BY DEF Init, NoPromotion, NoRemoval
<1> QED
  BY <1>1, <1>2 DEF Neat, Cleaned, Ready, Early, Late

\* A step that changes nothing keeps the order.
LEMMA NeatStutter ==
  ASSUME Neat, UNCHANGED vars
  PROVE  Neat'
  BY DEF Neat, Cleaned, Ready, Early, Late, vars, trees, journals, metadata, locks, counters,
         history

\* Until something fails or a root is taken from an open promotion, the journals say
\* where the trees are, however the processes interleave and wherever they are
\* killed (global_npm_use/promotion.rs, uninstall.rs).
THEOREM NeatAlways == Spec => []Steady
<1>1. Init => Neat
  BY NeatInit
<1>2. Orderly /\ Sectioned /\ Neat /\ [Next]_vars => Neat'
  <2>1. ASSUME Orderly, Sectioned, Neat, NEW p \in Process, Start(p) \/ Kill(p) \/ Run(p),
               Recalls
        PROVE  Neat'
    BY <2>1, NeatStep DEF Steady
  <2> QED
    BY <2>1, NeatStutter DEF Next
<1>3. Orderly /\ Sectioned /\ Neat => Steady
  BY DEF Steady
<1> QED
  BY <1>1, <1>2, <1>3, OrderlyAlways, SectionedAlways, PTL DEF Spec

\* What is installed, pinned and recorded at the beginning is what is there.
LEMMA MapsInit ==
  ASSUME Init
  PROVE  Tool!Init
<1>1. \A v \in Version : Surviving(v) = root[v] /\ removal[v].phase = "none"
  BY DEF Init, Surviving, Early, NoPromotion, NoRemoval
<1>2. Pinned = config /\ Recorded = lock /\ lock = config
  BY <1>1 DEF Init, Pinned, Recorded
<1>3. [v \in Version |-> Surviving(v)] \in [Version -> Tree \cup {"gone"}]
  BY <1>1 DEF Init
<1>4. config \in {v \in Version : root[v] # "gone"} \cup {None}
  BY DEF Init
<1> QED
  BY <1>1, <1>2, <1>3, <1>4 DEF Tool!Init

\* Every step is a step of the promise, or nothing to it.
LEMMA MapsStep ==
  ASSUME Steady, NEW p \in Process, Blameless(p)
  PROVE  \/ Tool!Next
         \/ UNCHANGED <<[v \in Version |-> Surviving(v)], Pinned, Recorded>>
<1> SUFFICES ASSUME NEW w, w = cmd[p].ver
             PROVE  \/ Tool!Next
                    \/ UNCHANGED <<[v \in Version |-> Surviving(v)], Pinned, Recorded>>
  OBVIOUS
<1> DEFINE tree == [v \in Version |-> Surviving(v)]
<1>1. CASE Commit(p)
  <2>1. w \in Version
    BY <1>1, SteadyFacts DEF Commit, Step, Fails
  <2>2. /\ Surviving(w) # "gone" /\ Surviving(w)' = "gone"
        /\ \A v \in Version \ {w} : Surviving(v)' = Surviving(v)
        /\ Pinned' = IF Pinned = w THEN None ELSE Pinned
        /\ Recorded' = IF Recorded = w THEN None ELSE Recorded
    BY <1>1, <2>1, SteadyFacts, CommitOwn
  <2>3. tree[w] # "gone" /\ tree' = [tree EXCEPT ![w] = "gone"]
    BY <2>1, <2>2
  <2>4. Tool!Remove(w)
    BY <2>2, <2>3 DEF Tool!Remove
  <2> QED
    BY <2>1, <2>4 DEF Tool!Next
<1>2. CASE ~Commit(p)
  <2>1. \A v \in Version :
          \/ Surviving(v)' = Surviving(v)
          \/ /\ pc[p] = "placed" /\ pc'[p] = "validate" /\ v = w
             /\ Surviving(v)' \in Tree
    BY <1>2, SteadyFacts, SurvivingOwn
  <2>2. \/ Pinned' = Pinned
        \/ /\ pc[p] = "pin" /\ pc'[p] = "record" /\ Pinned' = w
           /\ Surviving(w) # "gone"
    BY <1>2, SteadyFacts, PinnedOwn
  <2>3. \/ Recorded' = Recorded
        \/ /\ pc[p] = "record" /\ pc'[p] = "stale" /\ Recorded' = w
           /\ Pinned = w
    BY <1>2, SteadyFacts, RecordedOwn
  <2>4. pc[p] \in {"placed", "pin", "record"} => w \in Version
    BY SteadyFacts
  <2>5. CASE pc[p] = "placed" /\ Surviving(w)' # Surviving(w) /\ Surviving(w)' \in Tree
    <3>1. tree' = [tree EXCEPT ![w] = Surviving(w)']
      BY <2>1, <2>4, <2>5
    <3>2. Pinned' = Pinned /\ Recorded' = Recorded
      BY <2>2, <2>3, <2>5
    <3>3. Tool!Replace(w)
      BY <2>4, <2>5, <3>1, <3>2 DEF Tool!Replace
    <3> QED
      BY <2>4, <2>5, <3>3 DEF Tool!Next
  <2>6. CASE pc[p] = "pin" /\ Pinned' = w /\ Surviving(w) # "gone" /\ tree' = tree
    <3>1. Recorded' = Recorded /\ tree[w] # "gone"
      BY <2>3, <2>4, <2>6
    <3>2. Tool!Pin(w)
      BY <2>4, <2>6, <3>1 DEF Tool!Pin
    <3> QED
      BY <2>4, <2>6, <3>2 DEF Tool!Next
  <2>7. CASE pc[p] = "record" /\ Recorded' = w /\ Pinned = w /\ tree' = tree
    <3>1. Pinned' = Pinned
      BY <2>2, <2>7
    <3>2. Tool!Record(w)
      BY <2>7, <3>1 DEF Tool!Record
    <3> QED
      BY <2>4, <2>7, <3>2 DEF Tool!Next
  <2>8. CASE \A v \in Version : Surviving(v)' = Surviving(v)
    <3>1. tree' = tree
      BY <2>8
    <3> QED
      BY <2>2, <2>3, <2>6, <2>7, <3>1
  <2> QED
    BY <2>1, <2>5, <2>8
<1> QED
  BY <1>1, <1>2

\* Until an operation of the file system fails, or an uninstall takes a root whose
\* promotion is still open, every install and uninstall happens at once or not at all,
\* killed at any point, for any processes, versions, trees, commands, kills and damage
\* (GlobalNpm!ImplementsGlobalTool; global_npm_use/promotion.rs, uninstall.rs).
THEOREM Implements == Spec => ImplementsGlobalTool
<1>1. Init => Tool!Init
  BY MapsInit
<1>2. Steady /\ [Next]_vars =>
        [errors' = 0 /\ clashed' = {} =>
           [Tool!Next]_<<[v \in Version |-> Surviving(v)], Pinned, Recorded>>]_vars
  <2>1. ASSUME NEW p \in Process, Steady, Blameless(p)
        PROVE  [Tool!Next]_<<[v \in Version |-> Surviving(v)], Pinned, Recorded>>
    BY <2>1, MapsStep
  <2> QED
    BY <2>1 DEF Next, Blameless
<1> QED
  BY <1>1, <1>2, NeatAlways, PTL DEF Spec, ImplementsGlobalTool

=============================================================================

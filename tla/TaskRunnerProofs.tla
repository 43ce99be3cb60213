-------------------------- MODULE TaskRunnerProofs --------------------------
(***************************************************************************)
(* Proofs about TaskRunner, whatever the plans, the size of a batch and the*)
(* errors: what each thread knows, and may run, and what follows from it   *)
(* for every run.                                                          *)
(***************************************************************************)
EXTENDS TasksProofs

-----------------------------------------------------------------------------
(* What a thread knows of the tasks it works on, and of those its parent does *)

Held(h) == {f.task : f \in Frames(h)} \cap Task
Ok(h) == {t \in Task : Completed(h, t) = "ok"}

\* No task is worked on by two frames.
Apart(h) ==
  \A i, j \in 1..Len(stack[h]) :
    i < j /\ stack[h][i].task \in Task => stack[h][i].task # stack[h][j].task

\* A task that a frame works on is running and not completed.
KnowsOwn(h) == \A t \in Held(h) : t \in memo[h].running /\ Completed(h, t) = None

\* What the parent runs and has completed, a worker leaves as it is.
Inherits(w) ==
  /\ memo[Front(w)].running \subseteq memo[w].running \ Held(w)
  /\ \A t \in Task : Completed(Front(w), t) # None \/ t \in memo[Front(w)].running
                       => Completed(w, t) = Completed(Front(w), t)

Known ==
  /\ \A h \in Alive : Apart(h) /\ KnowsOwn(h) /\ Ok(h) \subseteq fine
  /\ \A w \in Alive \ {Main} : Inherits(w)

\* How a step of h may change its memo: it completes a task that was not, and that was
\* not running unless a frame of h worked on it and does no more.
Learns(h) ==
  /\ \A g \in Alive \ {h} : memo'[g] = memo[g]
  /\ \A t \in Task : Completed(h, t)' # Completed(h, t) =>
       /\ Completed(h, t) = None /\ t \notin Held(h)'
       /\ t \in memo[h].running => t \in Held(h)
       /\ Completed(h, t)' = "ok" => t \in fine'
  /\ \A t \in memo[h].running : t \in memo'[h].running \/ (t \in Held(h) /\ t \notin Held(h)')
  /\ \A t \in Held(h)' : t \in Held(h) \/ (t \notin memo[h].running /\ t \in memo'[h].running
                                              /\ Completed(h, t)' = None)
  /\ Apart(h)' /\ fine \subseteq fine'

LEMMA TopApart ==
  ASSUME Stacks, NEW h \in Alive, stack[h] # <<>>, Apart(h), Top(h).task \in Task
  PROVE  \A f \in Outer(h) : f.task # Top(h).task
  <1>1. Len(stack[h]) \in Nat \ {0} /\ Top(h) = stack[h][Len(stack[h])]
    BY StackFacts
  <1> QED
    BY <1>1 DEF Outer, Apart

\* The stack of h after a step that takes up no task but t in its innermost frame.
LEMMA ApartAfter ==
  ASSUME Threads, NEW h \in Alive, stack[h] # <<>>, Apart(h)
  PROVE  /\ \A f : Goes(h, f) /\ (f.task \in {None, Top(h).task} \/ f.task \notin Held(h)) => Apart(h)'
         /\ \A f, g : Pushes(h, f, g) /\ f.task \in {None, Top(h).task} /\ g.task = None => Apart(h)'
         /\ \A r : Pops(h, r) => Apart(h)'
  <1> DEFINE n == Len(stack[h])
  <1>1. n \in Nat \ {0} /\ Top(h) = stack[h][n] /\ None \notin Task /\ Stacks
    BY StackFacts, TopFacts, ConstantsAssumption DEF Threads
  <1>2. \A i \in 1..(n - 1) : stack[h][i] \in Frames(h)
    BY <1>1 DEF Frames
  <1>3. ASSUME Keeps(h) PROVE \A i \in 1..(n - 1) : stack'[h][i] = stack[h][i]
    BY <1>3 DEF Keeps, Outside
  <1>4. \A i, j \in 1..n : i < j /\ stack[h][i].task \in Task => stack[h][i].task # stack[h][j].task
    BY DEF Apart
  <1>5. \A i \in 1..(n - 1) : stack[h][i].task \in Task => stack[h][i].task \in Held(h)
    BY <1>2 DEF Held
  <1>6. ASSUME NEW f, Goes(h, f), f.task \in {None, Top(h).task} \/ f.task \notin Held(h) PROVE Apart(h)'
    <2>1. Len(stack'[h]) = n /\ Top(h)' = f /\ Keeps(h)
      BY <1>6 DEF Goes
    <2>2. stack'[h][n] = f
      BY <2>1 DEF Top, Last
    <2> HIDE DEF n
    <2>3. ASSUME NEW i \in 1..n, NEW j \in 1..n, i < j, stack'[h][i].task \in Task
          PROVE  stack'[h][i].task # stack'[h][j].task
      <3>1. i \in 1..(n - 1) /\ stack'[h][i] = stack[h][i]
        BY <1>1, <1>3, <2>1, <2>3
      <3>2. CASE j = n
        BY <1>1, <1>4, <1>5, <1>6, <2>2, <2>3, <3>1, <3>2
      <3>3. CASE j # n
        <4>1. j \in 1..(n - 1) /\ stack'[h][j] = stack[h][j]
          BY <1>1, <1>3, <2>1, <3>3
        <4> QED
          BY <1>4, <2>3, <3>1, <4>1
      <3> QED
        BY <3>2, <3>3
    <2> QED
      BY <2>1, <2>3 DEF Apart, n
  <1>7. ASSUME NEW f, NEW g, Pushes(h, f, g), f.task \in {None, Top(h).task}, g.task = None PROVE Apart(h)'
    <2>1. Len(stack'[h]) = n + 1 /\ Top(h)' = g /\ Keeps(h) /\ stack'[h][n] = f
      BY <1>7 DEF Pushes
    <2>2. stack'[h][n + 1] = g
      BY <2>1 DEF Top, Last
    <2> HIDE DEF n
    <2>3. ASSUME NEW i \in 1..(n + 1), NEW j \in 1..(n + 1), i < j, stack'[h][i].task \in Task
          PROVE  stack'[h][i].task # stack'[h][j].task
      <3>1. CASE j = n + 1
        BY <1>1, <1>7, <2>2, <2>3, <3>1
      <3>2. CASE j # n + 1
        <4>1. i \in 1..(n - 1) /\ j \in 1..n
          BY <1>1, <2>3, <3>2
        <4>4. stack'[h][i] = stack[h][i]
          BY <1>3, <2>1, <4>1
        <4>2. CASE j = n
          <5>1. n \in 1..n /\ i \in 1..n /\ i < n
            BY <1>1, <4>1
          <5>2. stack[h][i].task # stack[h][n].task
            BY <1>4, <2>3, <4>4, <5>1
          <5> QED
            BY <1>1, <1>7, <2>1, <2>3, <4>2, <4>4, <5>2
        <4>3. CASE j # n
          <5>1. j \in 1..(n - 1) /\ stack'[h][j] = stack[h][j]
            BY <1>1, <1>3, <2>1, <4>1, <4>3
          <5>2. i \in 1..n /\ i < j
            BY <1>1, <2>3, <4>1
          <5>3. stack[h][i].task # stack[h][j].task
            BY <1>4, <2>3, <4>1, <4>4, <5>2
          <5> QED
            BY <4>4, <5>1, <5>3
        <4> QED
          BY <4>2, <4>3
      <3> QED
        BY <3>1, <3>2
    <2> QED
      BY <2>1, <2>3 DEF Apart, n
  <1>8. ASSUME NEW r, Pops(h, r) PROVE Apart(h)'
    <2>1. Len(stack'[h]) = n - 1 /\ Keeps(h)
      BY <1>8 DEF Pops
    <2> HIDE DEF n
    <2>2. \A i \in 1..(n - 1) : i \in 1..n
      BY <1>1
    <2> QED
      BY <1>3, <1>4, <2>1, <2>2 DEF Apart
  <1> QED
    BY <1>6, <1>7, <1>8

\* The same for the tasks that the frames work on.
LEMMA HeldAfter ==
  ASSUME Threads, NEW h \in Alive, stack[h] # <<>>, Apart(h)
  PROVE  /\ \A f : Goes(h, f) /\ f.task = None =>
              Held(h)' \subseteq Held(h) \ {Top(h).task} /\ Held(h) \subseteq Held(h)' \cup {Top(h).task}
         /\ \A f, t : Goes(h, f) /\ f.task = t /\ Top(h).task = None =>
              Held(h)' \subseteq Held(h) \cup {t}
         /\ \A r : Pops(h, r) => Held(h)' \subseteq Held(h) \ {Top(h).task}
         /\ SameTasks(h) => Held(h)' \subseteq Held(h)
         /\ Top(h).task \in Task => Top(h).task \in Held(h)
  <1>1. Stacks /\ None \notin Task /\ Frames(h) = Outer(h) \cup {Top(h)}
    BY StackFacts, TopFacts, ConstantsAssumption DEF Threads
  <1>2. Top(h).task \in Task => \A f \in Outer(h) : f.task # Top(h).task
    BY <1>1, TopApart
  <1>3. ASSUME SameTasks(h) PROVE Held(h)' \subseteq Held(h)
    <2>1. \A f \in Frames(h)' : f.task \in Task => \E g \in Frames(h) : g.task = f.task
      BY <1>3, SameTasksFrames
    <2> QED
      BY <2>1 DEF Held
  <1>4. ASSUME NEW f, Goes(h, f), f.task = None
        PROVE  Held(h)' \subseteq Held(h) \ {Top(h).task} /\ Held(h) \subseteq Held(h)' \cup {Top(h).task}
    <2>1. Frames(h)' = Outer(h) \cup {f}
      BY <1>4 DEF Goes
    <2> QED
      BY <1>1, <1>2, <1>4, <2>1 DEF Held
  <1>5. ASSUME NEW f, NEW t, Goes(h, f), f.task = t, Top(h).task = None
        PROVE  Held(h)' \subseteq Held(h) \cup {t}
    <2>1. Frames(h)' = Outer(h) \cup {f}
      BY <1>5 DEF Goes
    <2> QED
      BY <1>1, <1>5, <2>1 DEF Held
  <1>6. ASSUME NEW r, Pops(h, r) PROVE Held(h)' \subseteq Held(h) \ {Top(h).task}
    <2>1. Frames(h)' = Outer(h)
      BY <1>6 DEF Pops
    <2> QED
      BY <1>1, <1>2, <2>1 DEF Held
  <1>7. Top(h).task \in Task => Top(h).task \in Held(h)
    BY <1>1 DEF Held
  <1> QED
    BY <1>3, <1>4, <1>5, <1>6, <1>7

\* Which steps change the memo.
LEMMA MemoKinds ==
  ASSUME Threads, NEW h \in Alive, Plain(h)
  PROVE  \/ UNCHANGED <<memo, fine>>
         \/ \E t \in Task : StartBody(h, t) \/ SkipFresh(h, t) \/ ReturnCompleted(h, t) \/ DecideFails(h, t)
         \/ EndWithFailure(h) \/ EndWithSuccess(h)
  <1>1. EndOfList(h) \/ SkipCompleted(h) \/ EndWithError(h) => UNCHANGED <<memo, fine>>
    BY DEF EndOfList, SkipCompleted, EndWithError, history
  <1>2. \A t \in Task : ReferenceCycle(h, t) => UNCHANGED <<memo, fine>>
    BY DEF ReferenceCycle, history
  <1>3. BodyCommand(h) \/ BodyGroup(h) \/ BodyGroupReturns(h) \/ EndOfBody(h) => UNCHANGED <<memo, fine>>
    BY DEF BodyCommand, BodyGroup, BodyGroupReturns, EndOfBody, history
  <1>4. PostCommand(h) \/ PostGroup(h) \/ PostGroupReturns(h) \/ RecordFails(h) => UNCHANGED <<memo, fine>>
    BY DEF PostCommand, PostGroup, PostGroupReturns, RecordFails
  <1>5. GroupPrerequisite(h) \/ GroupPrerequisiteReturns(h) \/ StartGroup(h) => UNCHANGED <<memo, fine>>
    BY DEF GroupPrerequisite, GroupPrerequisiteReturns, StartGroup, history
  <1>6. SerialTask(h) \/ SerialTaskReturns(h) \/ EndSerial(h) \/ EndFork(h) => UNCHANGED <<memo, fine>>
    BY DEF SerialTask, SerialTaskReturns, EndSerial, EndFork, history
  <1> QED
    BY <1>1, <1>2, <1>3, <1>4, <1>5, <1>6 DEF Plain, TaskStep, TakeStep

LEMMA MarkRunningDoes ==
  ASSUME TypeOK, NEW h \in Alive, NEW t \in Task, MarkRunning(h, t)
  PROVE  /\ memo'[h].running = memo[h].running \cup {t}
         /\ \A u \in Task : Completed(h, u)' = Completed(h, u)
         /\ \A g \in Alive \ {h} : memo'[g] = memo[g]
  <1>1. memo \in [Alive -> Memo] /\ memo[h] \in Memo
    BY DEF TypeOK
  <1>2. memo'[h] = [memo[h] EXCEPT !.running = @ \cup {t}] /\ \A g \in Alive \ {h} : memo'[g] = memo[g]
    BY <1>1 DEF MarkRunning
  <1>3. memo'[h].running = memo[h].running \cup {t} /\ memo'[h].completed = memo[h].completed
    BY <1>1, <1>2 DEF Memo
  <1> QED
    BY <1>2, <1>3 DEF Completed

LEMMA CompleteDoes ==
  ASSUME TypeOK, NEW h \in Alive, NEW t \in Task, NEW code \in Code, Complete(h, t, code)
  PROVE  /\ memo'[h].running = memo[h].running \ {t} /\ Completed(h, t)' = code
         /\ \A u \in Task : u # t => Completed(h, u)' = Completed(h, u)
         /\ \A g \in Alive \ {h} : memo'[g] = memo[g]
  <1>1. memo \in [Alive -> Memo] /\ memo[h] \in Memo /\ memo[h].completed \in [Task -> Code \cup {None}]
    BY DEF TypeOK, Memo
  <1>2. /\ memo'[h] = [completed |-> [memo[h].completed EXCEPT ![t] = code], running |-> memo[h].running \ {t}]
        /\ \A g \in Alive \ {h} : memo'[g] = memo[g]
    BY <1>1 DEF Complete
  <1>3. memo'[h].running = memo[h].running \ {t} /\ memo'[h].completed = [memo[h].completed EXCEPT ![t] = code]
    BY <1>2
  <1> QED
    BY <1>1, <1>2, <1>3 DEF Completed

LEMMA MarkLearns ==
  ASSUME Threads, Known, NEW h \in Alive, NEW t \in Task, t \notin memo[h].running, MarkRunning(h, t),
         Apart(h)', fine \subseteq fine',
         Held(h)' \subseteq Held(h) \/ (Held(h)' \subseteq Held(h) \cup {t} /\ Completed(h, t) = None)
  PROVE  Learns(h)
  BY MarkRunningDoes DEF Learns, Threads

LEMMA CompleteLearns ==
  ASSUME Threads, Known, NEW h \in Alive, NEW t \in Task, NEW code \in Code, Complete(h, t, code),
         Apart(h)', Held(h)' \subseteq Held(h) \ {t}, Completed(h, t) = None,
         t \in memo[h].running => t \in Held(h),
         fine \subseteq fine', code = "ok" => t \in fine'
  PROVE  Learns(h)
  BY CompleteDoes DEF Learns, Threads

LEMMA PlainLearns ==
  ASSUME Threads, Known, NEW h \in Alive, Plain(h)
  PROVE  Learns(h)
  <1>1. TypeOK /\ Shape /\ Apart(h) /\ KnowsOwn(h) /\ stack[h] # <<>> /\ Top(h).phase # "join"
    BY PlainTasks DEF Threads, Known
  <1>2. "ok" \in Code /\ "failed" \in Code /\ None \notin Task
    BY ResultKinds, ConstantsAssumption
  <1>3. SameTasks(h) => Apart(h)' /\ Held(h)' \subseteq Held(h)
    BY <1>1, ApartAfter, HeldAfter DEF SameTasks
  <1>4. ASSUME NEW t \in Task, Takes(h, t)
        PROVE  Top(h).phase = "next" /\ Top(h).task = None /\ Top(h).todo # <<>> /\ Ready(h, "next")
    BY <1>1, <1>4, TakesFacts, TopFacts DEF Takes, Shaped
  <1>5. ASSUME NEW t \in Task, StartBody(h, t) PROVE Learns(h)
    <2>1. PICK g : Goes(h, g) /\ g.task = t
      BY <1>1, <1>5, StartBodyGoes
    <2>2. Takes(h, t) /\ t \notin memo[h].running /\ Completed(h, t) = None /\ MarkRunning(h, t) /\ fine' = fine
      BY <1>5 DEF StartBody, Decides
    <2>3. t \notin Held(h)
      BY <1>1, <2>2 DEF KnowsOwn
    <2>4. Apart(h)'
      BY <1>1, <2>1, <2>3, ApartAfter
    <2>5. Held(h)' \subseteq Held(h) \cup {t}
      BY <1>1, <1>4, <2>1, <2>2, HeldAfter
    <2> QED
      BY <2>2, <2>4, <2>5, MarkLearns
  <1>6. ASSUME NEW t \in Task, ReturnCompleted(h, t) \/ DecideFails(h, t) PROVE Learns(h)
    <2>1. Takes(h, t) /\ t \notin memo[h].running /\ MarkRunning(h, t) /\ fine' = fine
      BY <1>6 DEF ReturnCompleted, DecideFails, Decides, history
    <2>2. \E r \in Result : Return(h, r)
      BY <1>6 DEF ReturnCompleted, DecideFails, Result, Code, Err
    <2>3. \E r \in Result : Pops(h, r)
      BY <1>1, <2>2, LeavePops
    <2>4. Apart(h)' /\ Held(h)' \subseteq Held(h)
      BY <1>1, <2>3, ApartAfter, HeldAfter
    <2> QED
      BY <2>1, <2>4, MarkLearns
  <1>7. ASSUME NEW t \in Task, SkipFresh(h, t) PROVE Learns(h)
    <2>1. /\ Takes(h, t) /\ t \notin memo[h].running /\ Completed(h, t) = None /\ Complete(h, t, "ok")
          /\ fine' = fine \cup {t} /\ Continue(h, Passed(Top(h)))
      BY <1>7 DEF SkipFresh, Decides, Passed
    <2>2. Goes(h, Passed(Top(h))) /\ Passed(Top(h)).task = None
      BY <1>1, <1>4, <2>1, SkipGoes, TopFacts, PassedTypes
    <2>3. Apart(h)' /\ Held(h)' \subseteq Held(h)
      BY <1>1, <2>2, ApartAfter, HeldAfter
    <2>4. t \notin Held(h)
      BY <1>1, <2>1 DEF KnowsOwn
    <2> QED
      BY <1>2, <2>1, <2>3, <2>4, CompleteLearns
  <1>8. ASSUME NEW t \in Task, t = Top(h).task PROVE Completed(h, t) = None /\ t \in Held(h)
    BY <1>1, <1>8, HeldAfter DEF KnowsOwn
  <1>9. ASSUME EndWithFailure(h) PROVE Learns(h)
    <2>1. Top(h).task \in Task /\ Complete(h, Top(h).task, "failed") /\ fine' = fine /\ \E r : Pops(h, r)
      BY <1>1, <1>9, EndWithFailureQuits, WorkFacts DEF EndWithFailure, Quits, history, TeardownDone, Ready, At
    <2>2. Apart(h)' /\ Held(h)' \subseteq Held(h) \ {Top(h).task}
      BY <1>1, <2>1, ApartAfter, HeldAfter
    <2> QED
      BY <1>2, <1>8, <2>1, <2>2, CompleteLearns
  <1>10. ASSUME EndWithSuccess(h) PROVE Learns(h)
    <2>1. /\ Top(h).task \in Task /\ Complete(h, Top(h).task, "ok") /\ fine' = fine \cup {Top(h).task}
          /\ \E g : Goes(h, g) /\ g.task = None
      BY <1>1, <1>10, EndWithSuccessGoes, WorkFacts DEF EndWithSuccess
    <2>2. Apart(h)' /\ Held(h)' \subseteq Held(h) \ {Top(h).task}
      BY <1>1, <2>1, ApartAfter, HeldAfter
    <2> QED
      BY <1>2, <1>8, <2>1, <2>2, CompleteLearns
  <1>11. ASSUME UNCHANGED <<memo, fine>>, SameTasks(h) PROVE Learns(h)
    BY <1>3, <1>11 DEF Learns, Completed
  <1> QED
    BY <1>5, <1>6, <1>7, <1>9, <1>10, <1>11, MemoKinds, PlainTasks

LEMMA PlainKnown ==
  ASSUME Threads, Known, NEW h \in Alive, Keeps(h), Learns(h), stack[h] # <<>>, Top(h).phase # "join"
  PROVE  Known'
  <1>1. /\ Alive' = Alive /\ \A g \in Alive \ {h} : /\ stack'[g] = stack[g] /\ Frames(g)' = Frames(g)
                                                  /\ memo'[g] = memo[g]
    BY DEF Keeps, Outside, Learns
  <1>2. \A w \in Alive \ {Main} : Front(w) \in Alive \ {h}
    BY NotJoining, ParentFacts DEF At, Threads
  <1>3. \A g \in Alive \ {h} : /\ Held(g)' = Held(g) /\ Ok(g)' = Ok(g) /\ (Apart(g)' <=> Apart(g))
                               /\ \A t \in Task : Completed(g, t)' = Completed(g, t)
    BY <1>1 DEF Held, Ok, Apart, Completed
  <1>4. \A g \in Alive \ {h} : Apart(g)' /\ KnowsOwn(g)' /\ Ok(g)' \subseteq fine'
    BY <1>1, <1>3 DEF Known, KnowsOwn, Learns, Held
  <1>5. KnowsOwn(h)'
    <2>1. ASSUME NEW t \in Held(h)' PROVE t \in memo'[h].running /\ Completed(h, t)' = None
      <3>1. t \in Task
        BY DEF Held
      <3> QED
        BY <2>1, <3>1 DEF Learns, Known, KnowsOwn
    <2> QED
      BY <2>1 DEF KnowsOwn
  <1>6. Ok(h)' \subseteq fine'
    BY DEF Ok, Learns, Known
  <1>7. Apart(h)'
    BY DEF Learns
  <1>8. ASSUME NEW w \in Alive \ {Main}, w # h PROVE Inherits(w)'
    <2>1. Front(w) \in Alive \ {h} /\ memo'[w] = memo[w] /\ Held(w)' = Held(w) /\ Inherits(w)
      BY <1>1, <1>2, <1>3, <1>8 DEF Known
    <2> QED
      BY <1>1, <2>1 DEF Inherits, Completed
  <1>9. ASSUME h # Main PROVE Inherits(h)'
    <2> DEFINE p == Front(h)
    <2>1. p \in Alive \ {h} /\ Inherits(h) /\ memo'[p] = memo[p]
      BY <1>1, <1>2, <1>9 DEF Known
    <2>2. memo[p].running \subseteq Task
      BY <2>1, CompletedTypes DEF Threads, TypeOK, Memo
    <2>3. memo[p].running \subseteq memo[h].running \ Held(h)
      BY <2>1 DEF Inherits
    <2>4. memo[p].running \subseteq memo'[h].running \ Held(h)'
      BY <2>2, <2>3 DEF Learns
    <2>5. ASSUME NEW t \in Task, Completed(p, t) # None \/ t \in memo[p].running
          PROVE  Completed(h, t)' = Completed(p, t)
      <3>1. Completed(h, t) = Completed(p, t)
        BY <2>1, <2>5 DEF Inherits
      <3> QED
        BY <2>3, <2>5, <3>1 DEF Learns
    <2> QED
      BY <2>1, <2>4, <2>5 DEF Inherits, Completed
  <1> QED
    BY <1>1, <1>4, <1>5, <1>6, <1>7, <1>8, <1>9 DEF Known

LEMMA ForkKnown ==
  ASSUME Threads, Known, NEW h \in Alive, Fork(h)
  PROVE  Known'
  <1>1. /\ TypeOK /\ Shape /\ Tree /\ ForkMoves(h) /\ fine' = fine /\ Ready(h, "fork")
        /\ stack[h] # <<>> /\ Joining(h).task = Top(h).task /\ Top(h).phase = "fork"
    BY ForkDoes, ForkRest, ForkFrame DEF Threads, history
  <1>2. /\ Alive' = Alive \cup Forked(h)
        /\ \A g \in Alive \ {h} : stack'[g] = stack[g] /\ Frames(g)' = Frames(g)
        /\ \A g \in Alive : memo'[g] = memo[g]
        /\ \A w \in Forked(h) : memo'[w] = memo[h]
    BY <1>1 DEF ForkMoves
  <1>3. Forked(h) \cap Alive = {} /\ \A w \in Forked(h) : Front(w) = h /\ w # Main
    BY <1>1, ForkedFacts
  <1>4. \A g \in Alive, t \in Task : Completed(g, t)' = Completed(g, t)
    BY <1>2 DEF Completed
  <1>5. Held(h)' = Held(h) /\ Apart(h)'
    <2>1. Frames(h)' = Outer(h) \cup {Joining(h)} /\ Frames(h) = Outer(h) \cup {Top(h)}
      BY <1>1, TopFacts, StackFacts DEF ForkMoves
    <2>2. Len(stack[h]) \in Nat \ {0} /\ Top(h) = stack[h][Len(stack[h])]
      BY <1>1, TopFacts, StackFacts
    <2>3. /\ Len(stack'[h]) = Len(stack[h]) /\ Top(h)' = Joining(h)
          /\ \A i \in 1..(Len(stack[h]) - 1) : stack'[h][i] = stack[h][i]
      BY <1>1 DEF ForkMoves
    <2>4. stack'[h][Len(stack[h])].task = stack[h][Len(stack[h])].task
      BY <1>1, <2>2, <2>3 DEF Top, Last
    <2>5. \A i \in 1..Len(stack[h]) : stack'[h][i].task = stack[h][i].task
      BY <2>2, <2>3, <2>4
    <2>6. Apart(h)'
      BY <2>3, <2>5 DEF Known, Apart
    <2> QED
      BY <1>1, <2>1, <2>6 DEF Held
  <1>6. \A g \in Alive : Held(g)' = Held(g) /\ Apart(g)'
    BY <1>2, <1>5 DEF Held, Apart, Known
  <1>7. ASSUME NEW w \in Forked(h) PROVE Held(w)' = {} /\ Apart(w)'
    <2>1. PICK f : f = TaskFrame(Top(h).order, Last(w))
      OBVIOUS
    <2>2. f.task = None /\ stack'[w] = <<f>> /\ Frames(w)' = {f} /\ None \notin Task
      BY <1>1, <2>1, ForkedFrame, ConstantsAssumption DEF ForkMoves
    <2>3. Held(w)' = {}
      BY <2>2 DEF Held
    <2>4. Len(<<f>>) = 1 /\ \A i, j \in 1..1 : ~(i < j)
      OBVIOUS
    <2> QED
      BY <2>2, <2>3, <2>4 DEF Apart
  <1>8. ASSUME NEW g \in Alive PROVE Apart(g)' /\ KnowsOwn(g)' /\ Ok(g)' \subseteq fine'
    <2>1. \A t \in Held(g) : t \in Task
      BY DEF Held
    <2> QED
      BY <1>1, <1>2, <1>4, <1>6, <2>1 DEF Known, KnowsOwn, Ok
  <1>9. ASSUME NEW w \in Forked(h) PROVE Apart(w)' /\ KnowsOwn(w)' /\ Ok(w)' \subseteq fine' /\ Inherits(w)'
    <2>1. Ok(w)' = Ok(h)
      BY <1>2 DEF Ok, Completed
    <2>2. Front(w) = h /\ memo'[h] = memo[h] /\ memo'[w] = memo[h]
      BY <1>2, <1>3
    <2>3. Inherits(w)'
      BY <1>7, <2>2 DEF Inherits, Completed
    <2> QED
      BY <1>1, <1>7, <2>1, <2>3 DEF Known, KnowsOwn
  <1>10. ASSUME NEW w \in Alive \ {Main} PROVE Inherits(w)'
    <2>1. Front(w) \in Alive /\ Inherits(w)
      BY <1>1, ParentFacts DEF Known
    <2> QED
      BY <1>2, <1>4, <1>6, <2>1 DEF Inherits
  <1> QED
    BY <1>2, <1>3, <1>8, <1>9, <1>10 DEF Known

\* What a thread takes over when it joins its workers.
LEMMA JoinLearns ==
  ASSUME Threads, Known, NEW h \in Alive, Join(h)
  PROVE  /\ JoinMoves(h) /\ fine' = fine /\ memo'[h].running = memo[h].running
         /\ \A t \in Task : Completed(h, t)' = Completed(Owner(h, t), t)
         /\ \A t \in Task : Completed(h, t) # None \/ t \in memo[h].running
                              => Completed(h, t)' = Completed(h, t)
         /\ Held(h)' = Held(h) /\ Apart(h)' /\ Ok(h)' \subseteq fine
  <1>1. /\ TypeOK /\ Shape /\ Tree /\ JoinMoves(h)
        /\ stack[h] # <<>> /\ Joined(h).task = Top(h).task
    BY JoinDoes, JoinFrame DEF Threads
  <1>2. fine' = fine
    BY <1>1, JoinRest DEF JoinMoves, history
  <1>3. memo'[h].running = memo[h].running /\ \A t \in Task : Completed(h, t)' = Completed(Owner(h, t), t)
    BY <1>1 DEF JoinMoves, Completed
  <1>4. \A t : Owner(h, t) = h \/ (Owner(h, t) \in Alive \ {Main} /\ Front(Owner(h, t)) = h)
    BY OwnerFacts DEF Workers
  <1>5. \A t \in Task : Completed(h, t) # None \/ t \in memo[h].running
                          => Completed(h, t)' = Completed(h, t)
    BY <1>3, <1>4 DEF Known, Inherits
  <1>6. Held(h)' = Held(h) /\ Apart(h)'
    <2>1. Frames(h)' = Outer(h) \cup {Joined(h)} /\ Frames(h) = Outer(h) \cup {Top(h)}
      BY <1>1, TopFacts, StackFacts DEF JoinMoves
    <2>2. Len(stack[h]) \in Nat \ {0} /\ Top(h) = stack[h][Len(stack[h])]
      BY <1>1, TopFacts, StackFacts
    <2>3. /\ Len(stack'[h]) = Len(stack[h]) /\ Top(h)' = Joined(h)
          /\ \A i \in 1..(Len(stack[h]) - 1) : stack'[h][i] = stack[h][i]
      BY <1>1 DEF JoinMoves
    <2>4. stack'[h][Len(stack[h])].task = stack[h][Len(stack[h])].task
      BY <1>1, <2>2, <2>3 DEF Top, Last
    <2>5. \A i \in 1..Len(stack[h]) : stack'[h][i].task = stack[h][i].task
      BY <2>2, <2>3, <2>4
    <2>6. Apart(h)'
      BY <2>3, <2>5 DEF Known, Apart
    <2> QED
      BY <1>1, <2>1, <2>6 DEF Held
  <1>7. Ok(h)' \subseteq fine
    <2>1. \A g \in Alive : Ok(g) \subseteq fine
      BY DEF Known
    <2> QED
      BY <1>3, <2>1, OwnerFacts DEF Ok
  <1> QED
    BY <1>1, <1>2, <1>3, <1>5, <1>6, <1>7

LEMMA JoinKnown ==
  ASSUME Threads, Known, NEW h \in Alive, Join(h)
  PROVE  Known'
  <1>1. /\ TypeOK /\ Tree /\ JoinMoves(h) /\ fine' = fine /\ memo'[h].running = memo[h].running
        /\ \A t \in Task : Completed(h, t) # None \/ t \in memo[h].running
                              => Completed(h, t)' = Completed(h, t)
        /\ Held(h)' = Held(h) /\ Apart(h)' /\ Ok(h)' \subseteq fine
    BY JoinLearns DEF Threads
  <1>2. /\ Alive' \subseteq Alive /\ h \in Alive' /\ Alive' = Alive \ Workers(h)
        /\ \A g \in Alive' \ {h} : stack'[g] = stack[g] /\ Frames(g)' = Frames(g) /\ memo'[g] = memo[g]
    BY <1>1 DEF JoinMoves
  <1>3. \A g \in Alive' \ {h} : Apart(g)' /\ KnowsOwn(g)' /\ Ok(g)' \subseteq fine'
    BY <1>1, <1>2 DEF Known, KnowsOwn, Apart, Ok, Held, Completed
  <1>4. KnowsOwn(h)'
    <2>1. \A t \in Held(h) : t \in Task /\ t \in memo[h].running /\ Completed(h, t) = None
      BY DEF Known, KnowsOwn, Held
    <2> QED
      BY <1>1, <2>1 DEF KnowsOwn
  <1>5. \A w \in Alive' \ {Main} : Front(w) \in Alive \ {h}
    BY <1>1, <1>2, ParentFacts DEF Workers
  <1>6. \A w \in Alive' \ {Main} : Front(w) \in Alive' \ {h}
    <2> SUFFICES ASSUME NEW w \in Alive' \ {Main}, Front(w) \in Workers(h) PROVE FALSE
      BY <1>2, <1>5
    <2>1. stack[Front(w)] = <<>>
      BY JoinFrame DEF Threads
    <2> QED
      BY <1>1, <1>2, <2>1, ParentFacts
  <1>7. \A g \in Alive' \ {h} : Held(g)' = Held(g) /\ \A t \in Task : Completed(g, t)' = Completed(g, t)
    BY <1>2 DEF Held, Completed
  <1>8. ASSUME NEW w \in Alive' \ {Main} PROVE Inherits(w)'
    <2>1. Front(w) \in Alive' \ {h} /\ memo'[Front(w)] = memo[Front(w)] /\ Inherits(w)
      BY <1>2, <1>6 DEF Known
    <2>2. CASE w # h
      BY <1>2, <1>7, <2>1, <2>2 DEF Inherits
    <2>3. CASE w = h
      <3>1. memo[Front(h)].running \subseteq memo[h].running \ Held(h)
        BY <2>1, <2>3 DEF Inherits
      <3>2. ASSUME NEW t \in Task, Completed(Front(h), t) # None \/ t \in memo[Front(h)].running
            PROVE  Completed(h, t)' = Completed(Front(h), t)
        <4>1. Completed(h, t) = Completed(Front(h), t)
          BY <2>1, <2>3, <3>2 DEF Inherits
        <4> QED
          BY <1>1, <3>1, <3>2, <4>1
      <3> QED
        BY <1>1, <1>7, <2>1, <2>3, <3>1, <3>2 DEF Inherits
    <2> QED
      BY <2>2, <2>3
  <1> QED
    BY <1>1, <1>2, <1>3, <1>4, <1>8 DEF Known

LEMMA NoFrames ==
  ASSUME NEW h, stack[h] = <<>>
  PROVE  Frames(h) = {} /\ Held(h) = {} /\ Apart(h)
  <1>1. 1..Len(<<>>) = {}
    OBVIOUS
  <1> QED
    BY <1>1 DEF Frames, Held, Apart

LEMMA KnownKept ==
  ASSUME Known, UNCHANGED <<stack, memo, fine>>
  PROVE  Known'
  BY DEF Known, Apart, KnowsOwn, Inherits, Ok, Held, Frames, Completed, Alive

LEMMA KnownStep ==
  ASSUME Threads, Known, [Next]_vars
  PROVE  Known'
  <1>1. ASSUME NEW h \in Alive, Plain(h) PROVE Known'
    <2>1. Keeps(h) /\ stack[h] # <<>> /\ Top(h).phase # "join"
      BY <1>1, PlainDoes, MovesKeeps DEF Threads, Steps
    <2> QED
      BY <1>1, <2>1, PlainLearns, PlainKnown
  <1>2. CASE Invoke
    <2>1. PICK f : f = FirstFrame
      OBVIOUS
    <2>2. /\ Alive' = {Main} /\ stack'[Main] = <<f>> /\ Frames(Main)' = {f} /\ f.task = None
          /\ memo'[Main] = NoMemo
      BY <1>2, <2>1, InvokeMoves DEF Threads
    <2>3. Held(Main)' = {}
      BY <2>2, ConstantsAssumption DEF Held
    <2>4. Len(<<f>>) = 1 /\ \A i, j \in 1..1 : ~(i < j)
      OBVIOUS
    <2>5. Apart(Main)'
      BY <2>2, <2>4 DEF Apart
    <2>6. Ok(Main)' = {}
      BY <2>2, ConstantsAssumption, ResultKinds DEF Ok, Completed, NoMemo
    <2> QED
      BY <2>2, <2>3, <2>5, <2>6 DEF Known, KnowsOwn
  <1>3. CASE Finish
    BY <1>3, KnownKept DEF Finish, history
  <1>4. ASSUME NEW t \in Task, Edit(t) PROVE Known'
    BY <1>4, KnownKept DEF Edit, threads, history
  <1>5. CASE UNCHANGED vars
    BY <1>5, KnownKept DEF vars, threads, history
  <1> QED
    BY <1>1, <1>2, <1>3, <1>4, <1>5, StepKinds, ForkKnown, JoinKnown DEF Next

LEMMA KnownInit ==
  ASSUME Init
  PROVE  Known
  <1>1. Alive = {Main} /\ stack[Main] = <<>> /\ memo[Main] = NoMemo
    BY DEF Init, JustMain, Alive
  <1>2. Ok(Main) = {}
    BY <1>1, ConstantsAssumption, ResultKinds DEF Ok, Completed, NoMemo
  <1> QED
    BY <1>1, <1>2, NoFrames DEF Known, KnowsOwn

-----------------------------------------------------------------------------
(* What a list has still to run *)

\* The tasks of s can be run in turn once those in known are.
InTurn(s, known) ==
  \A k \in 1..Len(s) : ToSet(Prereqs[s[k]]) \subseteq known \cup {s[j] : j \in 1..(k - 1)}

InTurnNow(h) == \A f \in Frames(h) : f.phase \in RunPhases => InTurn(f.todo, Ok(h) \cup ({f.task} \ {None}))
ListsInTurn == \A h \in Alive : InTurnNow(h)

LEMMA InTurnMore ==
  ASSUME NEW s, NEW known, NEW more, known \subseteq more, InTurn(s, known)
  PROVE  InTurn(s, more)
  BY DEF InTurn

LEMMA InTurnKept ==
  ASSUME UNCHANGED plan, NEW s, NEW known
  PROVE  InTurn(s, known) <=> InTurn(s, known)'
  BY DEF InTurn, Prereqs

LEMMA InTurnTail ==
  ASSUME NEW s \in Seq(Task), s # <<>>, NEW known, InTurn(s, known)
  PROVE  InTurn(Tail(s), known \cup {Head(s)}) /\ ToSet(Prereqs[Head(s)]) \subseteq known
  <1> DEFINE n == Len(s)
             r == Tail(s)
  <1>1. /\ Head(s) = s[1] /\ r \in Seq(Task) /\ Len(r) = n - 1
        /\ \A i \in 1..(n - 1) : r[i] = s[i + 1]
    BY HeadTailProperties
  <1>2. n \in Nat \ {0}
    BY LenProperties, EmptySeq
  <1> HIDE DEF n, r
  <1>3. \A k \in 1..n : ToSet(Prereqs[s[k]]) \subseteq known \cup {s[j] : j \in 1..(k - 1)}
    BY DEF InTurn, n
  <1>4. ASSUME NEW k \in 1..(n - 1), NEW u \in ToSet(Prereqs[r[k]])
        PROVE  u \in known \cup {Head(s)} \cup {r[j] : j \in 1..(k - 1)}
    <2>1. k + 1 \in 1..n /\ (k + 1) - 1 = k /\ r[k] = s[k + 1]
      BY <1>1, <1>2
    <2>2. u \in known \cup {s[j] : j \in 1..k}
      BY <1>3, <1>4, <2>1
    <2>3. ASSUME NEW j \in 1..k, u = s[j] PROVE u \in {Head(s)} \cup {r[i] : i \in 1..(k - 1)}
      <3>1. CASE j = 1
        BY <1>1, <2>3, <3>1
      <3>2. CASE j # 1
        <4>1. j - 1 \in 1..(k - 1) /\ j - 1 \in 1..(n - 1) /\ (j - 1) + 1 = j
          BY <1>2, <3>2
        <4>2. r[j - 1] = s[j]
          BY <1>1, <4>1
        <4> QED
          BY <2>3, <4>1, <4>2
      <3> QED
        BY <3>1, <3>2
    <2> QED
      BY <2>2, <2>3
  <1>5. ToSet(Prereqs[s[1]]) \subseteq known
    <2>1. 1 \in 1..n /\ {s[j] : j \in 1..(1 - 1)} = {}
      BY <1>2
    <2> QED
      BY <1>3, <2>1
  <1> QED
    BY <1>1, <1>4, <1>5 DEF InTurn, r

\* The list that a task is given, and the list of an invocation.
LEMMA ListInTurn ==
  ASSUME plan \in Plans, Ordered(plan), NEW t \in Task
  PROVE  InTurn(Append(Prereqs[t], t), {})
  <1> DEFINE p == Prereqs[t]
             n == Len(p)
             s == Append(p, t)
  <1>1. Prereqs \in [Task -> Seq(Task)] /\ p \in Seq(Task)
    BY PlanTypes
  <1>2. n \in Nat /\ DOMAIN p = 1..n /\ p \in Range(Prereqs)
    BY <1>1, LenProperties DEF Range
  <1>3. Len(s) = n + 1 /\ s[n + 1] = t /\ \A i \in 1..n : s[i] = p[i]
    BY <1>1, AppendProperties
  <1>4. \A i \in 1..n : ToSet(Prereqs[p[i]]) \subseteq {p[j] : j \in 1..(i - 1)}
    BY <1>2 DEF Ordered, Prereqs
  <1>5. ToSet(p) = {p[j] : j \in 1..n}
    BY <1>2 DEF ToSet
  <1> HIDE DEF s, n
  <1>6. ASSUME NEW k \in 1..(n + 1) PROVE ToSet(Prereqs[s[k]]) \subseteq {s[j] : j \in 1..(k - 1)}
    <2>1. CASE k = n + 1
      <3>1. k - 1 = n /\ s[k] = t
        BY <1>2, <1>3, <2>1
      <3>2. {p[j] : j \in 1..n} = {s[j] : j \in 1..n}
        BY <1>3
      <3> QED
        BY <1>5, <3>1, <3>2
    <2>2. CASE k # n + 1
      <3>1. k \in 1..n /\ s[k] = p[k] /\ \A j \in 1..(k - 1) : j \in 1..n
        BY <1>2, <1>3, <2>2
      <3>2. \A j \in 1..(k - 1) : s[j] = p[j]
        BY <1>3, <3>1
      <3>3. {p[j] : j \in 1..(k - 1)} = {s[j] : j \in 1..(k - 1)}
        BY <3>2
      <3> QED
        BY <1>4, <3>1, <3>3
    <2> QED
      BY <2>1, <2>2
  <1> QED
    BY <1>3, <1>6 DEF InTurn, s

LEMMA PlanInTurn ==
  ASSUME plan \in Plans, Ordered(plan)
  PROVE  InTurn(Among(Order, ToSet(Append(Prereqs[plan.root], plan.root))), {})
  <1> DEFINE S == ToSet(Append(Prereqs[plan.root], plan.root))
             Leads == [t \in Task |-> ToSet(Prereqs[t])]
             r == Among(Order, S)
  <1>1. Prereqs \in [Task -> Seq(Task)] /\ Order \in Seq(Task) /\ plan.root \in Task
    BY PlanTypes
  <1>2. S = ToSet(Prereqs[plan.root]) \cup {plan.root} /\ S \subseteq Task
    BY <1>1, AppendMembers, Members
  <1>3. \A t \in S : Leads[t] \subseteq S
    <2> SUFFICES ASSUME NEW t \in ToSet(Prereqs[plan.root]) PROVE ToSet(Prereqs[t]) \subseteq ToSet(Prereqs[plan.root])
      BY <1>2
    <2> DEFINE q == Prereqs[plan.root]
    <2>1. q \in Range(Prereqs) /\ q \in Seq(Task) /\ DOMAIN q = 1..Len(q) /\ Len(q) \in Nat
      BY <1>1, LenProperties DEF Range
    <2>2. PICK i \in DOMAIN q : t = q[i]
      BY DEF ToSet
    <2>3. ToSet(Prereqs[t]) \subseteq {q[j] : j \in 1..(i - 1)}
      BY <2>1, <2>2 DEF Ordered, Prereqs
    <2>4. \A j \in 1..(i - 1) : j \in DOMAIN q
      BY <2>1
    <2> QED
      BY <2>3, <2>4 DEF ToSet
  <1>4. \A i \in 1..Len(Order) : Leads[Order[i]] \subseteq {Order[j] : j \in 1..(i - 1)}
    <2>1. \A i \in 1..Len(Order) : Order[i] \in Task /\ i \in DOMAIN Order
      BY <1>1, ElementOfSeq, LenProperties
    <2> QED
      BY <2>1 DEF Ordered, Order, Prereqs
  <1>5. r \in Seq(Task)
    BY <1>1, AmongMembers
  <1>6. \A i \in 1..Len(r) : Leads[r[i]] \subseteq {r[j] : j \in 1..(i - 1)}
    <2> HIDE DEF Leads, S
    <2> QED
      BY <1>1, <1>3, <1>4, AmongFollows
  <1>7. \A i \in 1..Len(r) : r[i] \in Task
    BY <1>5, ElementOfSeq
  <1> HIDE DEF r
  <1> QED
    BY <1>6, <1>7 DEF InTurn, r

\* The lists of h after a step, as the plan is before it.
InTurnAfter(h) ==
  \A f \in Frames(h)' : f.phase \in RunPhases => InTurn(f.todo, Ok(h)' \cup ({f.task} \ {None}))

LEMMA OkGrows ==
  ASSUME NEW h \in Alive, \A t \in Task : Completed(h, t) # None => Completed(h, t)' = Completed(h, t)
  PROVE  Ok(h) \subseteq Ok(h)'
  BY ConstantsAssumption, ResultKinds DEF Ok

LEMMA OuterInTurn ==
  ASSUME NEW h \in Alive, InTurnNow(h), Ok(h) \subseteq Ok(h)'
  PROVE  \A f \in Frames(h) : f.phase \in RunPhases => InTurn(f.todo, Ok(h)' \cup ({f.task} \ {None}))
  <1> SUFFICES ASSUME NEW f \in Frames(h), f.phase \in RunPhases
               PROVE  InTurn(f.todo, Ok(h)' \cup ({f.task} \ {None}))
    OBVIOUS
  <1>1. InTurn(f.todo, Ok(h) \cup ({f.task} \ {None}))
    BY DEF InTurnNow
  <1>2. Ok(h) \cup ({f.task} \ {None}) \subseteq Ok(h)' \cup ({f.task} \ {None})
    OBVIOUS
  <1> QED
    BY <1>1, <1>2, InTurnMore

\* The innermost frame goes on with its list and its task.
LEMMA SameListInTurn ==
  ASSUME Threads, NEW h \in Alive, stack[h] # <<>>, InTurnNow(h), Ok(h) \subseteq Ok(h)',
         NEW f, Goes(h, f), f.todo = Top(h).todo, Top(h).phase \in RunPhases,
         f.task = Top(h).task \/ Top(h).task \in Ok(h)'
  PROVE  InTurnAfter(h)
  <1>1. Frames(h)' = Outer(h) \cup {f} /\ Frames(h) = Outer(h) \cup {Top(h)}
    BY TopFacts, StackFacts DEF Goes, Threads
  <1>2. InTurn(Top(h).todo, Ok(h)' \cup ({Top(h).task} \ {None}))
    BY <1>1, OuterInTurn
  <1>3. Ok(h)' \cup ({Top(h).task} \ {None}) \subseteq Ok(h)' \cup ({f.task} \ {None})
    OBVIOUS
  <1>4. InTurn(f.todo, Ok(h)' \cup ({f.task} \ {None}))
    BY <1>2, <1>3, InTurnMore
  <1> QED
    BY <1>1, <1>4, OuterInTurn DEF InTurnAfter

\* It goes on to the rest of its list.
LEMMA RestInTurn ==
  ASSUME Threads, NEW h \in Alive, stack[h] # <<>>, InTurnNow(h), Ok(h) \subseteq Ok(h)',
         NEW f, Goes(h, f), Top(h).phase = "next", Top(h).task = None, Top(h).todo # <<>>,
         f.todo = Tail(Top(h).todo), Head(Top(h).todo) \in Ok(h)' \cup ({f.task} \ {None})
  PROVE  InTurnAfter(h)
  <1>1. Frames(h)' = Outer(h) \cup {f} /\ Frames(h) = Outer(h) \cup {Top(h)} /\ Top(h).todo \in Seq(Task)
    BY TopFacts, StackFacts DEF Goes, Threads
  <1>2. InTurn(Top(h).todo, Ok(h)')
    <2>1. Ok(h)' \cup ({Top(h).task} \ {None}) = Ok(h)' /\ Top(h).phase \in RunPhases
      BY DEF RunPhases
    <2>2. InTurn(Top(h).todo, Ok(h)' \cup ({Top(h).task} \ {None}))
      BY <1>1, <2>1, OuterInTurn
    <2> QED
      BY <2>1, <2>2
  <1>3. InTurn(f.todo, Ok(h)' \cup {Head(Top(h).todo)})
    BY <1>1, <1>2, InTurnTail
  <1>4. Ok(h)' \cup {Head(Top(h).todo)} \subseteq Ok(h)' \cup ({f.task} \ {None})
    OBVIOUS
  <1>5. InTurn(f.todo, Ok(h)' \cup ({f.task} \ {None}))
    BY <1>3, <1>4, InTurnMore
  <1> QED
    BY <1>1, <1>5, OuterInTurn DEF InTurnAfter

\* It leaves its list alone, or has none, and may call a frame whose list is in turn.
LEMMA CallInTurn ==
  ASSUME Threads, NEW h \in Alive, stack[h] # <<>>, InTurnNow(h), Ok(h) \subseteq Ok(h)',
         NEW f, f = Top(h) \/ f.phase \notin RunPhases,
         \/ Goes(h, f)
         \/ \E r : Pops(h, r)
         \/ \E g : Pushes(h, f, g) /\ (g.phase \in RunPhases => InTurn(g.todo, {}))
  PROVE  InTurnAfter(h)
  <1>1. Frames(h) = Outer(h) \cup {Top(h)}
    BY TopFacts, StackFacts DEF Threads
  <1>2. CASE Goes(h, f) \/ \E r : Pops(h, r)
    BY <1>1, <1>2, OuterInTurn DEF Goes, Pops, InTurnAfter
  <1>3. CASE \E g : Pushes(h, f, g) /\ (g.phase \in RunPhases => InTurn(g.todo, {}))
    <2>1. PICK g : Pushes(h, f, g) /\ (g.phase \in RunPhases => InTurn(g.todo, {}))
      BY <1>3
    <2>2. Frames(h)' = Outer(h) \cup {f, g}
      BY <2>1 DEF Pushes
    <2>3. g.phase \in RunPhases => InTurn(g.todo, Ok(h)' \cup ({g.task} \ {None}))
      BY <2>1, InTurnMore
    <2> QED
      BY <1>1, <2>2, <2>3, OuterInTurn DEF InTurnAfter
  <1> QED
    BY <1>2, <1>3

LEMMA WorkInTurn ==
  ASSUME Threads, NEW h \in Alive, InTurnNow(h), Ok(h) \subseteq Ok(h)', Work(h)
  PROVE  InTurnAfter(h)
  <1>1. TypeOK /\ Shape
    BY DEF Threads
  <1>2. "body" \in RunPhases /\ "post" \in RunPhases /\ "next" \in RunPhases /\ "deps" \notin RunPhases
    BY DEF RunPhases
  <1>3. ASSUME NEW t \in Task, StartBody(h, t) PROVE InTurnAfter(h)
    <2>1. PICK f : /\ Goes(h, f) /\ f.todo = Tail(Top(h).todo) /\ f.task = t
      BY <1>1, <1>3, StartBodyGoes
    <2>2. stack[h] # <<>> /\ Top(h).phase = "next" /\ Top(h).todo # <<>> /\ Head(Top(h).todo) = t
      BY <1>1, <1>3, TakesFacts DEF StartBody, Decides
    <2>3. Top(h).task = None
      BY <1>1, <2>2, TopFacts DEF Shaped
    <2> QED
      BY <2>1, <2>2, <2>3, RestInTurn, ConstantsAssumption
  <1>4. CASE BodyCommand(h) \/ BodyGroupReturns(h) \/ EndOfBody(h)
    <2>1. /\ stack[h] # <<>> /\ Top(h).phase = "body"
          /\ \E f : Goes(h, f) /\ f.todo = Top(h).todo /\ f.task = Top(h).task
      BY <1>1, <1>4, BodyCommandGoes, BodyGroupReturnsGoes, EndOfBodyGoes
    <2> QED
      BY <1>2, <2>1, SameListInTurn
  <1>5. CASE BodyGroup(h) \/ PostGroup(h)
    <2>1. stack[h] # <<>> /\ \E g : Pushes(h, Top(h), g) /\ g.phase = "deps"
      BY <1>1, <1>5, BodyGroupPushes, PostGroupPushes
    <2> QED
      BY <1>2, <2>1, CallInTurn
  <1>6. CASE PostCommand(h) \/ PostGroupReturns(h)
    <2>1. stack[h] # <<>> /\ Top(h).phase = "post" /\ \E r : Tore(h, r)
      BY <1>1, <1>6, PostCommandMoves, PostGroupReturnsMoves
    <2>2. \/ \E r : Pops(h, r)
          \/ \E f : Goes(h, f) /\ f.todo = Top(h).todo /\ f.task = Top(h).task
      BY <2>1 DEF Tore
    <2> QED
      BY <1>2, <2>1, <2>2, SameListInTurn, CallInTurn
  <1>7. CASE EndWithError(h) \/ EndWithFailure(h) \/ RecordFails(h)
    <2>1. stack[h] # <<>> /\ \E r : Pops(h, r)
      BY <1>1, <1>7, EndsQuit, EndWithFailureQuits, RecordFailsQuits DEF Quits
    <2> QED
      BY <2>1, CallInTurn
  <1>8. CASE EndWithSuccess(h)
    <2>1. PICK f : stack[h] # <<>> /\ Top(h).phase = "post" /\ Goes(h, f) /\ f.todo = Top(h).todo
      BY <1>1, <1>8, EndWithSuccessGoes
    <2>2. Top(h).task \in Task /\ Complete(h, Top(h).task, "ok")
      BY <1>1, <1>8, <2>1, WorkFacts DEF EndWithSuccess
    <2>3. Top(h).task \in Ok(h)'
      BY <1>1, <2>2, CompleteDoes, ResultKinds DEF Ok
    <2> QED
      BY <1>2, <2>1, <2>3, SameListInTurn
  <1> QED
    BY <1>3, <1>4, <1>5, <1>6, <1>7, <1>8 DEF Work

LEMMA TakeInTurn ==
  ASSUME Threads, NEW h \in Alive, InTurnNow(h), Ok(h) \subseteq Ok(h)',
         NEW t \in Task, TakeStep(h, t)
  PROVE  InTurnAfter(h)
  <1>1. TypeOK /\ Shape
    BY DEF Threads
  <1>2. ASSUME StartBody(h, t) PROVE InTurnAfter(h)
    BY <1>2, WorkInTurn DEF Work
  <1>3. CASE SkipFresh(h, t)
    <2>1. /\ stack[h] # <<>> /\ Top(h).phase = "next" /\ Top(h).todo # <<>> /\ Head(Top(h).todo) = t
          /\ Ready(h, "next") /\ Complete(h, t, "ok") /\ Continue(h, Passed(Top(h)))
      BY <1>1, <1>3, TakesFacts DEF SkipFresh, Decides, Takes, Passed
    <2>2. Top(h).task = None /\ Top(h) \in Frame
      BY <1>1, <2>1, TopFacts DEF Shaped
    <2>3. Goes(h, Passed(Top(h))) /\ Passed(Top(h)).todo = Tail(Top(h).todo)
      BY <1>1, <2>1, <2>2, SkipGoes, PassedTypes
    <2>4. t \in Ok(h)'
      BY <1>1, <2>1, CompleteDoes, ResultKinds DEF Ok
    <2> QED
      BY <2>1, <2>2, <2>3, <2>4, RestInTurn
  <1>4. CASE ReferenceCycle(h, t) \/ ReturnCompleted(h, t) \/ DecideFails(h, t)
    <2>1. stack[h] # <<>> /\ \E r \in Result : Return(h, r)
      BY <1>1, <1>4, TakesFacts
      DEF ReferenceCycle, ReturnCompleted, DecideFails, Decides, Result, Code, Err
    <2>2. \E r : Pops(h, r)
      BY <1>1, <2>1, LeavePops
    <2> QED
      BY <2>1, <2>2, CallInTurn
  <1> QED
    BY <1>2, <1>3, <1>4 DEF TakeStep

LEMMA GroupInTurn ==
  ASSUME Threads, Ordered(plan), NEW h \in Alive, InTurnNow(h), Ok(h) \subseteq Ok(h)',
         \/ GroupPrerequisite(h) \/ GroupPrerequisiteReturns(h) \/ StartGroup(h)
         \/ SerialTask(h) \/ SerialTaskReturns(h) \/ EndSerial(h) \/ EndFork(h)
  PROVE  InTurnAfter(h)
  <1>1. TypeOK /\ Shape /\ plan \in Plans
    BY DEF Threads, TypeOK
  <1>2. "deps" \notin RunPhases /\ "serial" \notin RunPhases /\ "fork" \notin RunPhases
    BY DEF RunPhases
  <1>3. CASE GroupPrerequisite(h) \/ SerialTask(h)
    <2>1. stack[h] # <<>> /\ Top(h).phase \in {"deps", "serial"} /\ Top(h).todo # <<>> /\ Head(Top(h).todo) \in Task
      BY <1>1, <1>3, GroupPrerequisiteMoves, SerialTaskMoves
    <2>2. Top(h) \in Frame /\ Passed(Top(h)).phase \notin RunPhases
      BY <1>1, <1>2, <2>1, TopFacts, PassedTypes
    <2>3. \/ Goes(h, Passed(Top(h)))
          \/ \E f : Goes(h, f) /\ f.phase = "serial"
          \/ \E g : Pushes(h, Passed(Top(h)), g) /\ g.todo = Append(Prereqs[Head(Top(h).todo)], Head(Top(h).todo))
      BY <1>1, <1>3, GroupPrerequisiteMoves, SerialTaskMoves
    <2>4. InTurn(Append(Prereqs[Head(Top(h).todo)], Head(Top(h).todo)), {})
      BY <1>1, <2>1, ListInTurn
    <2> QED
      BY <1>2, <2>1, <2>2, <2>3, <2>4, CallInTurn
  <1>4. CASE GroupPrerequisiteReturns(h) \/ SerialTaskReturns(h)
    <2>1. /\ stack[h] # <<>>
          /\ \/ \E r : Pops(h, r)
             \/ \E f : Goes(h, f) /\ (f = Top(h) \/ f.phase = "serial")
      BY <1>1, <1>4, GroupPrerequisiteReturnsMoves, SerialTaskReturnsMoves
    <2> QED
      BY <1>2, <2>1, CallInTurn
  <1>5. CASE StartGroup(h)
    <2>1. stack[h] # <<>> /\ \E f : Goes(h, f) /\ f.phase \in {"fork", "serial"}
      BY <1>1, <1>5, StartGroupGoes
    <2> QED
      BY <1>2, <2>1, CallInTurn
  <1>6. CASE EndSerial(h) \/ EndFork(h)
    <2>1. stack[h] # <<>> /\ \E r : Pops(h, r)
      BY <1>1, <1>6, EndsQuit DEF Quits
    <2> QED
      BY <2>1, CallInTurn
  <1> QED
    BY <1>3, <1>4, <1>5, <1>6

LEMMA PlainInTurn ==
  ASSUME Threads, Ordered(plan), NEW h \in Alive, InTurnNow(h), Ok(h) \subseteq Ok(h)', Plain(h)
  PROVE  InTurnAfter(h)
  <1>1. TypeOK /\ Shape
    BY DEF Threads
  <1>2. CASE EndOfList(h)
    BY <1>1, <1>2, EndsQuit, CallInTurn DEF Quits
  <1>3. CASE SkipCompleted(h)
    <2>1. /\ stack[h] # <<>> /\ Top(h).phase = "next" /\ Top(h).todo # <<>>
          /\ Completed(h, Head(Top(h).todo)) = "ok" /\ Goes(h, Passed(Top(h)))
      BY <1>1, <1>3, SkipCompletedGoes
    <2>2. Top(h).task = None /\ Top(h) \in Frame
      BY <1>1, <2>1, TopFacts DEF Shaped
    <2>3. Passed(Top(h)).todo = Tail(Top(h).todo) /\ Head(Top(h).todo) \in Task
      BY <2>1, <2>2, PassedTypes
    <2>4. Head(Top(h).todo) \in Ok(h)'
      BY <2>1, <2>3 DEF Ok
    <2> QED
      BY <2>1, <2>2, <2>3, <2>4, RestInTurn
  <1>4. ASSUME NEW t \in Task, TakeStep(h, t) PROVE InTurnAfter(h)
    BY <1>4, TakeInTurn
  <1>5. CASE Work(h)
    BY <1>5, WorkInTurn
  <1> QED
    BY <1>2, <1>3, <1>4, <1>5, GroupInTurn DEF Plain, TaskStep, Work

LEMMA PlainLists ==
  ASSUME Threads, Known, Ordered(plan), ListsInTurn, NEW h \in Alive, Plain(h)
  PROVE  ListsInTurn'
  <1>1. Keeps(h) /\ UNCHANGED plan
    BY PlainDoes, MovesKeeps DEF Threads, Steps, Changes
  <1>2. Learns(h)
    BY PlainLearns
  <1>3. Ok(h) \subseteq Ok(h)'
    BY <1>2, OkGrows DEF Learns
  <1>4. InTurnAfter(h)
    BY <1>3, PlainInTurn DEF ListsInTurn
  <1>5. InTurnNow(h)'
    BY <1>1, <1>4, InTurnKept DEF InTurnNow, InTurnAfter
  <1>6. ASSUME NEW g \in Alive, g # h PROVE InTurnNow(g)'
    <2>1. Frames(g)' = Frames(g) /\ Ok(g)' = Ok(g)
      BY <1>1, <1>2, <1>6 DEF Keeps, Learns, Ok, Completed
    <2> QED
      BY <1>1, <1>6, <2>1, InTurnKept DEF InTurnNow, ListsInTurn
  <1> QED
    BY <1>1, <1>5, <1>6 DEF ListsInTurn, Keeps

LEMMA ForkLists ==
  ASSUME Threads, Ordered(plan), ListsInTurn, NEW h \in Alive, Fork(h)
  PROVE  ListsInTurn'
  <1>1. /\ TypeOK /\ Shape /\ Tree /\ ForkMoves(h) /\ UNCHANGED plan /\ plan \in Plans
        /\ Joining(h).phase = "join" /\ stack[h] # <<>> /\ Ready(h, "fork")
    BY ForkDoes, ForkRest, ForkFrame DEF Threads, TypeOK
  <1>2. Alive' = Alive \cup Forked(h) /\ "join" \notin RunPhases
    BY <1>1 DEF ForkMoves, RunPhases
  <1>3. \A g \in Alive : \A f \in Frames(g)' : f.phase \in RunPhases => f \in Frames(g)
    <2>1. Frames(h)' = Outer(h) \cup {Joining(h)} /\ Frames(h) = Outer(h) \cup {Top(h)}
      BY <1>1, TopFacts, StackFacts DEF ForkMoves
    <2>2. \A g \in Alive \ {h} : Frames(g)' = Frames(g)
      BY <1>1 DEF ForkMoves
    <2> QED
      BY <1>1, <1>2, <2>1, <2>2
  <1>4. \A g \in Alive : Ok(g)' = Ok(g)
    BY <1>1 DEF ForkMoves, Ok, Completed
  <1>5. ASSUME NEW g \in Alive PROVE InTurnNow(g)'
    BY <1>1, <1>3, <1>4, InTurnKept DEF InTurnNow, ListsInTurn
  <1>6. ASSUME NEW w \in Forked(h) PROVE InTurnNow(w)'
    <2>1. PICK f : f = TaskFrame(Top(h).order, Last(w))
      OBVIOUS
    <2>2. Frames(w)' = {f} /\ f.todo = Append(Prereqs[Last(w)], Last(w)) /\ Last(w) \in Task
      BY <1>1, <2>1, ForkedFrame, ForkedFacts DEF ForkMoves
    <2>3. InTurn(f.todo, Ok(w)' \cup ({f.task} \ {None}))
      BY <1>1, <2>2, ListInTurn, InTurnMore
    <2> QED
      BY <1>1, <2>2, <2>3, InTurnKept DEF InTurnNow
  <1> QED
    BY <1>2, <1>5, <1>6 DEF ListsInTurn

LEMMA JoinLists ==
  ASSUME Threads, Known, ListsInTurn, NEW h \in Alive, Join(h)
  PROVE  ListsInTurn'
  <1>1. /\ TypeOK /\ Shape /\ Tree /\ JoinMoves(h) /\ UNCHANGED plan
        /\ Joined(h).phase = "fork" /\ stack[h] # <<>>
        /\ \A t \in Task : Completed(h, t) # None => Completed(h, t)' = Completed(h, t)
    <2>1. h \notin Workers(h)
      BY JoinDoes DEF JoinMoves, Threads
    <2> QED
      BY <2>1, JoinLearns, JoinFrame, JoinRest DEF Threads
  <1>2. Ok(h) \subseteq Ok(h)' /\ "fork" \notin RunPhases
    BY <1>1, OkGrows DEF RunPhases
  <1>3. InTurnAfter(h)
    <2>1. Frames(h)' = Outer(h) \cup {Joined(h)} /\ Frames(h) = Outer(h) \cup {Top(h)}
      BY <1>1, TopFacts, StackFacts DEF JoinMoves
    <2> QED
      BY <1>1, <1>2, <2>1, OuterInTurn DEF InTurnAfter, ListsInTurn
  <1>4. InTurnNow(h)'
    BY <1>1, <1>3, InTurnKept DEF InTurnNow, InTurnAfter
  <1>5. ASSUME NEW g \in Alive', g # h PROVE InTurnNow(g)'
    <2>1. g \in Alive /\ Frames(g)' = Frames(g) /\ Ok(g)' = Ok(g)
      BY <1>1, <1>5 DEF JoinMoves, Ok, Completed
    <2> QED
      BY <1>1, <2>1, InTurnKept DEF InTurnNow, ListsInTurn
  <1> QED
    BY <1>4, <1>5 DEF ListsInTurn

LEMMA InvokeLists ==
  ASSUME Threads, Ordered(plan), Invoke
  PROVE  ListsInTurn'
  <1>1. PICK f : f = FirstFrame
    OBVIOUS
  <1>2. /\ Alive' = {Main} /\ Frames(Main)' = {f} /\ UNCHANGED plan /\ plan \in Plans
        /\ f.todo = Among(Order, ToSet(Append(Prereqs[plan.root], plan.root)))
    BY <1>1, InvokeMoves DEF Threads, TypeOK
  <1>3. InTurn(f.todo, Ok(Main)' \cup ({f.task} \ {None}))
    BY <1>2, PlanInTurn, InTurnMore
  <1> QED
    BY <1>2, <1>3, InTurnKept DEF ListsInTurn, InTurnNow

LEMMA ListsKept ==
  ASSUME ListsInTurn, UNCHANGED <<plan, stack, memo>>
  PROVE  ListsInTurn'
  BY DEF ListsInTurn, InTurnNow, InTurn, Ok, Completed, Frames, Alive, Prereqs

LEMMA ListsStep ==
  ASSUME Threads, Known, Ordered(plan), ListsInTurn, [Next]_vars
  PROVE  ListsInTurn'
  <1>1. CASE Finish
    BY <1>1, ListsKept DEF Finish, history
  <1>2. ASSUME NEW t \in Task, Edit(t) PROVE ListsInTurn'
    BY <1>2, ListsKept DEF Edit, threads, history
  <1>3. CASE UNCHANGED vars
    BY <1>3, ListsKept DEF vars, threads, history
  <1> QED
    BY <1>1, <1>2, <1>3, StepKinds, PlainLists, ForkLists, JoinLists, InvokeLists DEF Next

LEMMA ListsInit ==
  ASSUME Init
  PROVE  ListsInTurn
  <1>1. Alive = {Main} /\ stack[Main] = <<>>
    BY DEF Init, JustMain, Alive
  <1> QED
    BY <1>1, NoFrames DEF ListsInTurn, InTurnNow

\* If in every plan a task comes after what is listed for it, as in a plan that no hint
\* changes, PrerequisitesFirst holds in every behaviour, whatever the threads and groups.
THEOREM PrerequisitesRunFirst ==
  ASSUME \A p \in Plans : Ordered(p)
  PROVE  Spec => PrerequisitesFirst
  <1> DEFINE I == Threads /\ Known /\ ListsInTurn
  <1>1. Init => I
    BY ThreadsInit, KnownInit, ListsInit
  <1>2. Threads => Ordered(plan)
    BY DEF Threads, TypeOK
  <1>3. I /\ [Next]_vars => I'
    BY <1>2, ThreadsStep, KnownStep, ListsStep
  <1>4. ASSUME I, NEW h \in Alive, NEW t \in Task, StartBody(h, t)
        PROVE  ToSet(Prereqs[t]) \subseteq fine
    <2>1. /\ stack[h] # <<>> /\ Top(h).phase = "next" /\ Top(h).todo # <<>> /\ Head(Top(h).todo) = t
      BY <1>4, TakesFacts DEF StartBody, Decides, Threads
    <2>2. Top(h).task = None /\ Top(h).todo \in Seq(Task) /\ Top(h) \in Frames(h) /\ Top(h).phase \in RunPhases
      BY <1>4, <2>1, TopFacts DEF Shaped, Threads, RunPhases
    <2>3. InTurn(Top(h).todo, Ok(h) \cup ({Top(h).task} \ {None}))
      BY <1>4, <2>2 DEF ListsInTurn, InTurnNow
    <2>4. Ok(h) \cup ({Top(h).task} \ {None}) = Ok(h)
      BY <2>2
    <2>5. ToSet(Prereqs[t]) \subseteq Ok(h)
      BY <2>1, <2>2, <2>3, <2>4, InTurnTail
    <2> QED
      BY <1>4, <2>5 DEF Known
  <1>5. I => \A h \in Alive, t \in Task : StartBody(h, t) => ToSet(Prereqs[t]) \subseteq fine
    BY <1>4
  <1> HIDE DEF I
  <1> QED
    BY <1>1, <1>3, <1>5, PTL DEF Spec, PrerequisitesFirst

-----------------------------------------------------------------------------
(* What planning hands to running *)

\* In a list that has each task after what it depends on, all that a task depends on, at
\* any depth, comes before it.
LEMMA DepsBefore ==
  ASSUME WalkTypes, NEW s \in Seq(Task), InOrder(s), NEW i \in 1..Len(s)
  PROVE  Deps(s[i]) \subseteq {s[j] : j \in 1..(i - 1)}
  <1> DEFINE S == {s[j] : j \in 1..(i - 1)}
  <1>1. DOMAIN s = 1..Len(s) /\ Len(s) \in Nat /\ \A j \in 1..Len(s) : s[j] \in Task
    BY LenProperties, ElementOfSeq
  <1>2. \A j \in 1..(i - 1) : j \in 1..Len(s) /\ 1..(j - 1) \subseteq 1..(i - 1)
    BY <1>1
  <1>3. s[i] \in Task /\ S \in SUBSET Task
    BY <1>1, <1>2
  <1>4. Needs(s[i]) \subseteq S
    BY <1>1 DEF InOrder
  <1>5. \A u \in S : Needs(u) \subseteq S
    <2> SUFFICES ASSUME NEW j \in 1..(i - 1) PROVE Needs(s[j]) \subseteq S
      OBVIOUS
    <2>1. Needs(s[j]) \subseteq {s[k] : k \in 1..(j - 1)}
      BY <1>1, <1>2 DEF InOrder
    <2> QED
      BY <1>2, <2>1
  <1> QED
    BY <1>3, <1>4, <1>5, DepsFacts

\* What a run needs of a plan: its order, and what is listed for its tasks.
MadePlan == [order |-> order, prereqs |-> [t \in Task |-> IF t \in Planned THEN prereqs[t] ELSE <<>>]]

LEMMA PlanIsOrdered ==
  ASSUME PlanInv, phase = "planned", passes = 0
  PROVE  Ordered(MadePlan)
  <1> DEFINE p == MadePlan
  <1>1. /\ WalkTypes /\ InOrder(order) /\ order \in Seq(Task) /\ prereqs \in Lists
        /\ \A t \in Planned : InOrder(prereqs[t]) /\ ToSet(prereqs[t]) = Deps(t)
    <2>1. todo = <<>>
      BY DEF PlanInv, Listed
    <2> QED
      BY <2>1, EmptyMembers DEF PlanInv, Listed, ListedFor, DependenciesFirst, WalkTypes
  <1>2. Planned \subseteq Task /\ \A t \in Planned : Deps(t) \subseteq Planned
    <2>1. Planned = Reach
      BY DEF PlanInv, Outcome, Settled
    <2>2. Planned \in SUBSET Task /\ \A t \in Planned : Needs(t) \subseteq Planned
      BY <1>1, <2>1, ReachFacts
    <2> QED
      BY <1>1, <2>2, DepsFacts
  <1>3. p.order = order /\ p.prereqs = [t \in Task |-> IF t \in Planned THEN prereqs[t] ELSE <<>>]
    BY DEF MadePlan
  <1> HIDE DEF p
  <1>4. \A t \in Planned : ToSet(p.prereqs[t]) = Deps(t)
    BY <1>1, <1>2, <1>3
  <1>5. ASSUME NEW s \in Seq(Task), InOrder(s), ToSet(s) \subseteq Planned, NEW i \in DOMAIN s
        PROVE  ToSet(p.prereqs[s[i]]) \subseteq {s[j] : j \in 1..(i - 1)}
    <2>1. DOMAIN s = 1..Len(s) /\ s[i] \in ToSet(s)
      BY <1>5, LenProperties DEF ToSet
    <2>2. Deps(s[i]) \subseteq {s[j] : j \in 1..(i - 1)}
      BY <1>1, <1>5, <2>1, DepsBefore
    <2> QED
      BY <1>4, <1>5, <2>1, <2>2
  <1>6. \A i \in DOMAIN order : ToSet(p.prereqs[order[i]]) \subseteq {order[j] : j \in 1..(i - 1)}
    BY <1>1, <1>5 DEF Planned
  <1>7. ASSUME NEW s \in Range(p.prereqs), NEW i \in DOMAIN s
        PROVE  ToSet(p.prereqs[s[i]]) \subseteq {s[j] : j \in 1..(i - 1)}
    <2>1. PICK t \in Task : s = p.prereqs[t]
      BY <1>3, <1>7 DEF Range
    <2>2. CASE t \in Planned
      <3>1. s = prereqs[t] /\ s \in Seq(Task)
        BY <1>1, <1>3, <2>1, <2>2 DEF Lists
      <3>2. InOrder(s) /\ ToSet(s) \subseteq Planned
        BY <1>1, <1>2, <2>2, <3>1
      <3> QED
        BY <1>5, <1>7, <3>1, <3>2
    <2>3. CASE t \notin Planned
      <3>1. s = <<>>
        BY <1>3, <2>1, <2>3
      <3> QED
        BY <1>7, <3>1
    <2> QED
      BY <2>2, <2>3
  <1>8. Ordered(p) <=> \A s \in {p.order} \cup Range(p.prereqs) : \A i \in DOMAIN s :
                         ToSet(p.prereqs[s[i]]) \subseteq {s[j] : j \in 1..(i - 1)}
    BY DEF Ordered
  <1>9. ASSUME NEW s \in {p.order} \cup Range(p.prereqs), NEW i \in DOMAIN s
        PROVE  ToSet(p.prereqs[s[i]]) \subseteq {s[j] : j \in 1..(i - 1)}
    <2>1. CASE s \in Range(p.prereqs)
      BY <1>7, <1>9, <2>1
    <2>2. CASE s = order
      BY <1>6, <1>9, <2>2
    <2> QED
      BY <1>3, <1>9, <2>1, <2>2
  <1>10. Ordered(p)
    BY <1>8, <1>9
  <1> QED
    BY <1>10 DEF p

\* A plan that no hint moves is as running wants it: it and every list of prerequisites
\* have each task after what is listed for it.
THEOREM PlansAreOrdered == PlanSpec => [](phase = "planned" /\ passes = 0 => Ordered(MadePlan))
  <1>1. PlanInv => (phase = "planned" /\ passes = 0 => Ordered(MadePlan))
    BY PlanIsOrdered
  <1> QED
    BY <1>1, PlanInvariant, PTL

-----------------------------------------------------------------------------
(* What a step of a thread may come to list *)

Names(f) == ToSet(f.todo) \cup ToSet(f.names) \cup ({f.task} \ {None})
Open(h) == {t \in Task : Completed(h, t) = None}

\* The tasks that the steps f is at group.
GroupedNow(f) == Grouped(IF f.phase = "body" THEN Body[f.task] ELSE Post[f.task])

\* h's innermost frame goes on as f, calls g from f, or returns r.
Rolls(h, f) ==
  /\ Goes(h, f) /\ f \in Frame /\ Names(f) \subseteq Names(Top(h))
  /\ Top(h).phase \notin {"fork", "join"} /\ f.phase # "join"
  /\ f.phase = "fork" => f = Forking(h) /\ Independent(Branches(h)) /\ UNCHANGED memo
  /\ Top(h).phase = "post" /\ Top(h).code \in Err
       => f.phase = "post" /\ f.code = Top(h).code /\ f.task = Top(h).task
  /\ ret[h] \in Err => /\ Top(h).phase = "body" /\ f.phase = "post"
                       /\ f.code = ret[h] /\ f.task = Top(h).task
  /\ f.task = Top(h).task \/ Top(h).task \notin Open(h)'

Calls(h, f, g) ==
  /\ Pushes(h, f, g) /\ f \in Frame /\ g \in Frame /\ ret[h] = None
  /\ Names(f) \subseteq Names(Top(h)) /\ f.phase = Top(h).phase
  /\ f.phase \in {"body", "post", "deps", "serial"} /\ g.phase \in {"next", "deps"}
  /\ f.phase \in Working => f = Top(h)
  /\ g.task = None
  /\ \/ f.phase \in Working /\ ToSet(g.names) \subseteq GroupedNow(f) /\ ToSet(g.todo) \subseteq PrereqsOf(g)
     \/ /\ f.phase \notin Working /\ g.names = <<>>
        /\ \E t \in Names(Top(h)) \cap Open(h) : ToSet(g.todo) = ToSet(Prereqs[t]) \cup {t}

Leaves(h, r) ==
  /\ Pops(h, r) /\ Top(h).phase \notin {"body", "join"}
  /\ ret[h] \in Err => r \in Err
  /\ Top(h).phase = "fork" => r = Top(h).code
  /\ Top(h).phase = "post" => \/ r \in Err
                              \/ Top(h).code \notin Err /\ \A t \in Open(h)' : t # Top(h).task

PlainMove(h) == (\E f : Rolls(h, f)) \/ (\E f, g : Calls(h, f, g)) \/ (\E r : Leaves(h, r))

LEMMA RetNone == None \notin Err /\ None \notin Code /\ "ok" \notin Err /\ "failed" \notin Err
  BY ConstantsAssumption DEF Err, Code, Result

LEMMA NoneClosed ==
  ASSUME NEW h
  PROVE  None \notin Open(h)'
  BY ConstantsAssumption DEF Open

LEMMA TailListed ==
  ASSUME NEW f \in Frame, f.todo # <<>>, NEW g, g.todo = Tail(f.todo), g.names = f.names,
         g.task \in {None, f.task, Head(f.todo)}
  PROVE  Names(g) \subseteq Names(f)
  <1>1. ToSet(f.todo) = {Head(f.todo)} \cup ToSet(Tail(f.todo))
    BY HeadTailMembers DEF Frame
  <1> QED
    BY <1>1 DEF Names

LEMMA PlainTakes ==
  ASSUME Threads, NEW h \in Alive, NEW t \in Task, TakeStep(h, t)
  PROVE  PlainMove(h)
  <1>1. TypeOK /\ Shape
    BY DEF Threads
  <1>2. /\ Takes(h, t) /\ stack[h] # <<>> /\ Top(h).phase = "next" /\ ret[h] = None /\ Top(h).todo # <<>>
        /\ Head(Top(h).todo) = t /\ Ready(h, "next") /\ Top(h) \in Frame /\ Top(h).task = None
    BY <1>1, TakesFacts, TopFacts DEF Shaped, TakeStep, ReferenceCycle, ReturnCompleted, SkipFresh, DecideFails, StartBody, Decides, Takes
  <1>3. CASE StartBody(h, t)
    <2> DEFINE f == Started(Top(h), t)
    <2>1. /\ Goes(h, f) /\ f \in Frame /\ f.phase = "body" /\ f.todo = Tail(Top(h).todo) /\ f.task = t
          /\ f.names = Top(h).names
      BY <1>1, <1>3, StartBodyGoes
    <2> HIDE DEF f
    <2>2. Names(f) \subseteq Names(Top(h))
      BY <1>2, <2>1, TailListed
    <2> QED
      BY <1>2, <2>1, <2>2, RetNone, NoneClosed DEF PlainMove, Rolls
  <1>4. CASE SkipFresh(h, t)
    <2> DEFINE f == Passed(Top(h))
    <2>1. Continue(h, f)
      BY <1>4 DEF SkipFresh, Passed
    <2>2. /\ Goes(h, f) /\ f \in Frame /\ f.phase = "next" /\ f.todo = Tail(Top(h).todo)
          /\ f.task = Top(h).task /\ f.names = Top(h).names
      BY <1>1, <1>2, <2>1, SkipGoes, PassedTypes
    <2> HIDE DEF f
    <2>3. Names(f) \subseteq Names(Top(h))
      BY <1>2, <2>2, TailListed
    <2> QED
      BY <1>2, <2>2, <2>3, RetNone DEF PlainMove, Rolls
  <1>5. CASE ReferenceCycle(h, t) \/ ReturnCompleted(h, t) \/ DecideFails(h, t)
    <2>1. \E r \in Result : Return(h, r)
      BY <1>5 DEF ReferenceCycle, ReturnCompleted, DecideFails, Result, Code, Err
    <2>2. \E r : Pops(h, r)
      BY <1>1, <1>2, <2>1, LeavePops
    <2> QED
      BY <1>2, <2>2, RetNone DEF PlainMove, Leaves
  <1> QED
    BY <1>3, <1>4, <1>5 DEF TakeStep

\* Grouped steps list what their steps name.
LEMMA GroupedHas ==
  ASSUME NEW s \in Seq(Step), NEW k \in 1..Len(s)
  PROVE  ToSet(s[k].tasks) \subseteq Grouped(s)
  BY DEF Grouped, ToSet

LEMMA PlainWorks ==
  ASSUME Threads, NEW h \in Alive, Work(h), \A t \in Task : ~StartBody(h, t)
  PROVE  PlainMove(h)
  <1>1. TypeOK /\ Shape
    BY DEF Threads
  <1>2. ASSUME NEW g \in Frame, Goes(h, g), stack[h] # <<>>, Top(h).phase \in Working,
               g.todo = Top(h).todo, g.names = Top(h).names, g.task \in {None, Top(h).task},
               g.phase \in {"body", "post", "next"},
               Top(h).phase = "post" /\ Top(h).code \in Err
                  => g.phase = "post" /\ g.code = Top(h).code /\ g.task = Top(h).task,
               ret[h] \in Err => /\ Top(h).phase = "body" /\ g.phase = "post"
                                 /\ g.code = ret[h] /\ g.task = Top(h).task,
               g.task = Top(h).task \/ Top(h).task \notin Open(h)'
        PROVE  PlainMove(h)
    BY <1>2 DEF PlainMove, Rolls, Names, Working
  <1>3. CASE BodyCommand(h)
    BY <1>1, <1>2, <1>3, BodyCommandGoes, RetNone DEF Working
  <1>4. CASE BodyGroupReturns(h)
    BY <1>1, <1>2, <1>4, BodyGroupReturnsGoes, RetNone DEF Working
  <1>5. CASE EndOfBody(h)
    <2>1. ret[h] = None
      BY <1>5 DEF EndOfBody, Ready
    <2> QED
      BY <1>1, <1>2, <1>5, <2>1, EndOfBodyGoes, RetNone DEF Working
  <1>6. CASE EndWithSuccess(h)
    <2>1. Top(h).code = "ok" /\ Complete(h, Top(h).task, "ok")
      BY <1>6 DEF EndWithSuccess
    <2>2. stack[h] # <<>> /\ Top(h).phase = "post"
      BY <1>1, <1>6, EndWithSuccessGoes
    <2>3. Top(h).task \notin Open(h)'
      BY <1>1, <2>1, <2>2, WorkerTask, CompleteDoes, ResultKinds, RetNone DEF Open
    <2> QED
      BY <1>1, <1>2, <1>6, <2>1, <2>3, EndWithSuccessGoes, RetNone DEF Working
  <1>7. ASSUME NEW s, NEW g, Pushes(h, Top(h), g), g \in Frame, g.phase = "deps", g.task = None, ret[h] = None,
               stack[h] # <<>>, Top(h).phase \in Working,
               s \in Seq(Step), s = IF Top(h).phase = "body" THEN Body[Top(h).task] ELSE Post[Top(h).task],
               NEW k \in 1..Len(s), ToSet(g.names) \subseteq ToSet(s[k].tasks), ToSet(g.todo) \subseteq PrereqsOf(g)
        PROVE  PlainMove(h)
    <2>1. ToSet(g.names) \subseteq GroupedNow(Top(h))
      BY <1>7, GroupedHas DEF GroupedNow
    <2>2. Top(h) \in Frame
      BY <1>1, <1>7, TopFacts
    <2>3. Calls(h, Top(h), g)
      BY <1>7, <2>1, <2>2 DEF Calls, Working
    <2> QED
      BY <2>3 DEF PlainMove
  <1>8. CASE BodyGroup(h)
    <2>1. stack[h] # <<>> /\ Top(h).phase = "body" /\ ret[h] = None
      BY <1>1, <1>8, BodyGroupPushes
    <2>2. Body[Top(h).task] \in Seq(Step)
      BY <1>1, <2>1, WorkFacts
    <2>3. PICK s \in Seq(Task), k \in 1..Len(Body[Top(h).task]) : LET g == GroupFrame(Top(h).order, s) IN
              /\ s = Body[Top(h).task][k].tasks
              /\ Pushes(h, Top(h), g) /\ g \in Frame /\ g.phase = "deps" /\ g.task = None
              /\ ToSet(g.names) \subseteq ToSet(s) /\ ToSet(g.todo) \subseteq PrereqsOf(g)
      BY <1>1, <1>8, BodyGroupPushes
    <2> QED
      BY <1>7, <2>1, <2>2, <2>3 DEF Working
  <1>9. CASE PostGroup(h)
    <2>1. stack[h] # <<>> /\ Top(h).phase = "post" /\ ret[h] = None
      BY <1>1, <1>9, PostGroupPushes
    <2>2. Post[Top(h).task] \in Seq(Step)
      BY <1>1, <2>1, WorkFacts
    <2>3. PICK s \in Seq(Task), k \in 1..Len(Post[Top(h).task]) : LET g == GroupFrame(Top(h).order, s) IN
              /\ s = Post[Top(h).task][k].tasks
              /\ Pushes(h, Top(h), g) /\ g \in Frame /\ g.phase = "deps" /\ g.task = None
              /\ ToSet(g.names) \subseteq ToSet(s) /\ ToSet(g.todo) \subseteq PrereqsOf(g)
      BY <1>1, <1>9, PostGroupPushes
    <2> QED
      BY <1>7, <2>1, <2>2, <2>3 DEF Working
  <1>10. CASE PostCommand(h) \/ PostGroupReturns(h)
    <2>1. PICK result \in Result : /\ stack[h] # <<>> /\ Top(h).phase = "post" /\ Tore(h, result)
                                   /\ ret[h] = None \/ ret[h] = result
      BY <1>1, <1>10, PostCommandMoves, PostGroupReturnsMoves
    <2>2. CASE result \in Err /\ \E r \in Err : Pops(h, r)
      BY <2>1, <2>2 DEF PlainMove, Leaves
    <2>3. CASE result \in Code
      <3> DEFINE g == [Top(h) EXCEPT !.at = @ + 1, !.post = FirstFailure(@, result)]
      <3>1. /\ Goes(h, g) /\ g \in Frame /\ g.phase = "post" /\ g.task = Top(h).task
            /\ g.code = Top(h).code /\ g.todo = Top(h).todo /\ g.names = Top(h).names
        BY <2>1, <2>3 DEF Tore, Code, Err
      <3> HIDE DEF g
      <3>2. ret[h] \notin Err
        BY <2>1, <2>3, RetNone DEF Code, Err
      <3> QED
        BY <1>2, <2>1, <3>1, <3>2 DEF Working
    <2> QED
      BY <2>1, <2>2, <2>3 DEF Tore
  <1>11. CASE EndWithError(h) \/ EndWithFailure(h) \/ RecordFails(h)
    <2>1. ret[h] = None
      BY <1>11 DEF EndWithError, EndWithFailure, RecordFails, TeardownDone, Ready
    <2>2. ASSUME NEW t \in Task, Complete(h, t, "failed") PROVE t \notin Open(h)'
      BY <1>1, <2>2, CompleteDoes, ResultKinds, RetNone DEF Open
    <2>3. CASE EndWithFailure(h)
      <3>1. /\ Pops(h, "failed") /\ Top(h).phase = "post" /\ Top(h).task \in Task
            /\ Top(h).code \notin Err /\ Complete(h, Top(h).task, "failed")
        BY <1>1, <2>3, EndWithFailureQuits DEF Quits
      <3>2. Leaves(h, "failed")
        BY <2>1, <2>2, <3>1, RetNone DEF Leaves
      <3> QED
        BY <3>2 DEF PlainMove
    <2>4. ASSUME NEW r \in Err, Quits(h, r), Top(h).phase = "post" PROVE PlainMove(h)
      BY <2>1, <2>4, RetNone DEF Quits, PlainMove, Leaves
    <2>5. CASE EndWithError(h) \/ RecordFails(h)
      <3>1. "error" \in Err
        BY DEF Err
      <3> QED
        BY <1>1, <2>4, <2>5, <3>1, EndsQuit, RecordFailsQuits
    <2> QED
      BY <1>11, <2>3, <2>5
  <1> QED
    BY <1>3, <1>4, <1>5, <1>6, <1>8, <1>9, <1>10, <1>11 DEF Work

LEMMA PlainGroups ==
  ASSUME Threads, NEW h \in Alive,
         \/ GroupPrerequisite(h) \/ GroupPrerequisiteReturns(h) \/ StartGroup(h)
         \/ SerialTask(h) \/ SerialTaskReturns(h) \/ EndSerial(h) \/ EndFork(h)
  PROVE  PlainMove(h)
  <1>1. TypeOK /\ Shape
    BY DEF Threads
  <1>2. CASE GroupPrerequisite(h) \/ SerialTask(h)
    <2> DEFINE t == Head(Top(h).todo)
    <2>1. /\ stack[h] # <<>> /\ Top(h).phase \in {"deps", "serial"} /\ ret[h] = None
          /\ Top(h).todo # <<>> /\ t \in Task
      BY <1>1, <1>2, GroupPrerequisiteMoves, SerialTaskMoves
    <2>2. /\ Passed(Top(h)).todo = Tail(Top(h).todo) /\ Passed(Top(h)).names = Top(h).names
          /\ Passed(Top(h)).task = Top(h).task /\ Passed(Top(h)).phase = Top(h).phase
          /\ Passed(Top(h)) \in Frame /\ Top(h) \in Frame
      BY <1>1, <2>1, TopFacts, PassedTypes
    <2>3. \/ \E f \in Frame : Goes(h, f) /\ f.todo = Tail(Top(h).todo) /\ f.names = Top(h).names
                              /\ f.task = Top(h).task /\ f.phase = Top(h).phase
          \/ \E g \in Frame : Completed(h, t) = None /\ Pushes(h, Passed(Top(h)), g) /\ g.phase = "next"
                              /\ g.task = None /\ g.names = <<>> /\ g.todo = Append(Prereqs[t], t)
      BY <1>1, <1>2, <2>2, GroupPrerequisiteMoves, SerialTaskMoves
    <2>4. CASE \E f \in Frame : Goes(h, f) /\ f.todo = Tail(Top(h).todo) /\ f.names = Top(h).names
                                /\ f.task = Top(h).task /\ f.phase = Top(h).phase
      BY <2>1, <2>2, <2>4, TailListed, RetNone DEF PlainMove, Rolls
    <2>5. ASSUME NEW g \in Frame, Completed(h, t) = None, Pushes(h, Passed(Top(h)), g), g.phase = "next",
                 g.task = None, g.names = <<>>, g.todo = Append(Prereqs[t], t)
          PROVE  PlainMove(h)
      <3>1. Names(Passed(Top(h))) \subseteq Names(Top(h))
        BY <2>1, <2>2, TailListed
      <3>2. Prereqs[t] \in Seq(Task)
        BY <1>1, <2>1, PlanTypes DEF TypeOK
      <3>3. ToSet(g.todo) = ToSet(Prereqs[t]) \cup {t}
        BY <2>1, <2>5, <3>2, AppendMembers
      <3>4. t \in Names(Top(h)) \cap Open(h)
        <4>1. t \in ToSet(Top(h).todo)
          BY <2>1, <2>2, HeadTailMembers DEF Frame
        <4> QED
          BY <2>1, <2>5, <4>1 DEF Names, Open
      <3> HIDE DEF t
      <3>5. Calls(h, Passed(Top(h)), g)
        BY <2>1, <2>2, <2>5, <3>1, <3>3, <3>4 DEF Calls, Working
      <3> QED
        BY <3>5 DEF PlainMove
    <2> QED
      BY <2>3, <2>4, <2>5
  <1>3. CASE GroupPrerequisiteReturns(h) \/ SerialTaskReturns(h)
    <2>1. /\ stack[h] # <<>> /\ Top(h).phase \in {"deps", "serial"} /\ Top(h) \in Frame
          /\ \/ ret[h] \in Err /\ Pops(h, ret[h])
             \/ /\ ret[h] \in Code
                /\ \E f \in Frame : Goes(h, f) /\ f.todo = Top(h).todo /\ f.names = Top(h).names
                                    /\ f.task = Top(h).task /\ f.phase = Top(h).phase
      BY <1>1, <1>3, TopFacts, GroupPrerequisiteReturnsMoves, SerialTaskReturnsMoves
    <2>2. CASE ret[h] \in Err /\ Pops(h, ret[h])
      BY <2>1, <2>2 DEF PlainMove, Leaves
    <2>3. CASE ret[h] \in Code
      <3>1. PICK f \in Frame : Goes(h, f) /\ f.todo = Top(h).todo /\ f.names = Top(h).names
                                    /\ f.task = Top(h).task /\ f.phase = Top(h).phase
        BY <2>1, <2>3 DEF Code, Err
      <3>2. ret[h] \notin Err
        BY <2>3 DEF Code, Err
      <3>3. Rolls(h, f)
        BY <2>1, <3>1, <3>2 DEF Rolls, Names
      <3> QED
        BY <3>3 DEF PlainMove
    <2> QED
      BY <2>1, <2>2, <2>3
  <1>4. CASE StartGroup(h)
    <2>1. /\ stack[h] # <<>> /\ Top(h).phase = "deps" /\ ret[h] = None /\ Top(h) \in Frame /\ Top(h).todo = <<>>
          /\ UNCHANGED memo
      BY <1>1, <1>4, TopFacts, StartGroupGoes DEF StartGroup, Ready
    <2>2. ASSUME NEW f \in Frame, Goes(h, f), ToSet(f.todo) \subseteq ToSet(Top(h).names),
                 f.names = Top(h).names, f.task = None, f.phase \in {"fork", "serial"},
                 f.phase = "fork" => f = Forking(h) /\ Independent(Branches(h))
          PROVE  PlainMove(h)
      <3>1. Top(h).task = None
        BY <1>1, <2>1, TopFacts DEF Shaped
      <3> QED
        BY <2>1, <2>2, <3>1, RetNone DEF PlainMove, Rolls, Names
    <2>3. ToSet(<<>>) \subseteq ToSet(Top(h).names)
      BY EmptyMembers
    <2> QED
      BY <1>1, <1>4, <2>2, <2>3, StartGroupGoes
  <1>5. CASE EndSerial(h) \/ EndFork(h)
    <2>1. Pops(h, Top(h).code) /\ Top(h).phase \in {"serial", "fork"} /\ ret[h] = None
      BY <1>1, <1>5, EndsQuit DEF Quits, EndSerial, EndFork, Ready
    <2> QED
      BY <2>1, RetNone DEF PlainMove, Leaves
  <1> QED
    BY <1>2, <1>3, <1>4, <1>5

\* Every step of a thread but Fork and Join moves its stack in one of these ways.
LEMMA PlainMoves ==
  ASSUME Threads, NEW h \in Alive, Plain(h)
  PROVE  stack[h] # <<>> /\ Top(h).phase # "join" /\ PlainMove(h)
  <1>1. TypeOK /\ Shape
    BY DEF Threads
  <1>2. stack[h] # <<>> /\ Top(h).phase # "join"
    BY PlainTasks
  <1>3. CASE EndOfList(h)
    <2>1. Pops(h, "ok") /\ Top(h).phase = "next" /\ ret[h] = None
      BY <1>1, <1>3, EndsQuit DEF Quits, EndOfList, Ready
    <2> QED
      BY <1>2, <2>1, RetNone DEF PlainMove, Leaves
  <1>4. CASE SkipCompleted(h)
    <2> DEFINE f == Passed(Top(h))
    <2>1. Goes(h, f) /\ f \in Frame /\ Top(h).phase = "next" /\ ret[h] = None /\ Top(h).todo # <<>> /\ Top(h) \in Frame
      BY <1>1, <1>2, <1>4, SkipCompletedGoes, TopFacts
    <2>2. f.phase = "next" /\ f.todo = Tail(Top(h).todo) /\ f.task = Top(h).task /\ f.names = Top(h).names
      BY <2>1, PassedTypes
    <2> HIDE DEF f
    <2>3. Names(f) \subseteq Names(Top(h))
      BY <2>1, <2>2, TailListed
    <2> QED
      BY <1>2, <2>1, <2>2, <2>3, RetNone DEF PlainMove, Rolls
  <1>5. ASSUME NEW t \in Task, TakeStep(h, t) PROVE PlainMove(h)
    BY <1>5, PlainTakes
  <1>6. ASSUME Work(h), \A t \in Task : ~StartBody(h, t) PROVE PlainMove(h)
    BY <1>6, PlainWorks
  <1> QED
    BY <1>2, <1>3, <1>4, <1>5, <1>6, PlainGroups DEF Plain, TaskStep, Work, TakeStep

-----------------------------------------------------------------------------
(* What tasks lead to *)

Lead(S) == Within(S, Refs)

LEMMA StepMembers ==
  ASSUME NEW s \in Seq(Step), NEW r \in Seq(Step)
  PROVE  /\ ToSet(s \o r) = ToSet(s) \cup ToSet(r) /\ ToSet(s) \subseteq Step
         /\ \A x \in Step : x.tasks \in Seq(Task) /\ (~IsGroup(x) => ToSet(x.tasks) = {})
  <1>1. /\ s \o r \in Seq(Step) /\ Len(s) \in Nat /\ Len(r) \in Nat /\ Len(s \o r) = Len(s) + Len(r)
        /\ \A i \in 1..(Len(s) + Len(r)) : (s \o r)[i] = IF i <= Len(s) THEN s[i] ELSE r[i - Len(s)]
    OBVIOUS
  <1>2. DOMAIN (s \o r) = 1..(Len(s) + Len(r)) /\ DOMAIN s = 1..Len(s) /\ DOMAIN r = 1..Len(r)
    BY <1>1
  <1>3. ASSUME NEW i \in 1..Len(s) PROVE i \in 1..(Len(s) + Len(r)) /\ (s \o r)[i] = s[i]
    BY <1>1, <1>3
  <1>4. ASSUME NEW i \in 1..Len(r)
        PROVE  Len(s) + i \in 1..(Len(s) + Len(r)) /\ (s \o r)[Len(s) + i] = r[i]
    BY <1>1, <1>4
  <1>5. ASSUME NEW i \in 1..(Len(s) + Len(r))
        PROVE  \/ i \in 1..Len(s) /\ (s \o r)[i] = s[i]
               \/ i - Len(s) \in 1..Len(r) /\ (s \o r)[i] = r[i - Len(s)]
    BY <1>1, <1>5
  <1>6. ToSet(s \o r) = ToSet(s) \cup ToSet(r)
    <2> DEFINE m == Len(s)  n == Len(s) + Len(r)
    <2>1. ToSet(s \o r) = {(s \o r)[i] : i \in 1..n} /\ ToSet(s) = {s[i] : i \in 1..m}
          /\ ToSet(r) = {r[i] : i \in 1..Len(r)}
      BY <1>2 DEF ToSet
    <2>2. ToSet(s) \subseteq ToSet(s \o r)
      BY <1>3, <2>1
    <2>3. ToSet(r) \subseteq ToSet(s \o r)
      BY <1>4, <2>1
    <2>4. \A i \in 1..n : (s \o r)[i] \in ToSet(s) \cup ToSet(r)
      BY <1>5, <2>1
    <2> HIDE DEF m, n
    <2> QED
      BY <2>1, <2>2, <2>3, <2>4
  <1>7. ToSet(s) \subseteq Step
    BY <1>2 DEF ToSet
  <1>8. \A x \in Step : x.tasks \in Seq(Task) /\ (~IsGroup(x) => ToSet(x.tasks) = {})
    BY EmptyMembers DEF Step, IsGroup
  <1> QED
    BY <1>6, <1>7, <1>8

LEMMA RefsFacts ==
  ASSUME plan \in Plans, NEW t \in Task
  PROVE  /\ Refs(t) \subseteq Task /\ ToSet(Prereqs[t]) \subseteq Refs(t)
         /\ Grouped(Body[t]) \subseteq Refs(t) /\ Grouped(Post[t]) \subseteq Refs(t)
  <1>1. Prereqs[t] \in Seq(Task) /\ Body[t] \in Seq(Step) /\ Post[t] \in Seq(Step)
    BY PlanTypes
  <1> DEFINE all == ToSet(Body[t]) \cup ToSet(Post[t])
  <1>2. Groups(t) = {s \in all : IsGroup(s)} /\ all \subseteq Step
    BY <1>1, StepMembers DEF Groups
  <1>3. \A s \in all : ToSet(s.tasks) \subseteq Task /\ (s \in Groups(t) \/ ToSet(s.tasks) = {})
    BY <1>1, <1>2, StepMembers, Members
  <1>4. ToSet(Prereqs[t]) \subseteq Task
    BY <1>1, Members
  <1>5. Grouped(Body[t]) \subseteq UNION {ToSet(s.tasks) : s \in all}
    BY DEF Grouped
  <1>6. Grouped(Post[t]) \subseteq UNION {ToSet(s.tasks) : s \in all}
    BY DEF Grouped
  <1>7. UNION {ToSet(s.tasks) : s \in all} \subseteq UNION {ToSet(s.tasks) : s \in Groups(t)}
    BY <1>3
  <1>8. UNION {ToSet(s.tasks) : s \in Groups(t)} \subseteq Task
    BY <1>2, <1>3
  <1> HIDE DEF all
  <1> QED
    BY <1>4, <1>5, <1>6, <1>7, <1>8 DEF Refs

LEMMA LeadFacts ==
  ASSUME plan \in Plans, NEW S, S \subseteq Task
  PROVE  S \subseteq Lead(S) /\ Lead(S) \subseteq Task /\ \A t \in Lead(S) : Refs(t) \subseteq Lead(S)
  <1>1. ASSUME NEW t \in Lead(S), NEW u \in Refs(t) PROVE u \in Lead(S)
    <2>1. t \in Task /\ u \in Task
      BY <1>1, RefsFacts DEF Lead, Within
    <2>2. ASSUME NEW T \in SUBSET Task, S \subseteq T, \A v \in T : Refs(v) \subseteq T PROVE u \in T
      BY <1>1, <2>2 DEF Lead, Within
    <2> QED
      BY <2>1, <2>2 DEF Lead, Within
  <1> QED
    BY <1>1 DEF Lead, Within

LEMMA LeadLeast ==
  ASSUME NEW S, NEW T \in SUBSET Task, S \subseteq T, \A v \in T : Refs(v) \subseteq T
  PROVE  Lead(S) \subseteq T
  BY DEF Lead, Within

LEMMA LeadIn ==
  ASSUME plan \in Plans, NEW S, NEW T, T \subseteq Task, S \subseteq Lead(T)
  PROVE  Lead(S) \subseteq Lead(T)
  BY LeadFacts, LeadLeast

LEMMA LeadSame ==
  ASSUME UNCHANGED plan, NEW S
  PROVE  Lead(S)' = Lead(S)
  <1>1. \A t : Refs(t)' = Refs(t)
    BY DEF Refs, Groups, Prereqs, Body, Post
  <1> QED
    BY <1>1 DEF Lead, Within

LEMMA ReachableFacts ==
  ASSUME plan \in Plans, NEW h, NEW t \in Task
  PROVE  LET R == Reachable(h, t) IN
         /\ R \subseteq Open(h) /\ {t} \cap Open(h) \subseteq R /\ R \subseteq Lead({t})
         /\ \A u \in R : Refs(u) \cap Open(h) \subseteq R
         /\ R # {} => t \in R
         /\ \A Z \in SUBSET Task : {t} \cap Open(h) \subseteq Z /\ (\A u \in Z : Refs(u) \cap Open(h) \subseteq Z)
                                     => R \subseteq Z
  <1> DEFINE R == Reachable(h, t)
  <1>1. R = {u \in Task : \A S \in SUBSET Task :
                {t} \cap Open(h) \subseteq S /\ (\A v \in S : Refs(v) \cap Open(h) \subseteq S) => u \in S}
    BY DEF Reachable, Within, Open
  <1> HIDE DEF R
  <1>2. Open(h) \subseteq Task
    BY DEF Open
  <1>3. \A Z \in SUBSET Task : {t} \cap Open(h) \subseteq Z /\ (\A u \in Z : Refs(u) \cap Open(h) \subseteq Z)
                                     => R \subseteq Z
    BY <1>1
  <1>4. R \subseteq Open(h)
    BY <1>2, <1>3
  <1>5. {t} \cap Open(h) \subseteq R
    BY <1>1, <1>2
  <1>6. R \subseteq Lead({t})
    BY <1>3, LeadFacts
  <1>7. ASSUME NEW u \in R PROVE Refs(u) \cap Open(h) \subseteq R
    BY <1>1, <1>2
  <1>8. ASSUME t \notin R PROVE R = {}
    BY <1>3, <1>5, <1>8
  <1> QED
    BY <1>3, <1>4, <1>5, <1>6, <1>7, <1>8 DEF R

-----------------------------------------------------------------------------
(* The zone of a thread: the tasks that are its to run *)

Zone(h) == IF h = Main THEN Task ELSE Branch(h)

\* A group that forks has divided what it leads to among its tasks, if it is f, has the
\* zone to itself and the tasks of open have not completed.
Divides(f, zone, open) ==
  /\ ~Ordering
  /\ \A k, l \in 1..Len(f.names) : k # l => f.branches[k] \cap f.branches[l] = {}
  /\ \A k \in 1..Len(f.names) :
       /\ f.branches[k] \subseteq zone \cap Lead({f.names[k]})
       /\ {f.names[k]} \cap open \subseteq f.branches[k]
       /\ \A t \in f.branches[k] : Refs(t) \cap open \subseteq f.branches[k]
       /\ k >= f.at => f.branches[k] \subseteq open
       /\ f.branches[k] # {} => f.names[k] \in f.branches[k]

Divided(h) == At(h, "fork") \/ At(h, "join") => Divides(Top(h), Zone(h), Open(h))

\* What a thread has still to run is in its zone.
Inside(h) == \A f \in Frames(h) : Names(f) \cap Open(h) \subseteq Zone(h)

\* What has completed, or is worked on, had its dependencies.
Done(h) == \A t \in Task : Completed(h, t) # None \/ t \in Held(h) => ToSet(Prereqs[t]) \subseteq Ok(h)

\* Every task of a batch that has not completed has its worker.
Manned(h) ==
  At(h, "join") => \A i \in InBatch(Top(h)) :
    Completed(h, Top(h).names[i]) = None => Append(h, Top(h).names[i]) \in Alive

\* Only the innermost frame forks.
OuterWaits(h) == \A f \in Outer(h) : f.phase \in {"body", "post", "deps", "serial"}

Zoned == \A h \in Alive : OuterWaits(h) /\ Divided(h) /\ Inside(h) /\ Manned(h) /\ (~Ordering => Done(h))

\* Tasks of a batch that have not completed are named once.
LEMMA OneBranch ==
  ASSUME NEW f, NEW zone, NEW open, Divides(f, zone, open), InBatch(f) \subseteq 1..Len(f.names),
         NEW i \in InBatch(f), f.names[i] \in open
  PROVE  UNION {f.branches[j] : j \in {k \in InBatch(f) : f.names[k] = f.names[i]}} = f.branches[i]
  <1>1. f.names[i] \in f.branches[i]
    BY DEF Divides
  <1>2. ASSUME NEW j \in InBatch(f), f.names[j] = f.names[i] PROVE j = i
    <2>1. f.names[j] \in f.branches[j]
      BY <1>2 DEF Divides
    <2>2. j # i => f.branches[j] \cap f.branches[i] = {}
      BY <1>2 DEF Divides
    <2> QED
      BY <1>1, <1>2, <2>1, <2>2
  <1>3. {k \in InBatch(f) : f.names[k] = f.names[i]} = {i}
    BY <1>2
  <1> QED
    BY <1>3

LEMMA BranchIs ==
  ASSUME Threads, NEW w \in Alive, w # Main, Divided(Front(w))
  PROVE  LET f == Top(Front(w)) IN
         \E i \in InBatch(f) : /\ i \in 1..Len(f.names) /\ f.names[i] = Last(w) /\ Branch(w) = f.branches[i]
                               /\ Completed(Front(w), Last(w)) = None
  <1> DEFINE f == Top(Front(w))
  <1>1. /\ Front(w) \in Alive /\ stack[Front(w)] # <<>> /\ f.phase = "join" /\ At(Front(w), "join")
        /\ Last(w) \in Task
    BY ParentFacts DEF Threads, At
  <1>2. PICK i \in InBatch(f) : f.names[i] = Last(w) /\ Completed(Front(w), Last(w)) = None
    BY DEF Threads, Tree
  <1>3. f.names \in Seq(Task)
    BY <1>1, TopFacts DEF Threads
  <1>4. InBatch(f) \subseteq 1..Len(f.names)
    BY <1>3 DEF InBatch
  <1>5. Divides(f, Zone(Front(w)), Open(Front(w)))
    BY <1>1 DEF Divided
  <1>6. Last(w) \in Open(Front(w))
    BY <1>1, <1>2 DEF Open
  <1>7. Branch(w) = f.branches[i]
    BY <1>2, <1>4, <1>5, <1>6, OneBranch DEF Branch
  <1> QED
    BY <1>2, <1>4, <1>7

LEMMA OpenShrinks ==
  ASSUME NEW h, NEW g, \A t \in Task : Completed(h, t) # None => Completed(g, t) = Completed(h, t)
  PROVE  Open(g) \subseteq Open(h)
  BY DEF Open

LEMMA ZoneFacts ==
  ASSUME Threads, Known, Zoned, NEW w \in Alive, w # Main
  PROVE  /\ ~Ordering /\ Front(w) \in Alive
         /\ Zone(w) \subseteq Zone(Front(w)) /\ Zone(w) \subseteq Open(Front(w)) /\ Zone(w) \subseteq Task
         /\ Open(w) \subseteq Open(Front(w))
         /\ \A t \in Zone(w) : Refs(t) \cap Open(w) \subseteq Zone(w)
         /\ \A v \in Alive : v # Main /\ v # w /\ Front(v) = Front(w) => Zone(w) \cap Zone(v) = {}
  <1> DEFINE f == Top(Front(w))
  <1>1. /\ Front(w) \in Alive /\ At(Front(w), "join") /\ f.branches \in Seq(SUBSET Task)
        /\ Len(f.branches) = Len(f.names)
    BY ParentFacts, TopFacts DEF Threads, At, Shaped
  <1>2. Divided(Front(w))
    BY <1>1 DEF Zoned
  <1>3. PICK i \in InBatch(f) : i \in 1..Len(f.names) /\ f.names[i] = Last(w) /\ Branch(w) = f.branches[i]
    BY <1>2, BranchIs
  <1>4. i >= f.at
    BY <1>3 DEF InBatch
  <1>5. /\ ~Ordering /\ f.branches[i] \subseteq Zone(Front(w)) /\ f.branches[i] \subseteq Open(Front(w))
        /\ \A t \in f.branches[i] : Refs(t) \cap Open(Front(w)) \subseteq f.branches[i]
    BY <1>1, <1>2, <1>3, <1>4 DEF Divided, Divides
  <1>6. Open(w) \subseteq Open(Front(w))
    BY OpenShrinks DEF Known, Inherits
  <1>7. ASSUME NEW v \in Alive, v # Main, v # w, Front(v) = Front(w) PROVE Zone(w) \cap Zone(v) = {}
    <2>1. PICK j \in InBatch(f) : j \in 1..Len(f.names) /\ f.names[j] = Last(v) /\ Branch(v) = f.branches[j]
      BY <1>2, <1>7, BranchIs
    <2>2. i # j
      <3>1. v \in Thread /\ w \in Thread /\ v # <<>> /\ w # <<>>
        BY <1>7, ParentFacts DEF Threads
      <3> QED
        BY <1>3, <1>7, <2>1, <3>1, SameThread
    <2>3. f.branches[i] \cap f.branches[j] = {}
      BY <1>1, <1>2, <1>3, <2>1, <2>2 DEF Divided, Divides
    <2> QED
      BY <1>3, <1>7, <2>1, <2>3 DEF Zone
  <1>8. Zone(w) = f.branches[i]
    BY <1>3 DEF Zone
  <1>9. f.branches[i] \subseteq Task
    BY <1>1, <1>3
  <1> QED
    BY <1>1, <1>5, <1>6, <1>7, <1>8, <1>9

LEMMA ZoneCloses ==
  ASSUME Threads, Known, Zoned, NEW h \in Alive
  PROVE  Zone(h) \subseteq Task /\ \A t \in Zone(h) : Refs(t) \cap Open(h) \subseteq Zone(h)
  BY ZoneFacts DEF Zone, Open

LEMMA ZoneSame ==
  ASSUME Threads, NEW g \in Alive, g # Main => Top(Front(g))' = Top(Front(g))
  PROVE  Zone(g)' = Zone(g)
  BY DEF Zone, Branch, InBatch

\* A step of h that is not Join leaves the zones alone.
LEMMA ZoneKept ==
  ASSUME Threads, NEW h \in Alive, Keeps(h), ~At(h, "join"), NEW g \in Alive
  PROVE  Zone(g)' = Zone(g) /\ (g # h => Top(g)' = Top(g) /\ stack'[g] = stack[g])
  <1>1. ASSUME NEW v \in Alive, v # h PROVE Top(v)' = Top(v) /\ stack'[v] = stack[v]
    BY <1>1 DEF Keeps, Outside, Top
  <1>2. g # Main => Front(g) \in Alive /\ Front(g) # h
    BY NotJoining, ParentFacts DEF Threads
  <1> QED
    BY <1>1, <1>2, ZoneSame

LEMMA DividesSame ==
  ASSUME UNCHANGED plan, NEW f, NEW zone, NEW open
  PROVE  Divides(f, zone, open)' <=> Divides(f, zone, open)
  <1>1. \A t : Refs(t)' = Refs(t)
    BY DEF Refs, Groups, Prereqs, Body, Post
  <1>2. \A S : Lead(S)' = Lead(S)
    BY LeadSame
  <1>3. Ordering' = Ordering
    BY DEF Ordering
  <1> QED
    BY <1>1, <1>2, <1>3 DEF Divides

\* What a task that is taken up depends on has succeeded.
LEMMA TakenInTurn ==
  ASSUME Threads, NEW h \in Alive, InTurnNow(h), NEW t \in Task, Takes(h, t)
  PROVE  ToSet(Prereqs[t]) \subseteq Ok(h)
  <1>1. stack[h] # <<>> /\ Top(h).phase = "next" /\ Top(h).todo # <<>> /\ Head(Top(h).todo) = t
    BY TakesFacts DEF Threads
  <1>2. Top(h).task = None /\ Top(h).todo \in Seq(Task) /\ Top(h) \in Frames(h) /\ Top(h).phase \in RunPhases
    BY <1>1, TopFacts DEF Shaped, Threads, RunPhases
  <1>3. InTurn(Top(h).todo, Ok(h) \cup ({Top(h).task} \ {None}))
    BY <1>2 DEF InTurnNow
  <1>4. Ok(h) \cup ({Top(h).task} \ {None}) = Ok(h)
    BY <1>2
  <1> QED
    BY <1>1, <1>2, <1>3, <1>4, InTurnTail

LEMMA PlainDone ==
  ASSUME Threads, Known, NEW h \in Alive, Plain(h), InTurnNow(h), Done(h)
  PROVE  Done(h)'
  <1>1. TypeOK /\ Shape /\ Apart(h) /\ KnowsOwn(h) /\ Learns(h) /\ UNCHANGED plan /\ stack[h] # <<>>
    BY PlainLearns, PlainDoes DEF Threads, Known, Steps, Changes
  <1>2. Ok(h) \subseteq Ok(h)'
    BY <1>1, OkGrows DEF Learns
  <1>3. ASSUME NEW t \in Task, StartBody(h, t) \/ SkipFresh(h, t) PROVE ToSet(Prereqs[t]) \subseteq Ok(h)
    BY <1>3, TakenInTurn DEF StartBody, SkipFresh, Decides
  <1>4. ASSUME NEW t \in Held(h)' PROVE ToSet(Prereqs[t]) \subseteq Ok(h)
    <2>1. t \in Task /\ (t \in Held(h) \/ \E u \in Task : StartBody(h, u))
      BY <1>1, <1>4, PlainTasks, HeldAfter DEF Held
    <2>2. CASE t \in Held(h)
      BY <2>1, <2>2 DEF Done
    <2>3. ASSUME NEW u \in Task, StartBody(h, u) PROVE t \in Held(h) \cup {u}
      <3>1. Goes(h, Started(Top(h), u)) /\ Started(Top(h), u).task = u /\ Top(h).task = None
        BY <1>1, <2>3, StartBodyGoes, TakesFacts, TopFacts, ZenonT(60) DEF StartBody, Decides, Shaped
      <3> QED
        BY <1>1, <1>4, <3>1, HeldAfter
    <2> QED
      BY <1>3, <2>1, <2>2, <2>3
  <1>5. ASSUME NEW t \in Task, Completed(h, t) = None, Completed(h, t)' # None
        PROVE  ToSet(Prereqs[t]) \subseteq Ok(h)
    <2>1. ASSUME NEW u \in Task, StartBody(h, u) \/ ReturnCompleted(h, u) \/ DecideFails(h, u) PROVE FALSE
      <3>1. MarkRunning(h, u)
        BY <2>1 DEF StartBody, ReturnCompleted, DecideFails
      <3> QED
        BY <1>1, <1>5, <3>1, MarkRunningDoes
    <2>2. ASSUME NEW u \in Task, NEW code \in Code, Complete(h, u, code) PROVE t = u
      BY <1>1, <1>5, <2>2, CompleteDoes
    <2>3. CASE EndWithFailure(h) \/ EndWithSuccess(h)
      <3>1. /\ stack[h] # <<>> /\ Top(h).phase = "post"
            /\ \E code \in Code : Complete(h, Top(h).task, code)
        BY <1>1, <2>3, EndWithFailureQuits, ResultKinds DEF EndWithFailure, EndWithSuccess, TeardownDone, Ready, At
      <3>2. Top(h).task \in Task
        BY <1>1, <3>1, WorkFacts
      <3>3. Top(h).task \in Held(h)
        BY <1>1, <3>1, <3>2, TopFacts DEF Held
      <3> QED
        BY <2>2, <3>1, <3>2, <3>3 DEF Done
    <2>4. ASSUME NEW u \in Task, SkipFresh(h, u) PROVE t = u
      BY <2>2, <2>4, ResultKinds DEF SkipFresh
    <2>5. ~UNCHANGED memo
      BY <1>5 DEF Completed
    <2> QED
      BY <1>3, <2>1, <2>3, <2>4, <2>5, MemoKinds
  <1>6. ASSUME NEW t \in Task, Completed(h, t)' # None \/ t \in Held(h)' PROVE ToSet(Prereqs[t]) \subseteq Ok(h)
    BY <1>4, <1>5, <1>6 DEF Done
  <1> QED
    BY <1>1, <1>2, <1>6 DEF Done, Prereqs

LEMMA PlainOpen ==
  ASSUME Threads, Known, NEW h \in Alive, Plain(h)
  PROVE  /\ Open(h)' \subseteq Open(h) /\ Keeps(h) /\ UNCHANGED plan /\ ~At(h, "join") /\ stack[h] # <<>>
         /\ \A g \in Alive \ {h} : Open(g)' = Open(g) /\ Ok(g)' = Ok(g) /\ memo'[g] = memo[g]
  <1>1. Learns(h) /\ Keeps(h) /\ UNCHANGED plan /\ ~At(h, "join") /\ stack[h] # <<>>
    BY PlainLearns, PlainDoes, MovesKeeps DEF Threads, Steps, Changes, At
  <1> QED
    BY <1>1 DEF Learns, Open, Ok, Completed

\* The frame that a step of h calls has only tasks in h's zone still to run.
LEMMA CalledInside ==
  ASSUME Threads, Known, Zoned, NEW h \in Alive, h # Main, stack[h] # <<>>, NEW f, NEW g, Calls(h, f, g)
  PROVE  Names(g) \cap Open(h) \subseteq Zone(h)
  <1>1. /\ ~Ordering /\ Done(h) /\ Inside(h) /\ TypeOK /\ Shape /\ plan \in Plans /\ KnowsOwn(h)
        /\ Top(h) \in Frames(h) /\ g \in Frame
    BY ZoneFacts, TopFacts DEF Zoned, Threads, Known, TypeOK, Calls
  <1>2. \A t \in Zone(h) : Refs(t) \cap Open(h) \subseteq Zone(h)
    BY ZoneCloses
  <1>3. CASE f.phase \in Working /\ ToSet(g.names) \subseteq GroupedNow(f) /\ ToSet(g.todo) \subseteq PrereqsOf(g)
    <2>1. f = Top(h) /\ f.task \in Task /\ f.phase \in Working
      BY <1>1, <1>3, WorkerTask DEF Calls, Working
    <2>2. f.task \in Held(h) /\ f.task \in Names(f)
      BY <1>1, <2>1, ConstantsAssumption DEF Held, Names
    <2>3. f.task \in Zone(h)
      BY <1>1, <2>1, <2>2 DEF KnowsOwn, Inside, Open
    <2>4. GroupedNow(f) \subseteq Refs(f.task)
      BY <1>1, <2>1, RefsFacts DEF GroupedNow
    <2>5. ToSet(g.names) \cap Open(h) \subseteq Zone(h)
      BY <1>2, <1>3, <2>3, <2>4
    <2>6. ASSUME NEW n \in ToSet(g.names) PROVE ToSet(Prereqs[n]) \cap Open(h) \subseteq Zone(h)
      <3>1. n \in Task
        BY <1>1, <2>6, Members DEF Frame
      <3>2. ToSet(Prereqs[n]) \subseteq Refs(n)
        BY <1>1, <3>1, RefsFacts
      <3>3. CASE n \in Open(h)
        BY <1>2, <2>5, <2>6, <3>2, <3>3
      <3>4. CASE n \notin Open(h)
        <4>1. ToSet(Prereqs[n]) \subseteq Ok(h)
          BY <1>1, <3>1, <3>4 DEF Done, Open
        <4> QED
          BY <4>1, RetNone DEF Ok, Open, Code
      <3> QED
        BY <3>3, <3>4
    <2>7. ToSet(g.todo) \cap Open(h) \subseteq Zone(h)
      BY <1>3, <2>6 DEF PrereqsOf
    <2> QED
      BY <2>5, <2>7 DEF Names, Calls
  <1>4. ASSUME g.names = <<>>, NEW t \in Names(Top(h)) \cap Open(h), ToSet(g.todo) = ToSet(Prereqs[t]) \cup {t}
        PROVE  Names(g) \cap Open(h) \subseteq Zone(h)
    <2>1. t \in Zone(h) /\ t \in Task
      BY <1>1, <1>4 DEF Inside, Open
    <2>2. ToSet(Prereqs[t]) \subseteq Refs(t)
      BY <1>1, <2>1, RefsFacts
    <2>3. ToSet(g.todo) \cap Open(h) \subseteq Zone(h)
      BY <1>2, <1>4, <2>1, <2>2
    <2> QED
      BY <1>4, <2>3, EmptyMembers DEF Names, Calls
  <1> QED
    BY <1>3, <1>4 DEF Calls

LEMMA PlainInside ==
  ASSUME Threads, Known, Zoned, NEW h \in Alive, Plain(h)
  PROVE  Inside(h)'
  <1>1. /\ Open(h)' \subseteq Open(h) /\ Keeps(h) /\ ~At(h, "join") /\ stack[h] # <<>> /\ PlainMove(h)
        /\ Zone(h)' = Zone(h)
    BY PlainOpen, PlainMoves, ZoneKept
  <1>2. Inside(h) /\ Top(h) \in Frames(h) /\ Outer(h) \subseteq Frames(h)
    BY <1>1, TopFacts, StackFacts DEF Zoned, Threads
  <1>3. CASE h = Main
    BY <1>1, <1>3 DEF Inside, Zone, Open
  <1>4. ASSUME h # Main, NEW f \in Frames(h)' PROVE Names(f) \cap Open(h) \subseteq Zone(h)
    <2>1. CASE f \in Outer(h) \/ Names(f) \subseteq Names(Top(h))
      BY <1>2, <2>1 DEF Inside
    <2>2. ASSUME NEW e, Calls(h, e, f) PROVE Names(f) \cap Open(h) \subseteq Zone(h)
      BY <1>1, <1>4, <2>2, CalledInside
    <2> QED
      BY <1>1, <1>4, <2>1, <2>2 DEF PlainMove, Rolls, Calls, Leaves, Goes, Pushes, Pops
  <1> QED
    BY <1>1, <1>3, <1>4 DEF Inside, Names

\* What h divides when it forks is what its group reaches.
LEMMA StartsDivided ==
  ASSUME Threads, Known, Zoned, NEW h \in Alive, stack[h] # <<>>, Independent(Branches(h))
  PROVE  Divides(Forking(h), Zone(h), Open(h))
  <1> DEFINE names == Top(h).names  f == Forking(h)
  <1>1. Top(h) \in Frame /\ Top(h) \in Frames(h) /\ names \in Seq(Task) /\ plan \in Plans
    BY TopFacts DEF Threads
  <1>2. f.names = names /\ f.branches = Branches(h) /\ f.at = Top(h).at /\ Branches(h) = [i \in 1..Len(names) |-> Reachable(h, names[i])]
    BY <1>1 DEF Forking, Branches, Frame
  <1>3. Len(names) \in Nat /\ \A i \in 1..Len(names) : names[i] \in Task
    BY <1>1
  <1> HIDE DEF f
  <1>4. ~Ordering /\ \A i, j \in 1..Len(names) : i < j => Branches(h)[i] \cap Branches(h)[j] = {}
    BY <1>2 DEF Independent
  <1>5. ASSUME NEW k \in 1..Len(names), NEW l \in 1..Len(names), k # l
        PROVE  f.branches[k] \cap f.branches[l] = {}
    <2>1. k < l \/ l < k
      BY <1>3, <1>5
    <2> QED
      BY <1>2, <1>4, <2>1
  <1>6. ASSUME NEW k \in 1..Len(names)
        PROVE  /\ f.branches[k] \subseteq Zone(h) \cap Lead({names[k]}) /\ f.branches[k] \subseteq Open(h)
               /\ {names[k]} \cap Open(h) \subseteq f.branches[k]
               /\ \A t \in f.branches[k] : Refs(t) \cap Open(h) \subseteq f.branches[k]
               /\ f.branches[k] # {} => names[k] \in f.branches[k]
    <2>1. PICK t \in Task : t = names[k]
      BY <1>3
    <2>2. f.branches[k] = Reachable(h, t)
      BY <1>2, <2>1
    <2>3. Zone(h) \subseteq Task /\ \A u \in Zone(h) : Refs(u) \cap Open(h) \subseteq Zone(h)
      BY ZoneCloses
    <2>4. {t} \cap Open(h) \subseteq Zone(h)
      <3>1. t \in Names(Top(h))
        BY <1>3, <2>1 DEF Names, ToSet
      <3> QED
        BY <1>1, <3>1 DEF Zoned, Inside
    <2>5. Reachable(h, t) \subseteq Zone(h)
      BY <1>1, <2>3, <2>4, ReachableFacts
    <2>6. Reachable(h, t) \subseteq Lead({t}) /\ Reachable(h, t) \subseteq Open(h)
      BY <1>1, ReachableFacts
    <2>7. /\ {t} \cap Open(h) \subseteq Reachable(h, t)
          /\ \A u \in Reachable(h, t) : Refs(u) \cap Open(h) \subseteq Reachable(h, t)
          /\ Reachable(h, t) # {} => t \in Reachable(h, t)
      BY <1>1, ReachableFacts
    <2> QED
      BY <2>1, <2>2, <2>5, <2>6, <2>7
  <1> HIDE DEF names
  <1>7. f.names = names
    BY <1>2
  <1>8. Divides(f, Zone(h), Open(h))
    BY <1>4, <1>5, <1>6, <1>7 DEF Divides
  <1> QED
    BY <1>8 DEF f

LEMMA PlainDivided ==
  ASSUME Threads, Known, Zoned, NEW h \in Alive, Plain(h)
  PROVE  OuterWaits(h)' /\ Divided(h)' /\ Manned(h)'
  <1>1. /\ Keeps(h) /\ ~At(h, "join") /\ stack[h] # <<>> /\ PlainMove(h) /\ Stacks
        /\ Zone(h)' = Zone(h) /\ OuterWaits(h) /\ UNCHANGED plan
    BY PlainOpen, PlainMoves, ZoneKept, TopFacts DEF Zoned, Threads
  <1>2. ASSUME \A f \in Outer(h)' : f.phase \in {"body", "post", "deps", "serial"},
               stack'[h] # <<>> => Top(h)'.phase \notin {"fork", "join"}
        PROVE  OuterWaits(h)' /\ Divided(h)' /\ Manned(h)'
    BY <1>2 DEF OuterWaits, Divided, Manned, At
  <1>3. ASSUME NEW f, NEW g, Calls(h, f, g) PROVE OuterWaits(h)' /\ Divided(h)' /\ Manned(h)'
    <2>1. Outer(h)' = Outer(h) \cup {f} /\ Top(h)' = g /\ f.phase \in {"body", "post", "deps", "serial"} /\ g.phase \in {"next", "deps"}
      BY <1>3 DEF Calls, Pushes
    <2> QED
      BY <1>1, <1>2, <2>1 DEF OuterWaits
  <1>4. ASSUME NEW r, Leaves(h, r) PROVE OuterWaits(h)' /\ Divided(h)' /\ Manned(h)'
    <2>1. Outer(h)' \subseteq Outer(h) /\ (stack'[h] # <<>> => Top(h)' \in Outer(h))
      BY <1>1, <1>4, PopsOuter DEF Leaves
    <2> QED
      BY <1>1, <1>2, <2>1 DEF OuterWaits
  <1>5. ASSUME NEW f, Rolls(h, f) PROVE OuterWaits(h)' /\ Divided(h)' /\ Manned(h)'
    <2>1. /\ Outer(h)' = Outer(h) /\ Top(h)' = f /\ f.phase # "join"
          /\ f.phase = "fork" => f = Forking(h) /\ Independent(Branches(h)) /\ UNCHANGED memo
      BY <1>5 DEF Rolls, Goes
    <2>2. CASE f.phase # "fork"
      BY <1>1, <1>2, <2>1, <2>2 DEF OuterWaits
    <2>3. CASE f.phase = "fork"
      <3>1. Divides(f, Zone(h), Open(h))
        BY <1>1, <2>1, <2>3, StartsDivided
      <3>2. Open(h)' = Open(h)
        BY <2>1, <2>3 DEF Open, Completed
      <3>3. Divided(h)'
        BY <1>1, <2>1, <3>1, <3>2, DividesSame DEF Divided
      <3> QED
        BY <1>1, <2>1, <2>3, <3>3 DEF OuterWaits, Manned, At
    <2> QED
      BY <2>2, <2>3
  <1> QED
    BY <1>1, <1>3, <1>4, <1>5 DEF PlainMove

\* A thread whose stack, zone and memo stay the same.
LEMMA ZonedSame ==
  ASSUME UNCHANGED plan, NEW g, stack'[g] = stack[g], memo'[g] = memo[g], Zone(g)' = Zone(g),
         OuterWaits(g) /\ Divided(g) /\ Inside(g) /\ Manned(g) /\ (~Ordering => Done(g)),
         \A t : Append(g, t) \in Alive => Append(g, t) \in Alive'
  PROVE  (OuterWaits(g) /\ Divided(g) /\ Inside(g) /\ Manned(g) /\ (~Ordering => Done(g)))'
  <1>1. /\ Frames(g)' = Frames(g) /\ Outer(g)' = Outer(g) /\ Top(g)' = Top(g) /\ Open(g)' = Open(g)
        /\ Ok(g)' = Ok(g) /\ Held(g)' = Held(g) /\ \A p : At(g, p)' <=> At(g, p)
    BY DEF Frames, Outer, Top, Open, Ok, Held, Completed, At
  <1>2. Divided(g)'
    BY <1>1, DividesSame DEF Divided
  <1>3. OuterWaits(g)' /\ Inside(g)' /\ Manned(g)'
    BY <1>1 DEF OuterWaits, Inside, Names, Manned, Completed, InBatch
  <1>4. (~Ordering => Done(g))'
    BY <1>1 DEF Done, Prereqs, Ordering, Completed
  <1> QED
    BY <1>2, <1>3, <1>4

LEMMA PlainZoned ==
  ASSUME Threads, Known, Zoned, ~Ordering => ListsInTurn, NEW h \in Alive, Plain(h)
  PROVE  Zoned'
  <1>1. Keeps(h) /\ UNCHANGED plan /\ ~At(h, "join") /\ \A g \in Alive \ {h} : memo'[g] = memo[g]
    BY PlainOpen
  <1>2. Alive' = Alive
    BY <1>1 DEF Keeps
  <1>3. (~Ordering => Done(h))'
    BY <1>1, PlainDone DEF Zoned, ListsInTurn, Ordering
  <1>4. ASSUME NEW g \in Alive, g # h
        PROVE  (OuterWaits(g) /\ Divided(g) /\ Inside(g) /\ Manned(g) /\ (~Ordering => Done(g)))'
    <2>1. stack'[g] = stack[g] /\ memo'[g] = memo[g] /\ Zone(g)' = Zone(g)
      BY <1>1, <1>4, ZoneKept
    <2>2. OuterWaits(g) /\ Divided(g) /\ Inside(g) /\ Manned(g) /\ (~Ordering => Done(g))
      BY <1>4 DEF Zoned
    <2> QED
      BY <1>1, <1>2, <2>1, <2>2, ZonedSame
  <1> QED
    BY <1>2, <1>3, <1>4, PlainInside, PlainDivided DEF Zoned

\* Frames that have the same branches divide alike.
LEMMA DividesAlike ==
  ASSUME NEW f, NEW g, g.names = f.names, g.branches = f.branches, NEW zone, NEW open, NEW open2, open2 \subseteq open,
         Divides(f, zone, open),
         \A k \in 1..Len(f.names) : k >= g.at => k >= f.at /\ f.branches[k] \cap open \subseteq open2
  PROVE  Divides(g, zone, open2)
  BY DEF Divides

\* A worker's zone is the branch that it was forked for.
LEMMA ForkedZone ==
  ASSUME Threads, Zoned, NEW h \in Alive, Fork(h), NEW w \in Forked(h)
  PROVE  \E i \in 1..Len(Top(h).names) :
           /\ i \in InBatch(Top(h)) /\ Top(h).names[i] = Last(w) /\ Zone(w)' = Top(h).branches[i] /\ Last(w) \in Open(h)
  <1>1. /\ ForkMoves(h) /\ stack[h] # <<>> /\ Top(h).phase = "fork" /\ Ready(h, "fork") /\ At(h, "fork")
        /\ Top(h) \in Frame /\ Top(h).names \in Seq(Task)
    BY ForkDoes, ForkFrame, TopFacts DEF Threads, At
  <1>2. /\ w # Main /\ Front(w) = h /\ Last(w) \in Task /\ Completed(h, Last(w)) = None
        /\ \E i \in InBatch(Top(h)) : Top(h).names[i] = Last(w)
    BY <1>1, ForkedFacts DEF Threads
  <1>3. PICK i \in InBatch(Top(h)) : Top(h).names[i] = Last(w)
    BY <1>2
  <1>4. InBatch(Top(h)) \subseteq 1..Len(Top(h).names)
    BY <1>1 DEF InBatch
  <1>5. PICK g : g = Joining(h)
    OBVIOUS
  <1>6. g.names = Top(h).names /\ g.branches = Top(h).branches /\ g.at = Top(h).at /\ Top(h)' = g
    BY <1>1, <1>5, ForkFrame DEF Threads, ForkMoves
  <1>7. Branch(w)' = UNION {g.branches[j] : j \in {k \in InBatch(g) : g.names[k] = Last(w)}}
    BY <1>2, <1>6 DEF Branch, InBatch
  <1>8. InBatch(g) = InBatch(Top(h))
    BY <1>6 DEF InBatch
  <1>9. Last(w) \in Open(h)
    BY <1>2 DEF Open
  <1>10. Branch(w)' = Top(h).branches[i]
    <2>1. Divides(Top(h), Zone(h), Open(h))
      BY <1>1 DEF Zoned, Divided
    <2>2. UNION {Top(h).branches[j] : j \in {k \in InBatch(Top(h)) : Top(h).names[k] = Top(h).names[i]}} = Top(h).branches[i]
      BY <1>3, <1>4, <1>9, <2>1, OneBranch
    <2> QED
      BY <1>3, <1>6, <1>7, <1>8, <2>2
  <1> QED
    BY <1>2, <1>3, <1>4, <1>9, <1>10 DEF Zone

LEMMA ForkNew ==
  ASSUME Threads, Zoned, NEW h \in Alive, Fork(h), NEW w \in Forked(h)
  PROVE  (OuterWaits(w) /\ Divided(w) /\ Inside(w) /\ Manned(w) /\ (~Ordering => Done(w)))'
  <1>1. /\ ForkMoves(h) /\ UNCHANGED plan /\ plan \in Plans /\ At(h, "fork") /\ stack[h] # <<>>
    BY ForkDoes, ForkRest, ForkFrame DEF Threads, At, TypeOK
  <1>2. PICK g : g = TaskFrame(Top(h).order, Last(w))
    OBVIOUS
  <1>3. /\ stack'[w] = <<g>> /\ Frames(w)' = {g} /\ memo'[w] = memo[h]
        /\ g.phase = "next" /\ g.task = None /\ g.names = <<>> /\ g.todo = Append(Prereqs[Last(w)], Last(w))
    BY <1>1, <1>2, ForkedFrame DEF ForkMoves, Threads
  <1>4. Outer(w)' = {} /\ Top(w)' = g
    BY <1>3 DEF Outer, Top, Last
  <1>5. Open(w)' = Open(h) /\ Ok(w)' = Ok(h) /\ Held(w)' = {} /\ \A t : Completed(w, t)' = Completed(h, t)
    BY <1>3, ConstantsAssumption DEF Open, Ok, Held, Completed
  <1>6. PICK i \in 1..Len(Top(h).names) : Top(h).names[i] = Last(w) /\ Zone(w)' = Top(h).branches[i] /\ Last(w) \in Open(h)
    BY ForkedZone
  <1>7. /\ {Last(w)} \cap Open(h) \subseteq Top(h).branches[i]
        /\ \A t \in Top(h).branches[i] : Refs(t) \cap Open(h) \subseteq Top(h).branches[i]
    BY <1>1, <1>6 DEF Zoned, Divided, Divides
  <1>8. Inside(w)'
    <2>1. Last(w) \in Task /\ Prereqs[Last(w)] \in Seq(Task) /\ ToSet(Prereqs[Last(w)]) \subseteq Refs(Last(w))
      BY <1>1, <1>6, RefsFacts, PlanTypes DEF Open
    <2>2. ToSet(g.todo) = ToSet(Prereqs[Last(w)]) \cup {Last(w)}
      BY <1>3, <2>1, AppendMembers
    <2>3. Names(g) \cap Open(h) \subseteq Top(h).branches[i]
      BY <1>3, <1>6, <1>7, <2>1, <2>2, EmptyMembers DEF Names
    <2> QED
      BY <1>3, <1>5, <1>6, <2>3 DEF Inside, Names
  <1>9. (~Ordering => Done(w))'
    BY <1>1, <1>5 DEF Zoned, Done, Prereqs, Ordering
  <1> QED
    BY <1>3, <1>4, <1>8, <1>9 DEF OuterWaits, Divided, Manned, At

LEMMA ForkSelf ==
  ASSUME Threads, Zoned, NEW h \in Alive, Fork(h), Zone(h)' = Zone(h)
  PROVE  (OuterWaits(h) /\ Divided(h) /\ Inside(h) /\ Manned(h) /\ (~Ordering => Done(h)))'
  <1>1. /\ ForkMoves(h) /\ UNCHANGED plan /\ At(h, "fork") /\ stack[h] # <<>> /\ Top(h) \in Frame
        /\ Top(h).names \in Seq(Task)
        /\ Frames(h) = Outer(h) \cup {Top(h)}
    BY ForkDoes, ForkRest, ForkFrame, TopFacts, StackFacts DEF Threads, At
  <1>2. PICK g : g = Joining(h)
    OBVIOUS
  <1>3. /\ g.phase = "join" /\ g.names = Top(h).names /\ g.branches = Top(h).branches /\ g.at = Top(h).at
        /\ g.todo = Top(h).todo /\ g.task = Top(h).task
        /\ Top(h)' = g /\ Frames(h)' = Outer(h) \cup {g} /\ Outer(h)' = Outer(h) /\ memo'[h] = memo[h]
    BY <1>1, <1>2, ForkFrame DEF Threads, ForkMoves
  <1>4. Open(h)' = Open(h) /\ Ok(h)' = Ok(h) /\ Held(h)' = Held(h) /\ \A t : Completed(h, t)' = Completed(h, t)
    BY <1>1, <1>3 DEF Open, Ok, Held, Completed
  <1>5. Divided(h)'
    <2>1. Divides(Top(h), Zone(h), Open(h))
      BY <1>1 DEF Zoned, Divided
    <2>2. Divides(g, Zone(h), Open(h))
      BY <1>3, <2>1, DividesAlike
    <2> QED
      BY <1>1, <1>3, <1>4, <2>2, DividesSame DEF Divided
  <1>6. Inside(h)'
    <2>1. Names(g) = Names(Top(h))
      BY <1>3 DEF Names
    <2> QED
      BY <1>1, <1>3, <1>4, <2>1 DEF Zoned, Inside, Names
  <1>7. Manned(h)'
    <2>1. InBatch(g) = InBatch(Top(h)) /\ Alive' = Alive \cup Forked(h)
      BY <1>1, <1>3 DEF InBatch, ForkMoves
    <2>2. ASSUME NEW i \in InBatch(Top(h)), Completed(h, Top(h).names[i]) = None
          PROVE  Append(h, Top(h).names[i]) \in Alive'
      BY <2>1, <2>2 DEF Forked
    <2> QED
      BY <1>3, <1>4, <2>1, <2>2 DEF Manned, InBatch
  <1> QED
    BY <1>1, <1>3, <1>4, <1>5, <1>6, <1>7 DEF Zoned, OuterWaits, Done, Prereqs, Ordering

LEMMA ForkZoned ==
  ASSUME Threads, Zoned, NEW h \in Alive, Fork(h)
  PROVE  Zoned'
  <1>1. /\ ForkMoves(h) /\ UNCHANGED plan /\ ~At(h, "join") /\ Alive' = Alive \cup Forked(h)
    BY ForkDoes, ForkRest, ForkFrame DEF Threads, At, ForkMoves
  <1>2. ASSUME NEW g \in Alive PROVE Zone(g)' = Zone(g)
    <2>1. g # Main => Front(g) \in Alive \ {h}
      BY <1>1, <1>2, NotJoining, ParentFacts DEF Threads
    <2>2. g # Main => Top(Front(g))' = Top(Front(g))
      BY <1>1, <2>1 DEF ForkMoves, Top
    <2> QED
      BY <2>2, ZoneSame
  <1>3. ASSUME NEW g \in Alive, g # h
        PROVE  (OuterWaits(g) /\ Divided(g) /\ Inside(g) /\ Manned(g) /\ (~Ordering => Done(g)))'
    <2>1. stack'[g] = stack[g] /\ memo'[g] = memo[g]
      BY <1>1, <1>3 DEF ForkMoves
    <2>2. OuterWaits(g) /\ Divided(g) /\ Inside(g) /\ Manned(g) /\ (~Ordering => Done(g))
      BY <1>3 DEF Zoned
    <2> QED
      BY <1>1, <1>2, <1>3, <2>1, <2>2, ZonedSame
  <1> QED
    BY <1>1, <1>2, <1>3, ForkNew, ForkSelf DEF Zoned

\* The threads that are left when h joins its workers keep their zones.
LEMMA JoinZones ==
  ASSUME Threads, NEW h \in Alive, Join(h), NEW g \in Alive'
  PROVE  /\ g \in Alive /\ Zone(g)' = Zone(g)
         /\ g # Main => Front(g) \in Alive' \ {h}
  <1>1. /\ JoinMoves(h) /\ Alive' = Alive \ Workers(h) /\ g \in Alive
        /\ \A w \in Workers(h) : stack[w] = <<>>
    BY JoinDoes, JoinFrame DEF Threads, JoinMoves
  <1>2. ASSUME g # Main
        PROVE  Front(g) \in Alive' \ {h} /\ Top(Front(g))' = Top(Front(g))
    <2>1. Front(g) \in Alive /\ stack[Front(g)] # <<>>
      BY <1>1, <1>2, ParentFacts DEF Threads
    <2>2. Front(g) \in Alive'
      BY <1>1, <2>1
    <2>3. Front(g) # h
      BY <1>1, <1>2 DEF Workers
    <2> QED
      BY <1>1, <2>2, <2>3 DEF JoinMoves, Top
  <1> QED
    BY <1>1, <1>2, ZoneSame

\* The thread that has the last word on a task of a branch.
LEMMA OwnerIs ==
  ASSUME Threads, Known, Zoned, NEW h \in Alive, Join(h), NEW w \in Workers(h)
  PROVE  /\ w \in Alive /\ w # Main /\ Front(w) = h
         /\ \A t \in Zone(w) : Owner(h, t) = w
         /\ \E i \in InBatch(Top(h)) : /\ i \in 1..Len(Top(h).names) /\ Top(h).names[i] = Last(w)
                                       /\ Zone(w) = Top(h).branches[i]
  <1>1. w \in Alive /\ w # Main /\ Front(w) = h
    BY DEF Workers
  <1>2. Divided(Front(w))
    BY <1>1 DEF Zoned
  <1>3. \E i \in InBatch(Top(h)) : /\ i \in 1..Len(Top(h).names) /\ Top(h).names[i] = Last(w)
                                   /\ Zone(w) = Top(h).branches[i]
    BY <1>1, <1>2, BranchIs DEF Zone
  <1>4. ASSUME NEW t \in Zone(w) PROVE Owner(h, t) = w
    <2>1. t \in Branch(w)
      BY <1>1, <1>4 DEF Zone
    <2>2. PICK v \in Workers(h) : v = Owner(h, t) /\ t \in Branch(v)
      BY <2>1, OwnerFacts
    <2>3. v \in Alive /\ v # Main /\ Front(v) = h /\ t \in Zone(v)
      BY <2>2 DEF Workers, Zone
    <2>4. v # w => Zone(w) \cap Zone(v) = {}
      BY <1>1, <2>3, ZoneFacts
    <2> QED
      BY <1>4, <2>2, <2>3, <2>4
  <1> QED
    BY <1>1, <1>3, <1>4

LEMMA JoinDone ==
  ASSUME Threads, Known, Zoned, NEW h \in Alive, Join(h), ~Ordering
  PROVE  Done(h)'
  <1>1. /\ UNCHANGED plan /\ plan \in Plans /\ Held(h)' = Held(h) /\ At(h, "join")
        /\ \A t \in Task : Completed(h, t)' = Completed(Owner(h, t), t)
        /\ \A t \in Task : Completed(h, t) # None => Completed(h, t)' = Completed(h, t)
    BY JoinLearns, JoinRest, JoinFrame, NotJoining DEF Threads, TypeOK, At, Join, Ready
  <1>2. Ok(h) \subseteq Ok(h)'
    BY <1>1, OkGrows
  <1>3. ASSUME NEW t \in Task, Completed(h, t) # None \/ t \in Held(h) PROVE ToSet(Prereqs[t]) \subseteq Ok(h)'
    BY <1>2, <1>3 DEF Zoned, Done
  <1>4. ASSUME NEW t \in Task, Completed(h, t) = None, Completed(h, t)' # None
        PROVE  ToSet(Prereqs[t]) \subseteq Ok(h)'
    <2>1. Owner(h, t) # h
      BY <1>1, <1>4
    <2>2. PICK w \in Workers(h) : w = Owner(h, t) /\ t \in Branch(w)
      BY <2>1, OwnerFacts
    <2>3. w \in Alive /\ w # Main /\ Front(w) = h /\ t \in Zone(w) /\ \A u \in Zone(w) : Owner(h, u) = w
      BY <2>2, OwnerIs DEF Zone
    <2>4. PICK i \in 1..Len(Top(h).names) : Zone(w) = Top(h).branches[i]
      BY OwnerIs
    <2>5. \A u \in Zone(w) : Refs(u) \cap Open(h) \subseteq Zone(w)
      <3>1. Divides(Top(h), Zone(h), Open(h))
        BY <1>1 DEF Zoned, Divided
      <3>2. \A u \in Top(h).branches[i] : Refs(u) \cap Open(h) \subseteq Top(h).branches[i]
        BY <2>4, <3>1 DEF Divides
      <3> QED
        BY <2>4, <3>2
    <2>6. ToSet(Prereqs[t]) \subseteq Ok(w) /\ ToSet(Prereqs[t]) \subseteq Refs(t)
      BY <1>1, <1>4, <2>2, <2>3, RefsFacts DEF Zoned, Done
    <2>7. ASSUME NEW u \in ToSet(Prereqs[t]) PROVE Completed(h, u)' = "ok" /\ u \in Task
      <3>1. u \in Task /\ Completed(w, u) = "ok"
        BY <2>6, <2>7 DEF Ok
      <3>2. CASE u \in Open(h)
        <4>1. Owner(h, u) = w
          BY <2>3, <2>5, <2>6, <2>7, <3>2
        <4> QED
          BY <1>1, <3>1, <4>1
      <3>3. CASE u \notin Open(h)
        <4>1. Completed(h, u) # None /\ Completed(w, u) = Completed(h, u)
          BY <2>3, <3>1, <3>3 DEF Open, Known, Inherits
        <4> QED
          BY <1>1, <3>1, <4>1
      <3> QED
        BY <3>2, <3>3
    <2> QED
      BY <2>7 DEF Ok
  <1> QED
    BY <1>1, <1>3, <1>4 DEF Done, Prereqs

LEMMA JoinSelf ==
  ASSUME Threads, Known, Zoned, NEW h \in Alive, Join(h)
  PROVE  (OuterWaits(h) /\ Divided(h) /\ Inside(h) /\ Manned(h) /\ (~Ordering => Done(h)))'
  <1>1. /\ JoinMoves(h) /\ UNCHANGED plan /\ At(h, "join") /\ stack[h] # <<>> /\ Top(h) \in Frame
        /\ Frames(h) = Outer(h) \cup {Top(h)} /\ h \in Alive'
    BY JoinDoes, JoinRest, JoinFrame, NotJoining, TopFacts, StackFacts DEF Threads, At, JoinMoves, Join, Ready
  <1>2. /\ \A t \in Task : Completed(h, t)' = Completed(Owner(h, t), t)
        /\ \A t \in Task : Completed(h, t) # None => Completed(h, t)' = Completed(h, t)
    BY JoinLearns
  <1>3. PICK g : g = Joined(h)
    OBVIOUS
  <1>4. /\ g.phase = "fork" /\ g.names = Top(h).names /\ g.branches = Top(h).branches /\ g.at = Top(h).at + Batch
        /\ g.todo = Top(h).todo /\ g.task = Top(h).task
        /\ Top(h)' = g /\ Frames(h)' = Outer(h) \cup {g} /\ Outer(h)' = Outer(h)
    BY <1>1, <1>3, JoinFrame DEF Threads, JoinMoves
  <1>5. Open(h)' \subseteq Open(h) /\ Zone(h)' = Zone(h)
    BY <1>1, <1>2, JoinZones DEF Open
  <1>6. Divided(h)'
    <2>1. Divides(Top(h), Zone(h), Open(h)) /\ Batch \in Nat /\ Top(h).at \in Nat
      BY <1>1, ConstantsAssumption DEF Zoned, Divided, Frame
    <2>2. ASSUME NEW k \in 1..Len(Top(h).names), k >= g.at, NEW t \in Top(h).branches[k], t \in Open(h)
          PROVE  t \in Open(h)'
      <3>1. Owner(h, t) = h
        <4>1. ASSUME NEW w \in Workers(h), t \in Zone(w) PROVE FALSE
          <5>1. PICK i \in InBatch(Top(h)) : i \in 1..Len(Top(h).names) /\ Zone(w) = Top(h).branches[i]
            BY OwnerIs
          <5>2. i # k
            BY <1>4, <2>1, <2>2, <5>1 DEF InBatch
          <5>3. Top(h).branches[i] \cap Top(h).branches[k] = {}
            BY <2>1, <5>1, <5>2 DEF Divides
          <5> QED
            BY <2>2, <4>1, <5>1, <5>3
        <4>2. \A w \in Workers(h) : Zone(w) = Branch(w)
          BY DEF Zone, Workers
        <4> QED
          BY <4>1, <4>2, OwnerFacts
      <3> QED
        BY <1>2, <2>2, <3>1 DEF Open
    <2>3. Divides(g, Zone(h), Open(h)')
      <3>1. PICK open : open = Open(h)'
        OBVIOUS
      <3>2. \A k \in 1..Len(Top(h).names) : k >= g.at => k >= Top(h).at /\ Top(h).branches[k] \cap Open(h) \subseteq open
        BY <1>4, <2>1, <2>2, <3>1
      <3>3. open \subseteq Open(h)
        BY <1>5, <3>1
      <3> QED
        BY <1>4, <2>1, <3>1, <3>2, <3>3, DividesAlike
    <2> QED
      BY <1>1, <1>4, <1>5, <2>3, DividesSame DEF Divided
  <1>7. Inside(h)'
    <2>1. Names(g) = Names(Top(h))
      BY <1>4 DEF Names
    <2> QED
      BY <1>1, <1>4, <1>5, <2>1 DEF Zoned, Inside, Names
  <1>8. (~Ordering => Done(h))'
    BY <1>1, JoinDone DEF Ordering
  <1>9. OuterWaits(h)'
    BY <1>4 DEF Zoned, OuterWaits
  <1> QED
    BY <1>4, <1>6, <1>7, <1>8, <1>9 DEF Manned, At

LEMMA JoinZoned ==
  ASSUME Threads, Known, Zoned, NEW h \in Alive, Join(h)
  PROVE  Zoned'
  <1>1. JoinMoves(h) /\ UNCHANGED plan /\ Alive' = Alive \ Workers(h)
    BY JoinDoes, JoinRest, JoinFrame, NotJoining DEF Threads, JoinMoves, At, Join, Ready
  <1>2. ASSUME NEW g \in Alive', g # h
        PROVE  (OuterWaits(g) /\ Divided(g) /\ Inside(g) /\ Manned(g) /\ (~Ordering => Done(g)))'
    <2>1. stack'[g] = stack[g] /\ memo'[g] = memo[g] /\ Zone(g)' = Zone(g) /\ g \in Alive
      BY <1>1, <1>2, JoinZones DEF JoinMoves
    <2>2. OuterWaits(g) /\ Divided(g) /\ Inside(g) /\ Manned(g) /\ (~Ordering => Done(g))
      BY <2>1 DEF Zoned
    <2>3. ASSUME NEW t, Append(g, t) \in Alive PROVE Append(g, t) \in Alive'
      <3>1. ASSUME Append(g, t) \in Workers(h) PROVE FALSE
        <4>1. g \in Thread /\ Append(g, t) \in Thread /\ Append(g, t) # Main /\ Front(Append(g, t)) = h
          BY <2>1, <2>3, <3>1 DEF Workers, Threads, TypeOK
        <4>2. Front(Append(g, t)) = g
          <5>1. t \in Task
            BY <4>1 DEF Thread
          <5> QED
            BY <4>1, <5>1, ThreadAppend
        <4> QED
          BY <1>2, <4>1, <4>2
      <3> QED
        BY <1>1, <2>3, <3>1
    <2> QED
      BY <1>1, <2>1, <2>2, <2>3, ZonedSame
  <1> QED
    BY <1>1, <1>2, JoinSelf DEF Zoned

\* Between plans, and when nothing but a source changes.
LEMMA ZonedKept ==
  ASSUME Zoned, UNCHANGED <<plan, stack, memo>>
  PROVE  Zoned'
  <1>1. Alive' = Alive
    BY DEF Alive
  <1>2. ASSUME NEW g PROVE Zone(g)' = Zone(g)
    BY DEF Zone, Branch, InBatch, Top
  <1> QED
    BY <1>1, <1>2, ZonedSame DEF Zoned

\* A thread that has just begun, or has nothing to do, and has completed nothing.
Alone ==
  /\ Alive = {Main} /\ memo[Main] = NoMemo
  /\ stack[Main] = <<>> \/ (\E f : stack[Main] = <<f>> /\ f.phase = "next" /\ f.task = None)

LEMMA AloneZoned == Alone => Zoned
  <1> SUFFICES ASSUME Alone PROVE Zoned
    OBVIOUS
  <1>1. \A t \in Task : Completed(Main, t) = None
    BY DEF Alone, Completed, NoMemo
  <1>2. Inside(Main)
    BY DEF Inside, Zone, Open
  <1>3. Outer(Main) = {} /\ Held(Main) = {} /\ ~At(Main, "fork") /\ ~At(Main, "join")
    <2>1. CASE stack[Main] = <<>>
      BY <2>1, NoFrames DEF Outer, At
    <2>2. ASSUME NEW f, stack[Main] = <<f>>, f.phase = "next", f.task = None
          PROVE  Outer(Main) = {} /\ Held(Main) = {} /\ ~At(Main, "fork") /\ ~At(Main, "join")
      <3>1. Frames(Main) = {f} /\ Outer(Main) = {} /\ Top(Main) = f
        BY <2>2 DEF Frames, Outer, Top, Last
      <3> QED
        BY <2>2, <3>1, ConstantsAssumption DEF Held, At
    <2> QED
      BY <2>1, <2>2 DEF Alone
  <1> QED
    BY <1>1, <1>2, <1>3 DEF Alone, Zoned, OuterWaits, Divided, Manned, Done

LEMMA ZonedInit ==
  ASSUME Init
  PROVE  Zoned
  <1>1. Alive = {Main} /\ stack[Main] = <<>> /\ memo[Main] = NoMemo
    BY DEF Init, JustMain, Alive
  <1> QED
    BY <1>1, AloneZoned DEF Alone

LEMMA AloneNext == Alone' => Zoned'
  BY AloneZoned, PTL

LEMMA InvokeZoned ==
  ASSUME Threads, Invoke
  PROVE  Zoned'
  <1>1. PICK f : f = FirstFrame
    OBVIOUS
  <1>2. /\ Alive' = {Main} /\ stack'[Main] = <<f>> /\ f.phase = "next" /\ f.task = None /\ memo'[Main] = NoMemo
    BY <1>1, InvokeMoves DEF Threads
  <1> QED
    BY <1>2, AloneNext DEF Alone

LEMMA ZonedStep ==
  ASSUME Threads, Known, Zoned, ~Ordering => ListsInTurn, [Next]_vars
  PROVE  Zoned'
  <1>1. CASE Finish
    BY <1>1, ZonedKept DEF Finish, history
  <1>2. ASSUME NEW t \in Task, Edit(t) PROVE Zoned'
    BY <1>2, ZonedKept DEF Edit, threads, history
  <1>3. CASE UNCHANGED vars
    BY <1>3, ZonedKept DEF vars, threads, history
  <1> QED
    BY <1>1, <1>2, <1>3, StepKinds, PlainZoned, ForkZoned, JoinZoned, InvokeZoned DEF Next

-----------------------------------------------------------------------------
(* The zones of the threads, one in another *)

\* A thread's zone is in the zones of those that it was forked for, and what they run is
\* running in it; threads of which neither was forked for the other share nothing.
LEMMA ZonesNest ==
  ASSUME Threads, Known, Zoned
  PROVE  \A g, h \in Alive : Below(g, h) => Zone(h) \subseteq Zone(g) /\ memo[g].running \subseteq memo[h].running
  <1> DEFINE S == {m \in Nat : \A g, h \in Alive : Len(h) = m /\ Below(g, h) =>
                                 Zone(h) \subseteq Zone(g) /\ memo[g].running \subseteq memo[h].running}
  <1>1. \A h \in Alive : h \in Thread /\ Len(h) \in Nat
    BY DEF Threads, TypeOK, Thread
  <1>2. 0 \in S
    BY <1>1 DEF Below
  <1>3. ASSUME NEW m \in Nat, m \in S PROVE m + 1 \in S
    <2> SUFFICES ASSUME NEW g \in Alive, NEW h \in Alive, Len(h) = m + 1, Below(g, h)
                 PROVE  Zone(h) \subseteq Zone(g) /\ memo[g].running \subseteq memo[h].running
      OBVIOUS
    <2>1. h # <<>> /\ (g = Front(h) \/ Below(g, Front(h)))
      BY <1>1, BelowFront
    <2>2. Front(h) \in Alive /\ Len(Front(h)) = m /\ h # Main
      BY <1>1, <2>1, ParentFacts, ThreadFacts DEF Threads, Main
    <2>3. Zone(h) \subseteq Zone(Front(h)) /\ memo[Front(h)].running \subseteq memo[h].running
      BY <2>2, ZoneFacts DEF Known, Inherits
    <2> QED
      BY <1>3, <2>1, <2>2, <2>3
  <1> HIDE DEF S
  <1>4. ASSUME NEW n \in Nat PROVE n \in S
    BY <1>2, <1>3, UpTo, \A m \in 0..(n - 1) : m \in Nat
  <1> QED
    BY <1>1, <1>4 DEF S

LEMMA ZonesApart ==
  ASSUME Threads, Known, Zoned
  PROVE  \A g, h \in Alive : g # h /\ ~Below(g, h) /\ ~Below(h, g) => Zone(g) \cap Zone(h) = {}
  <1> DEFINE S == {m \in Nat : \A g, h \in Alive : Len(h) = m /\ g # h /\ ~Below(g, h) /\ ~Below(h, g)
                                 => Zone(g) \cap Zone(h) = {}}
  <1>1. \A h \in Alive : h \in Thread /\ Len(h) \in Nat
    BY DEF Threads, TypeOK, Thread
  <1>2. 0 \in S
    <2> SUFFICES ASSUME NEW g \in Alive, NEW h \in Alive, Len(h) = 0, g # h, ~Below(h, g)
                 PROVE  FALSE
      OBVIOUS
    <2>1. h = Main
      BY <1>1 DEF Main, Thread
    <2> QED
      BY <1>1, <2>1, MainIsBelow
  <1>3. ASSUME NEW m \in Nat, m \in S PROVE m + 1 \in S
    <2> SUFFICES ASSUME NEW g \in Alive, NEW h \in Alive, Len(h) = m + 1, g # h, ~Below(g, h), ~Below(h, g)
                 PROVE  Zone(g) \cap Zone(h) = {}
      OBVIOUS
    <2>1. h # Main
      BY DEF Main
    <2>2. PICK p : p = Front(h)
      OBVIOUS
    <2>3. p \in Alive /\ Len(p) = m /\ Below(p, h) /\ Zone(h) \subseteq Zone(p)
      BY <1>1, <2>1, <2>2, ParentFacts, ThreadFacts, ZoneFacts DEF Threads
    <2>4. ~Below(g, p) /\ g # p
      BY <1>1, <2>3, BelowTransitive
    <2>5. CASE ~Below(p, g)
      BY <1>3, <2>3, <2>4, <2>5
    <2>6. CASE Below(p, g)
      <3>1. \E v \in Thread : v # <<>> /\ Front(v) = p /\ (v = g \/ Below(v, g))
        BY <1>1, <2>3, <2>6, BelowByOne, BelowFront
      <3>2. PICK v \in Thread : v # <<>> /\ Front(v) = p /\ (v = g \/ Below(v, g))
        BY <3>1
      <3>3. v \in Alive /\ v # Main /\ v # h /\ Zone(g) \subseteq Zone(v)
        BY <1>1, <3>2, ZonesNest DEF Threads, Tree, Main
      <3>4. Zone(h) \cap Zone(v) = {}
        BY <2>1, <2>2, <3>2, <3>3, ZoneFacts
      <3> QED
        BY <3>3, <3>4
    <2> QED
      BY <2>5, <2>6
  <1> HIDE DEF S
  <1>4. ASSUME NEW n \in Nat PROVE n \in S
    BY <1>2, <1>3, UpTo, \A m \in 0..(n - 1) : m \in Nat
  <1> QED
    BY <1>1, <1>4 DEF S

-----------------------------------------------------------------------------
(* What a group lists is what the steps that called it lead to *)

\* In a stack of frames.
Nests(s) ==
  \A i, j \in 1..Len(s) :
    i < j /\ s[i].phase \in Working => Names(s[j]) \subseteq Lead(GroupedNow(s[i]))

Nested == \A h \in Alive : Nests(stack[h])

LEMMA NestsKept ==
  ASSUME UNCHANGED plan, NEW s
  PROVE  Nests(s)' <=> Nests(s)
  <1>1. ASSUME NEW f PROVE Lead(GroupedNow(f))' = Lead(GroupedNow(f))
    <2>1. PICK S : S = GroupedNow(f)
      OBVIOUS
    <2>2. GroupedNow(f)' = S
      BY <2>1 DEF GroupedNow, Body, Post
    <2> QED
      BY <2>1, <2>2, LeadSame
  <1> QED
    BY <1>1 DEF Nests, Names

LEMMA GroupLeads ==
  ASSUME plan \in Plans, NEW f, f.phase \in Working, f.task \in Task
  PROVE  /\ GroupedNow(f) \subseteq Task /\ GroupedNow(f) \subseteq Lead({f.task})
         /\ \A T \in SUBSET Task : f.task \in Lead(T) => Lead(GroupedNow(f)) \subseteq Lead(T)
  <1>1. GroupedNow(f) \subseteq Refs(f.task) /\ Refs(f.task) \subseteq Task
    BY RefsFacts DEF GroupedNow
  <1>2. ASSUME NEW T \in SUBSET Task, f.task \in Lead(T) PROVE GroupedNow(f) \subseteq Lead(T)
    BY <1>1, <1>2, LeadFacts
  <1>3. f.task \in Lead({f.task})
    BY LeadFacts
  <1>4. ASSUME NEW T \in SUBSET Task, f.task \in Lead(T) PROVE Lead(GroupedNow(f)) \subseteq Lead(T)
    BY <1>2, <1>4, LeadIn
  <1> QED
    BY <1>1, <1>2, <1>3, <1>4

\* The innermost frame goes on, with no more to run.
LEMMA NestsOn ==
  ASSUME NEW s, NEW r, NEW n \in Nat \ {0}, Len(s) = n, Len(r) = n, \A i \in 1..(n - 1) : r[i] = s[i],
         Names(r[n]) \subseteq Names(s[n]), Nests(s)
  PROVE  Nests(r)
  <1> SUFFICES ASSUME NEW i \in 1..n, NEW j \in 1..n, i < j, r[i].phase \in Working
               PROVE  Names(r[j]) \subseteq Lead(GroupedNow(r[i]))
    BY DEF Nests
  <1>1. r[i] = s[i] /\ (j = n \/ r[j] = s[j])
    OBVIOUS
  <1>2. Names(s[j]) \subseteq Lead(GroupedNow(s[i]))
    BY <1>1 DEF Nests
  <1> QED
    BY <1>1, <1>2

LEMMA NestsLess ==
  ASSUME NEW s, NEW r, NEW n \in Nat \ {0}, Len(s) = n, Len(r) = n - 1, \A i \in 1..(n - 1) : r[i] = s[i], Nests(s)
  PROVE  Nests(r)
  BY DEF Nests

\* What the innermost frame calls is a group of its steps, or a task that it lists.
LEMMA NestsCall ==
  ASSUME plan \in Plans, NEW s, NEW r, NEW n \in Nat \ {0}, Len(r) = n + 1, Nests(s), Len(s) = n,
         \A i \in 1..(n - 1) : s[i].phase \in Working => s[i].task \in Task,
         \A i \in 1..(n - 1) : r[i] = s[i],
         Names(r[n]) \subseteq Names(s[n]), r[n].phase \in Working => r[n] = s[n] /\ s[n].task \in Task,
         r[n + 1].names \in Seq(Task), r[n + 1].task = None,
         \/ /\ r[n].phase \in Working /\ ToSet(r[n + 1].names) \subseteq GroupedNow(r[n])
            /\ ToSet(r[n + 1].todo) \subseteq PrereqsOf(r[n + 1])
         \/ /\ r[n].phase \notin Working /\ r[n + 1].names = <<>>
            /\ \E t \in Names(s[n]) \cap Task : ToSet(r[n + 1].todo) = ToSet(Prereqs[t]) \cup {t}
  PROVE  Nests(r)
  <1> DEFINE f == r[n]  g == r[n + 1]
  <1>1. PICK q : Len(q) = n /\ \A i \in 1..n : q[i] = r[i]
    <2> DEFINE p == [i \in 1..n |-> r[i]]
    <2>1. Len(p) = n /\ \A i \in 1..n : p[i] = r[i]
      OBVIOUS
    <2> HIDE DEF p
    <2> QED
      BY <2>1
  <1>2. Nests(q)
    <2>1. Names(q[n]) \subseteq Names(s[n]) /\ \A i \in 1..(n - 1) : q[i] = s[i]
      BY <1>1
    <2> QED
      BY <1>1, <2>1, NestsOn
  <1>3. ASSUME NEW T, T \subseteq Task, NEW t \in Lead(T) PROVE ToSet(Prereqs[t]) \cup {t} \subseteq Lead(T)
    BY <1>3, LeadFacts, RefsFacts
  <1>4. CASE r[n].phase \in Working
    <2>1. GroupedNow(f) \subseteq Task
      BY <1>4, GroupLeads
    <2>2. GroupedNow(f) \subseteq Lead(GroupedNow(f))
      BY <2>1, LeadFacts
    <2>3. ToSet(g.names) \subseteq Lead(GroupedNow(f)) /\ ToSet(g.todo) \subseteq PrereqsOf(g)
      BY <1>4, <2>2
    <2>4. PrereqsOf(g) \subseteq Lead(GroupedNow(f))
      BY <1>3, <2>1, <2>3 DEF PrereqsOf
    <2>5. Names(g) \subseteq Lead(GroupedNow(f))
      BY <2>3, <2>4 DEF Names
    <2>6. ASSUME NEW i \in 1..(n - 1), r[i].phase \in Working PROVE Names(g) \subseteq Lead(GroupedNow(r[i]))
      <3>1. GroupedNow(r[i]) \subseteq Task
        BY <2>6, GroupLeads
      <3>2. Names(s[n]) \subseteq Lead(GroupedNow(s[i])) /\ s[i] = r[i]
        BY <2>6 DEF Nests
      <3>3. f.task \in Lead(GroupedNow(r[i]))
        BY <1>4, <3>2, ConstantsAssumption DEF Names
      <3>4. Lead(GroupedNow(f)) \subseteq Lead(GroupedNow(r[i]))
        BY <1>4, <3>1, <3>3, GroupLeads
      <3> QED
        BY <2>5, <3>4
    <2> QED
      <3> SUFFICES ASSUME NEW i \in 1..(n + 1), NEW j \in 1..(n + 1), i < j, r[i].phase \in Working
                   PROVE  Names(r[j]) \subseteq Lead(GroupedNow(r[i]))
        BY DEF Nests
      <3>1. CASE j = n + 1
        <4>1. i = n \/ i \in 1..(n - 1)
          BY <3>1
        <4> QED
          BY <2>5, <2>6, <3>1, <4>1
      <3>2. CASE j # n + 1
        BY <1>1, <1>2, <3>2 DEF Nests
      <3> QED
        BY <3>1, <3>2
  <1>5. CASE r[n].phase \notin Working
    <2>1. PICK t \in Names(s[n]) \cap Task : ToSet(g.todo) = ToSet(Prereqs[t]) \cup {t}
      BY <1>5
    <2>2. ASSUME NEW i \in 1..(n - 1), r[i].phase \in Working PROVE Names(g) \subseteq Lead(GroupedNow(r[i]))
      <3>1. GroupedNow(r[i]) \subseteq Task
        BY <2>2, GroupLeads
      <3>2. Names(s[n]) \subseteq Lead(GroupedNow(s[i])) /\ s[i] = r[i]
        BY <2>2 DEF Nests
      <3>3. ToSet(g.todo) \subseteq Lead(GroupedNow(r[i]))
        BY <1>3, <2>1, <3>1, <3>2
      <3> QED
        BY <1>5, <3>3, EmptyMembers DEF Names
    <2> QED
      <3> SUFFICES ASSUME NEW i \in 1..(n + 1), NEW j \in 1..(n + 1), i < j, r[i].phase \in Working
                   PROVE  Names(r[j]) \subseteq Lead(GroupedNow(r[i]))
        BY DEF Nests
      <3>1. CASE j = n + 1
        <4>1. i \in 1..(n - 1)
          BY <1>5, <3>1
        <4> QED
          BY <2>2, <3>1, <4>1
      <3>2. CASE j # n + 1
        BY <1>1, <1>2, <3>2 DEF Nests
      <3> QED
        BY <3>1, <3>2
  <1> QED
    BY <1>4, <1>5

LEMMA PlainNested ==
  ASSUME Threads, Nested, NEW h \in Alive, Plain(h)
  PROVE  Nested'
  <1>1. stack[h] # <<>> /\ PlainMove(h) /\ UNCHANGED plan /\ Keeps(h) /\ plan \in Plans
    BY PlainMoves, PlainDoes, MovesKeeps DEF Threads, TypeOK, Steps, Changes
  <1>2. PICK s, r, n : s = stack[h] /\ r = stack'[h] /\ n = Len(stack[h])
    OBVIOUS
  <1>3. /\ n \in Nat \ {0} /\ Top(h) = s[n] /\ \A i \in 1..(n - 1) : r[i] = s[i]
        /\ \A i \in 1..n : s[i].phase \in Working => s[i].task \in Task
    <2>1. \A i \in 1..n : Shaped(s[i])
      BY <1>2 DEF Threads, Shape, Frames
    <2> QED
      BY <1>1, <1>2, <2>1, StackFacts, TopFacts DEF Threads, Keeps, Outside, Shaped, Working
  <1>4. Top(h)' = r[Len(r)] /\ Nests(s)
    BY <1>2 DEF Top, Last, Nested
  <1>5. ASSUME NEW f, Rolls(h, f) PROVE Nests(r)
    BY <1>2, <1>3, <1>4, <1>5, NestsOn DEF Rolls, Goes
  <1>6. ASSUME NEW q, Leaves(h, q) PROVE Nests(r)
    BY <1>2, <1>3, <1>4, <1>6, NestsLess DEF Leaves, Pops
  <1>7. ASSUME NEW f, NEW g, Calls(h, f, g) PROVE Nests(r)
    <2>1. Len(r) = n + 1 /\ r[n] = f /\ r[n + 1] = g /\ g.names \in Seq(Task)
      BY <1>2, <1>3, <1>4, <1>7 DEF Calls, Pushes, Frame
    <2>2. Open(h) \subseteq Task
      BY DEF Open
    <2>3. /\ Names(f) \subseteq Names(s[n]) /\ (f.phase \in Working => f = s[n] /\ s[n].task \in Task)
          /\ g.task = None
          /\ \/ f.phase \in Working /\ ToSet(g.names) \subseteq GroupedNow(f) /\ ToSet(g.todo) \subseteq PrereqsOf(g)
             \/ /\ f.phase \notin Working /\ g.names = <<>>
                /\ \E t \in Names(s[n]) \cap Task : ToSet(g.todo) = ToSet(Prereqs[t]) \cup {t}
      BY <1>3, <1>7, <2>2 DEF Calls
    <2>4. Len(s) = n
      BY <1>2
    <2> QED
      BY <1>1, <1>3, <1>4, <2>1, <2>3, <2>4, NestsCall
  <1>8. Nests(stack[h])'
    <2>1. Nests(r)
      BY <1>1, <1>5, <1>6, <1>7 DEF PlainMove
    <2>2. Nests(r)'
      BY <1>1, <2>1, NestsKept
    <2> QED
      BY <1>2, <2>2
  <1>9. ASSUME NEW g \in Alive, g # h PROVE Nests(stack[g])'
    <2>1. PICK q : q = stack[g] /\ q = stack'[g]
      BY <1>1, <1>9 DEF Keeps, Outside
    <2> QED
      BY <1>1, <1>9, <2>1, NestsKept DEF Nested
  <1> QED
    BY <1>1, <1>8, <1>9 DEF Nested, Keeps

LEMMA NestsOne ==
  ASSUME NEW f
  PROVE  Nests(<<f>>) /\ Nests(<<>>)
  <1>1. Len(<<f>>) = 1 /\ Len(<<>>) = 0 /\ \A i, j \in 1..1 : ~(i < j)
    OBVIOUS
  <1>2. \A i \in 1..0 : FALSE
    OBVIOUS
  <1> QED
    BY <1>1, <1>2 DEF Nests

\* The innermost frame of h goes on as f, which lists what it did, and the other threads
\* that there were stay as they are.
LEMMA NestedOn ==
  ASSUME Threads, Nested, UNCHANGED plan, NEW h \in Alive, stack[h] # <<>>, Len(stack'[h]) = Len(stack[h]),
         \A i \in 1..(Len(stack[h]) - 1) : stack'[h][i] = stack[h][i],
         NEW f, Top(h)' = f, Names(f) \subseteq Names(Top(h)), NEW g, g = h \/ stack'[g] = stack[g], g \in Alive
  PROVE  Nests(stack[g])'
  <1>1. PICK s, r, n : s = stack[g] /\ r = stack'[g] /\ n = Len(stack[h])
    OBVIOUS
  <1>2. n \in Nat \ {0} /\ Top(h) = stack[h][n]
    BY <1>1, StackFacts, TopFacts DEF Threads
  <1>3. Nests(r)
    <2>1. CASE g = h
      <3>1. r[n] = f /\ s[n] = Top(h) /\ Nests(s)
        BY <1>1, <1>2, <2>1 DEF Top, Last, Nested
      <3> QED
        BY <1>1, <1>2, <2>1, <3>1, NestsOn
    <2>2. CASE g # h
      BY <1>1, <2>2 DEF Nested
    <2> QED
      BY <2>1, <2>2
  <1>4. Nests(r)'
    BY <1>3, NestsKept
  <1> QED
    BY <1>1, <1>4

LEMMA NestedNew ==
  ASSUME UNCHANGED plan, NEW g, NEW f, stack'[g] = <<f>>
  PROVE  Nests(stack[g])'
  <1>1. Nests(<<f>>)'
    BY NestsOne, NestsKept
  <1> QED
    BY <1>1

LEMMA ForkNested ==
  ASSUME Threads, Nested, NEW h \in Alive, Fork(h)
  PROVE  Nested'
  <1>1. ForkMoves(h) /\ UNCHANGED plan /\ stack[h] # <<>> /\ Alive' = Alive \cup Forked(h)
    BY ForkDoes, ForkRest, ForkFrame DEF Threads, ForkMoves
  <1>2. PICK g : g = Joining(h)
    OBVIOUS
  <1>3. Top(h)' = g /\ Names(g) \subseteq Names(Top(h))
    BY <1>1, <1>2, ForkFrame DEF Threads, ForkMoves, Names
  <1>4. ASSUME NEW w \in Alive PROVE Nests(stack[w])'
    <2>1. w = h \/ stack'[w] = stack[w]
      BY <1>1 DEF ForkMoves
    <2> QED
      BY <1>1, <1>3, <2>1, NestedOn DEF ForkMoves
  <1>5. ASSUME NEW w \in Forked(h) PROVE Nests(stack[w])'
    <2>1. PICK f : f = TaskFrame(Top(h).order, Last(w))
      OBVIOUS
    <2>2. stack'[w] = <<f>>
      BY <1>1, <2>1 DEF ForkMoves
    <2> QED
      BY <1>1, <2>2, NestedNew
  <1> QED
    BY <1>1, <1>4, <1>5 DEF Nested

LEMMA JoinNested ==
  ASSUME Threads, Nested, NEW h \in Alive, Join(h)
  PROVE  Nested'
  <1>1. JoinMoves(h) /\ UNCHANGED plan /\ stack[h] # <<>> /\ Alive' = Alive \ Workers(h)
    BY JoinDoes, JoinRest, JoinFrame, NotJoining DEF Threads, JoinMoves, At, Join, Ready
  <1>2. PICK g : g = Joined(h)
    OBVIOUS
  <1>3. Top(h)' = g /\ Names(g) \subseteq Names(Top(h))
    BY <1>1, <1>2, JoinFrame DEF Threads, JoinMoves, Names
  <1>4. ASSUME NEW w \in Alive' PROVE Nests(stack[w])'
    <2>1. w \in Alive /\ (w = h \/ stack'[w] = stack[w])
      BY <1>1 DEF JoinMoves
    <2> QED
      BY <1>1, <1>3, <2>1, NestedOn DEF JoinMoves
  <1> QED
    BY <1>4 DEF Nested

LEMMA NestedStep ==
  ASSUME Threads, Nested, [Next]_vars
  PROVE  Nested'
  <1>1. CASE UNCHANGED <<plan, stack>>
    <2>1. Alive' = Alive
      BY <1>1 DEF Alive
    <2>2. ASSUME NEW g \in Alive PROVE Nests(stack[g])'
      <3>1. PICK s : s = stack[g] /\ s = stack'[g]
        BY <1>1
      <3> QED
        BY <1>1, <2>2, <3>1, NestsKept DEF Nested
    <2> QED
      BY <2>1, <2>2 DEF Nested
  <1>2. CASE Invoke
    <2>1. PICK f : f = FirstFrame
      OBVIOUS
    <2>2. Alive' = {Main} /\ stack'[Main] = <<f>> /\ UNCHANGED plan
      BY <1>2, <2>1, InvokeMoves DEF Threads
    <2> QED
      BY <2>2, NestedNew DEF Nested
  <1>3. CASE Finish
    BY <1>1, <1>3 DEF Finish
  <1>4. ASSUME NEW t \in Task, Edit(t) PROVE Nested'
    BY <1>1, <1>4 DEF Edit, threads
  <1>5. CASE UNCHANGED vars
    BY <1>1, <1>5 DEF vars, threads
  <1> QED
    BY <1>2, <1>3, <1>4, <1>5, StepKinds, PlainNested, ForkNested, JoinNested DEF Next

LEMMA NestedInit ==
  ASSUME Init
  PROVE  Nested
  <1>1. Alive = {Main} /\ stack[Main] = <<>>
    BY DEF Init, JustMain, Alive
  <1> QED
    BY <1>1, NestsOne DEF Nested

-----------------------------------------------------------------------------
(* No body is started twice *)

\* What the body of f's task leads to.
Led(f) == Lead(Grouped(Body[f.task]))

\* The tasks of h's zone that could be started again, were they listed: their bodies were
\* started, but h works on none, and has no outcome for any.
Lost(h) ==
  {t \in Zone(h) \cap Open(h) : /\ starts[t] > 0 /\ t \notin Held(h)
                                /\ h # Main => t \notin memo[Front(h)].running}

\* An Err is on its way out of every body that leads to t; or one has left the body that
\* does, whose teardown is still run; or one was merged with t's branch, which is joined or
\* is yet to be.
LeavesWithErr(h, t) == ret[h] \in Err /\ \A f \in Frames(h) : f.phase = "body" => t \in Led(f)
TearsDownErr(h, t) == \E f \in Frames(h) : f.phase = "post" /\ f.code \in Err /\ t \in Led(f)
BranchIsOver(f, t) == \E k \in 1..Len(f.names) : t \in f.branches[k] /\ k < f.at /\ f.code \in Err
BranchIsRun(f, t) == \E k \in 1..Len(f.names) : t \in f.branches[k] /\ k \in InBatch(f)
Excused(h, t) ==
  \/ LeavesWithErr(h, t) \/ TearsDownErr(h, t)
  \/ (At(h, "fork") \/ At(h, "join")) /\ BranchIsOver(Top(h), t)
  \/ At(h, "join") /\ BranchIsRun(Top(h), t) /\ t \notin memo[h].running

Once == \A h \in Alive : \A t \in Lost(h) : Excused(h, t)

LEMMA LedKept ==
  ASSUME UNCHANGED plan, NEW f
  PROVE  Led(f)' = Led(f)
  <1>1. PICK S : S = Grouped(Body[f.task])
    OBVIOUS
  <1>2. Grouped(Body[f.task])' = S
    BY <1>1 DEF Body, Grouped
  <1> QED
    BY <1>1, <1>2, LeadSame DEF Led

LEMMA LedFacts ==
  ASSUME plan \in Plans, NEW f, f.task \in Task
  PROVE  Grouped(Body[f.task]) \subseteq Task /\ Led(f) \subseteq Lead({f.task})
  <1>1. Grouped(Body[f.task]) \subseteq Refs(f.task) /\ Refs(f.task) \subseteq Task
    BY RefsFacts
  <1>2. f.task \in Lead({f.task}) /\ {f.task} \subseteq Task
    BY LeadFacts
  <1>3. Grouped(Body[f.task]) \subseteq Lead({f.task})
    BY <1>1, <1>2, LeadFacts
  <1> QED
    BY <1>1, <1>2, <1>3, LeadIn DEF Led

\* What the innermost frame lists, every body outside leads to.
LEMMA TopLed ==
  ASSUME Threads, Nested, NEW h \in Alive, stack[h] # <<>>, NEW f \in Outer(h), f.phase \in Working
  PROVE  /\ f.task \in Task /\ GroupedNow(f) \subseteq Task /\ Names(Top(h)) \subseteq Lead(GroupedNow(f))
         /\ f.phase = "body" => GroupedNow(f) = Grouped(Body[f.task])
         /\ f.phase = "post" => GroupedNow(f) = Grouped(Post[f.task])
  <1>1. PICK i \in 1..(Len(stack[h]) - 1) : f = stack[h][i]
    BY DEF Outer
  <1>2. Top(h) = stack[h][Len(stack[h])] /\ Len(stack[h]) \in Nat \ {0} /\ f \in Frames(h) /\ plan \in Plans
    BY StackFacts, TopFacts DEF Threads, TypeOK
  <1>3. Shaped(f)
    BY <1>2 DEF Threads, Shape
  <1>4. f.task \in Task
    BY <1>3 DEF Shaped, Working
  <1>5. Names(Top(h)) \subseteq Lead(GroupedNow(f))
    <2>1. \A k, j \in 1..Len(stack[h]) : k < j /\ stack[h][k].phase \in Working
             => Names(stack[h][j]) \subseteq Lead(GroupedNow(stack[h][k]))
      BY DEF Nested, Nests
    <2>2. i \in 1..Len(stack[h]) /\ Len(stack[h]) \in 1..Len(stack[h]) /\ i < Len(stack[h])
      BY <1>2
    <2> QED
      BY <1>1, <1>2, <2>1, <2>2
  <1> QED
    <2>1. GroupedNow(f) \subseteq Task
      BY <1>2, <1>4, GroupLeads
    <2> QED
      BY <1>4, <1>5, <2>1 DEF GroupedNow

\* So every body outside leads to what a body that the innermost frame works on leads to,
\* and to its branches.
LEMMA TopLeadsOn ==
  ASSUME Threads, Nested, Zoned, NEW h \in Alive, stack[h] # <<>>, NEW f \in Outer(h), f.phase \in Working
  PROVE  /\ Top(h).task \in Task => Led(Top(h)) \subseteq Lead(GroupedNow(f))
         /\ At(h, "fork") \/ At(h, "join") =>
              \A k \in 1..Len(Top(h).names) : Top(h).branches[k] \subseteq Lead(GroupedNow(f))
  <1>1. /\ GroupedNow(f) \subseteq Task /\ Names(Top(h)) \subseteq Lead(GroupedNow(f)) /\ plan \in Plans
        /\ Top(h).names \in Seq(Task)
    BY TopLed, TopFacts DEF Threads, TypeOK
  <1>2. ASSUME NEW t \in Names(Top(h)) PROVE Lead({t}) \subseteq Lead(GroupedNow(f))
    BY <1>1, LeadIn
  <1>3. ASSUME Top(h).task \in Task PROVE Led(Top(h)) \subseteq Lead(GroupedNow(f))
    <2>1. Top(h).task \in Names(Top(h))
      BY <1>3, ConstantsAssumption DEF Names
    <2> QED
      BY <1>1, <1>2, <1>3, <2>1, LedFacts
  <1>4. ASSUME At(h, "fork") \/ At(h, "join"), NEW k \in 1..Len(Top(h).names)
        PROVE  Top(h).branches[k] \subseteq Lead(GroupedNow(f))
    <2>1. Top(h).branches[k] \subseteq Lead({Top(h).names[k]})
      BY <1>4 DEF Zoned, Divided, Divides
    <2>2. Top(h).names[k] \in Names(Top(h))
      BY <1>1, <1>4 DEF Names, ToSet
    <2> QED
      BY <1>2, <2>1, <2>2
  <1> QED
    BY <1>3, <1>4

\* What excuses a task still does after a step of the thread.
LEMMA PlainExcused ==
  ASSUME Threads, Nested, Zoned, NEW h \in Alive, stack[h] # <<>>, Top(h).phase # "join", PlainMove(h), UNCHANGED plan,
         NEW u, Excused(h, u)
  PROVE  Excused(h, u)'
  <1>1. /\ Frames(h) = Outer(h) \cup {Top(h)} /\ plan \in Plans /\ None \notin Err /\ ~At(h, "join")
        /\ Top(h).phase = "post" => Top(h).task \in Task
    BY StackFacts, TopFacts, RetNone, WorkFacts DEF Threads, At, TypeOK
  <1>2. \A f : Led(f)' = Led(f)
    BY LedKept
  <1>3. ASSUME NEW r, Leaves(h, r) PROVE Excused(h, u)'
    <2>1. Frames(h)' = Outer(h) /\ ret'[h] = r /\ (ret[h] \in Err => r \in Err)
      BY <1>3 DEF Leaves, Pops
    <2>2. ASSUME r \in Err, \A f \in Outer(h) : f.phase = "body" => u \in Led(f) PROVE Excused(h, u)'
      BY <1>2, <2>1, <2>2 DEF Excused, LeavesWithErr
    <2>3. CASE LeavesWithErr(h, u)
      BY <1>1, <2>1, <2>2, <2>3 DEF LeavesWithErr
    <2>4. CASE TearsDownErr(h, u)
      <3>1. PICK f \in Frames(h) : f.phase = "post" /\ f.code \in Err /\ u \in Led(f)
        BY <2>4 DEF TearsDownErr
      <3>2. CASE f \in Outer(h)
        BY <1>2, <2>1, <3>1, <3>2 DEF Excused, TearsDownErr
      <3>3. CASE f = Top(h)
        <4>1. r \in Err
          BY <1>3, <3>1, <3>3 DEF Leaves
        <4>2. \A e \in Outer(h) : e.phase = "body" => u \in Led(e)
          BY <1>1, <3>1, <3>3, TopLed, TopLeadsOn DEF Working, Led
        <4> QED
          BY <2>2, <4>1, <4>2
      <3> QED
        BY <1>1, <3>2, <3>3
    <2>5. CASE At(h, "fork") /\ BranchIsOver(Top(h), u)
      <3>1. r \in Err
        BY <1>3, <2>5 DEF Leaves, BranchIsOver, At
      <3>2. \A e \in Outer(h) : e.phase = "body" => u \in Led(e)
        BY <2>5, TopLed, TopLeadsOn DEF Working, Led, BranchIsOver
      <3> QED
        BY <2>2, <3>1, <3>2
    <2> QED
      BY <1>1, <2>3, <2>4, <2>5 DEF Excused
  <1>4. ASSUME NEW f, Rolls(h, f) PROVE Excused(h, u)'
    <2>1. Frames(h)' = Outer(h) \cup {f}
      BY <1>4 DEF Rolls, Goes
    <2>2. ~At(h, "fork")
      BY <1>4 DEF Rolls, At
    <2>3. CASE LeavesWithErr(h, u)
      <3>1. /\ Top(h).phase = "body" /\ f.phase = "post" /\ f.code \in Err /\ f.task = Top(h).task
        BY <1>4, <2>3 DEF LeavesWithErr, Rolls
      <3>2. u \in Led(f)
        BY <1>1, <2>3, <3>1 DEF LeavesWithErr, Led
      <3> QED
        BY <1>2, <2>1, <3>1, <3>2 DEF Excused, TearsDownErr
    <2>4. CASE TearsDownErr(h, u)
      <3>1. PICK e \in Frames(h) : e.phase = "post" /\ e.code \in Err /\ u \in Led(e)
        BY <2>4 DEF TearsDownErr
      <3>2. CASE e \in Outer(h)
        BY <1>2, <2>1, <3>1, <3>2 DEF Excused, TearsDownErr
      <3>3. CASE e = Top(h)
        <4>1. f.phase = "post" /\ f.code \in Err /\ f.task = e.task
          BY <1>4, <3>1, <3>3 DEF Rolls
        <4>2. u \in Led(f)
          BY <3>1, <4>1 DEF Led
        <4> QED
          BY <1>2, <2>1, <4>1, <4>2 DEF Excused, TearsDownErr
      <3> QED
        BY <1>1, <3>2, <3>3
    <2> QED
      BY <1>1, <2>2, <2>3, <2>4 DEF Excused
  <1>5. ASSUME NEW f, NEW g, Calls(h, f, g) PROVE Excused(h, u)'
    <2>1. Frames(h)' = Outer(h) \cup {f, g} /\ ret[h] \notin Err /\ ~At(h, "fork")
      BY <1>1, <1>5 DEF Calls, Pushes, At
    <2>2. PICK e \in Frames(h) : e.phase = "post" /\ e.code \in Err /\ u \in Led(e)
      BY <1>1, <2>1 DEF Excused, LeavesWithErr, TearsDownErr
    <2>3. e \in Frames(h)'
      BY <1>1, <1>5, <2>1, <2>2 DEF Calls, Working
    <2> QED
      BY <1>2, <2>2, <2>3 DEF Excused, TearsDownErr
  <1> QED
    BY <1>3, <1>4, <1>5 DEF PlainMove

LEMMA PlainStarts ==
  ASSUME Threads, NEW h \in Alive, Plain(h)
  PROVE  \/ starts' = starts
         \/ \E t \in Task : StartBody(h, t) /\ starts' = [starts EXCEPT ![t] = @ + 1] /\ t \in Held(h)'
  <1>1. CASE Elsewhere(h)
    BY <1>1 DEF Elsewhere
  <1>2. ASSUME NEW t \in Task, StartBody(h, t)
        PROVE  starts' = [starts EXCEPT ![t] = @ + 1] /\ t \in Held(h)'
    <2>1. PICK f : Goes(h, f) /\ f.task = t
      BY <1>2, StartBodyGoes DEF Threads
    <2> QED
      BY <1>2, <2>1 DEF StartBody, Goes, Held
  <1>3. ASSUME Work(h), \A t \in Task : ~StartBody(h, t) PROVE starts' = starts
    BY <1>3 DEF Work, BodyCommand, BodyGroup, BodyGroupReturns, EndOfBody, PostCommand, PostGroup, PostGroupReturns,
                EndWithError, EndWithFailure, EndWithSuccess, RecordFails, history
  <1> QED
    BY <1>1, <1>2, <1>3, PlainKinds

\* A thread's parent is another thread.
LEMMA ParentApart ==
  ASSUME Threads, NEW g \in Alive, g # Main
  PROVE  Front(g) \in Alive /\ Front(g) # g /\ At(Front(g), "join")
  <1>1. g \in Thread /\ Front(g) \in Thread /\ Front(g) \in Alive /\ Below(Front(g), g) /\ At(Front(g), "join")
    BY ParentFacts DEF Threads, TypeOK, At
  <1> QED
    BY <1>1, BelowFront

\* What a step of h loses, h is excused for.
LEMMA PlainOnceSelf ==
  ASSUME Threads, Known, Zoned, Nested, Once, NEW h \in Alive, Plain(h), NEW u \in Lost(h)'
  PROVE  Excused(h, u)'
  <1>1. /\ stack[h] # <<>> /\ Top(h).phase # "join" /\ PlainMove(h) /\ UNCHANGED plan /\ Keeps(h) /\ ~At(h, "join")
        /\ Open(h)' \subseteq Open(h) /\ \A g \in Alive \ {h} : memo'[g] = memo[g]
    BY PlainMoves, PlainOpen
  <1>2. Zone(h)' = Zone(h) /\ (h # Main => memo'[Front(h)] = memo[Front(h)])
    BY <1>1, ZoneKept, ParentApart
  <1>3. /\ u \in Zone(h) /\ u \in Open(h)' /\ u \in Open(h) /\ starts'[u] > 0 /\ u \notin Held(h)' /\ u \in Task
        /\ h # Main => u \notin memo[Front(h)].running
    BY <1>1, <1>2 DEF Lost, Open
  <1>4. starts[u] > 0
    BY <1>3, PlainStarts, ZenonT(60) DEF Threads, TypeOK
  <1>5. CASE u \notin Held(h)
    BY <1>1, <1>2, <1>3, <1>4, <1>5, PlainExcused DEF Once, Lost
  <1>6. CASE u \in Held(h)
    <2>1. /\ Frames(h) = Outer(h) \cup {Top(h)} /\ Outer(h) \subseteq Frames(h)' /\ Shaped(Top(h))
      BY <1>1, StackFacts, TopFacts DEF Threads, PlainMove, Rolls, Goes, Calls, Pushes, Leaves, Pops
    <2>2. Top(h).task = u
      BY <1>3, <1>6, <2>1 DEF Held
    <2>3. Top(h).phase \in Working
      BY <1>3, <2>1, <2>2, NoTaskNow, ConstantsAssumption
    <2>4. ASSUME NEW f, Rolls(h, f) PROVE FALSE
      <3>1. f.task = u
        BY <1>3, <2>2, <2>4 DEF Rolls
      <3> QED
        BY <1>3, <2>4, <3>1 DEF Rolls, Goes, Held
    <2>5. ASSUME NEW f, NEW g, Calls(h, f, g) PROVE FALSE
      <3>1. f.task = u
        BY <2>2, <2>3, <2>5 DEF Calls
      <3> QED
        BY <1>3, <2>5, <3>1 DEF Calls, Pushes, Held
    <2>6. PICK r : Leaves(h, r)
      BY <1>1, <2>4, <2>5 DEF PlainMove
    <2>7. r \in Err /\ ret'[h] = r /\ Frames(h)' = Outer(h)
      BY <1>3, <2>2, <2>3, <2>6 DEF Leaves, Pops, Working
    <2>8. ASSUME NEW f \in Outer(h), f.phase = "body" PROVE u \in Led(f)
      <3>1. u \in Names(Top(h))
        BY <1>3, <2>2, ConstantsAssumption DEF Names
      <3> QED
        BY <1>1, <2>8, <3>1, TopLed DEF Working, Led
    <2> QED
      BY <1>1, <2>7, <2>8, LedKept DEF Excused, LeavesWithErr
  <1> QED
    BY <1>5, <1>6

\* A thread that stays as it is, with the same zone and parent, loses nothing new but what
\* is started elsewhere.
LEMMA ExcusedSame ==
  ASSUME UNCHANGED plan, NEW g, stack'[g] = stack[g], ret'[g] = ret[g], memo'[g] = memo[g], NEW u
  PROVE  Excused(g, u)' <=> Excused(g, u)
  <1>1. Frames(g)' = Frames(g) /\ Top(g)' = Top(g) /\ \A p : At(g, p)' <=> At(g, p)
    BY DEF Frames, Top, At
  <1>2. \A f : Led(f)' = Led(f)
    BY LedKept
  <1> QED
    BY <1>1, <1>2 DEF Excused, LeavesWithErr, TearsDownErr, BranchIsOver, BranchIsRun, InBatch

\* What h starts is in the branch of every thread that waits for h, and in no other zone.
LEMMA StartedElsewhere ==
  ASSUME Threads, Known, Zoned, NEW h \in Alive, NEW t \in Task, StartBody(h, t), NEW g \in Alive, g # h, t \in Zone(g)
  PROVE  Excused(g, t)
  <1>1. /\ stack[h] # <<>> /\ Top(h).todo # <<>> /\ Head(Top(h).todo) = t /\ Completed(h, t) = None
        /\ t \notin memo[h].running /\ Top(h).phase = "next"
    BY TakesFacts DEF StartBody, Decides, Threads
  <1>2. t \in Zone(h)
    <2>1. Top(h) \in Frames(h) /\ t \in ToSet(Top(h).todo)
      BY <1>1, TopFacts, HeadTailMembers DEF Threads
    <2> QED
      BY <1>1, <2>1 DEF Zoned, Inside, Names, Open
  <1>3. Below(g, h)
    <2>1. ~Below(h, g)
      BY <1>1, NotJoining DEF Threads, At
    <2> QED
      BY <1>2, <2>1, ZonesApart
  <1>4. \A w \in Alive : w \in Thread
    BY DEF Threads, TypeOK
  <1>5. \E v \in Thread : v # <<>> /\ Front(v) = g /\ (v = h \/ Below(v, h))
    BY <1>3, <1>4, BelowByOne, BelowFront
  <1>6. PICK v \in Thread : v # <<>> /\ Front(v) = g /\ (v = h \/ Below(v, h))
    BY <1>5
  <1>7. v \in Alive /\ v # Main /\ t \in Zone(v)
    BY <1>2, <1>6, ZonesNest DEF Threads, Tree, Main
  <1>8. PICK i \in InBatch(Top(g)) : i \in 1..Len(Top(g).names) /\ Branch(v) = Top(g).branches[i]
    BY <1>6, <1>7, BranchIs DEF Zoned
  <1>9. t \notin memo[g].running
    BY <1>1, <1>3, ZonesNest
  <1>10. At(g, "join")
    BY <1>3, <1>4 DEF Threads, Tree
  <1> QED
    BY <1>7, <1>8, <1>9, <1>10 DEF Excused, BranchIsRun, Zone

LEMMA PlainOnce ==
  ASSUME Threads, Known, Zoned, Nested, Once, NEW h \in Alive, Plain(h)
  PROVE  Once'
  <1>1. Keeps(h) /\ UNCHANGED plan /\ ~At(h, "join") /\ \A g \in Alive \ {h} : memo'[g] = memo[g]
    BY PlainOpen
  <1>2. ASSUME NEW g \in Alive, g # h, NEW u \in Lost(g)' PROVE Excused(g, u)'
    <2>1. stack'[g] = stack[g] /\ memo'[g] = memo[g] /\ ret'[g] = ret[g] /\ Zone(g)' = Zone(g)
      BY <1>1, <1>2, ZoneKept DEF Keeps, Outside
    <2>2. g # Main => memo'[Front(g)] = memo[Front(g)]
      BY <1>1, <1>2, ParentApart
    <2>3. Held(g)' = Held(g) /\ Open(g)' = Open(g)
      BY <2>1 DEF Held, Frames, Open, Completed
    <2>4. /\ u \in Zone(g) /\ u \in Open(g) /\ u \notin Held(g) /\ starts'[u] > 0 /\ u \in Task
          /\ g # Main => u \notin memo[Front(g)].running
      BY <1>2, <2>1, <2>2, <2>3 DEF Lost, Open
    <2>5. CASE starts[u] > 0
      BY <1>1, <1>2, <2>1, <2>4, <2>5, ExcusedSame DEF Once, Lost
    <2>6. CASE ~(starts[u] > 0)
      <3>1. StartBody(h, u)
        BY <2>4, <2>6, PlainStarts, ZenonT(60) DEF Threads, TypeOK
      <3>2. Excused(g, u)
        BY <1>2, <2>4, <3>1, StartedElsewhere
      <3> QED
        BY <1>1, <2>1, <3>2, ExcusedSame
    <2> QED
      BY <2>5, <2>6
  <1>3. Alive' = Alive
    BY <1>1 DEF Keeps
  <1> QED
    BY <1>2, <1>3, PlainOnceSelf DEF Once

\* What a body leads to, its teardown does not.
LEMMA ApartNow ==
  ASSUME plan \in Plans, TeardownApart(plan), NEW t \in Task
  PROVE  Lead(Grouped(Body[t])) \cap Lead(Grouped(Post[t])) = {}
  <1> DEFINE Leads(v) == ToSet(plan.prereqs[v]) \cup Grouped(plan.body[v]) \cup Grouped(plan.post[v])
  <1>1. ASSUME NEW v \in Task PROVE Refs(v) \subseteq Leads(v)
    <2>1. Body[v] \in Seq(Step) /\ Post[v] \in Seq(Step)
      BY PlanTypes
    <2>2. ToSet(Body[v] \o Post[v]) = ToSet(Body[v]) \cup ToSet(Post[v])
      BY <2>1, StepMembers
    <2>3. Refs(v) \subseteq ToSet(Prereqs[v]) \cup Grouped(Body[v]) \cup Grouped(Post[v])
      BY <2>2 DEF Refs, Groups, Grouped
    <2> QED
      BY <2>3 DEF Prereqs, Body, Post
  <1>2. \A u \in Task : Within(Grouped(plan.body[u]), Leads) \cap Within(Grouped(plan.post[u]), Leads) = {}
    BY DEF TeardownApart
  <1>3. ASSUME NEW S, NEW u \in Lead(S) PROVE u \in Within(S, Leads)
    <2>1. \A T \in SUBSET Task : (\A v \in T : Leads(v) \subseteq T) => \A v \in T : Refs(v) \subseteq T
      BY <1>1
    <2> HIDE DEF Leads
    <2> QED
      BY <1>3, <2>1 DEF Lead, Within
  <1> HIDE DEF Leads
  <1> QED
    BY <1>2, <1>3 DEF Body, Post

\* So what every body outside leads to now is none of what a teardown outside gave up.
LEMMA NoTeardown ==
  ASSUME Threads, Nested, TeardownApart(plan), NEW h \in Alive, stack[h] # <<>>, Top(h).phase # "post", NEW t,
         \A f \in Outer(h) : f.phase \in Working => t \in Lead(GroupedNow(f))
  PROVE  ~TearsDownErr(h, t)
  <1> SUFFICES ASSUME NEW f \in Frames(h), f.phase = "post", t \in Led(f) PROVE FALSE
    BY DEF TearsDownErr
  <1>1. f \in Outer(h) /\ plan \in Plans
    BY StackFacts, TopFacts DEF Threads
  <1>2. f.task \in Task /\ t \in Lead(Grouped(Post[f.task]))
    BY <1>1, TopLed DEF Working
  <1> QED
    BY <1>1, <1>2, ApartNow DEF Led

\* A thread that is forked has lost nothing.
LEMMA ForkNewOnce ==
  ASSUME Threads, Known, Zoned, Nested, Once, TeardownApart(plan), NEW h \in Alive, Fork(h), NEW w \in Forked(h)
  PROVE  Lost(w)' = {}
  <1> SUFFICES ASSUME NEW u \in Lost(w)' PROVE FALSE
    OBVIOUS
  <1>1. /\ ForkMoves(h) /\ stack[h] # <<>> /\ Top(h).phase = "fork" /\ At(h, "fork") /\ ~At(h, "join") /\ starts' = starts
        /\ ret[h] = None /\ None \notin Err
    BY ForkDoes, ForkFrame, ForkRest, RetNone DEF Threads, At, history
  <1>2. Front(w) = h /\ w # Main /\ memo'[h] = memo[h] /\ memo'[w] = memo[h]
    BY <1>1, ForkedFacts DEF Threads, ForkMoves, Ready
  <1>3. PICK i \in 1..Len(Top(h).names) : i \in InBatch(Top(h)) /\ Zone(w)' = Top(h).branches[i]
    BY ForkedZone
  <1>4. u \in Top(h).branches[i] /\ u \in Open(h) /\ starts[u] > 0 /\ u \notin memo[h].running /\ u \in Task
    BY <1>1, <1>2, <1>3 DEF Lost, Open, Completed
  <1>5. Divides(Top(h), Zone(h), Open(h))
    BY <1>1 DEF Zoned, Divided
  <1>6. u \in Lost(h)
    <2>1. u \in Zone(h)
      BY <1>3, <1>4, <1>5 DEF Divides
    <2>2. u \notin Held(h)
      BY <1>4 DEF Known, KnowsOwn
    <2>3. h # Main => u \notin memo[Front(h)].running
      BY <1>4 DEF Known, Inherits
    <2> QED
      BY <1>4, <2>1, <2>2, <2>3 DEF Lost
  <1>7. ~TearsDownErr(h, u)
    BY <1>1, <1>3, <1>4, NoTeardown, TopLeadsOn
  <1>8. ~BranchIsOver(Top(h), u)
    <2> SUFFICES ASSUME NEW k \in 1..Len(Top(h).names), u \in Top(h).branches[k], k < Top(h).at PROVE FALSE
      BY DEF BranchIsOver
    <2>1. k # i
      BY <1>1, <1>3, TopFacts DEF InBatch, Threads
    <2> QED
      BY <1>3, <1>4, <1>5, <2>1 DEF Divides
  <1> QED
    BY <1>1, <1>6, <1>7, <1>8 DEF Once, Excused, LeavesWithErr

LEMMA ForkOnce ==
  ASSUME Threads, Known, Zoned, Nested, Once, TeardownApart(plan), NEW h \in Alive, Fork(h)
  PROVE  Once'
  <1>1. /\ ForkMoves(h) /\ UNCHANGED plan /\ ~At(h, "join") /\ At(h, "fork") /\ Alive' = Alive \cup Forked(h)
        /\ starts' = starts /\ ret[h] = None /\ None \notin Err /\ stack[h] # <<>>
    BY ForkDoes, ForkRest, ForkFrame, RetNone DEF Threads, At, ForkMoves, history
  <1>2. ASSUME NEW g \in Alive
        PROVE  /\ Zone(g)' = Zone(g) /\ memo'[g] = memo[g] /\ Open(g)' = Open(g)
               /\ g # Main => Front(g) # h /\ memo'[Front(g)] = memo[Front(g)]
    <2>1. g # Main => Front(g) \in Alive \ {h}
      BY <1>1, <1>2, NotJoining, ParentFacts DEF Threads
    <2>2. g # Main => Top(Front(g))' = Top(Front(g))
      BY <1>1, <2>1 DEF ForkMoves, Top
    <2>3. memo'[g] = memo[g] /\ Open(g)' = Open(g)
      BY <1>1, <1>2 DEF ForkMoves, Open, Completed
    <2>4. Zone(g)' = Zone(g)
      BY <2>2, ZoneSame
    <2> QED
      BY <1>1, <2>1, <2>3, <2>4 DEF ForkMoves
  <1>3. ASSUME NEW g \in Alive, g # h, NEW u \in Lost(g)' PROVE Excused(g, u)'
    <2>1. stack'[g] = stack[g] /\ ret'[g] = ret[g] /\ Held(g)' = Held(g)
      BY <1>1, <1>3 DEF ForkMoves, Held
    <2>2. u \in Lost(g)
      BY <1>1, <1>2, <1>3, <2>1 DEF Lost
    <2> QED
      BY <1>1, <1>2, <1>3, <2>1, <2>2, ExcusedSame DEF Once
  <1>4. ASSUME NEW u \in Lost(h)' PROVE Excused(h, u)'
    <2>1. PICK f : f = Top(h)
      OBVIOUS
    <2>2. PICK g : g = Joining(h)
      OBVIOUS
    <2>3. /\ g.phase = "join" /\ g.names = f.names /\ g.at = f.at /\ g.branches = f.branches /\ g.code = f.code
          /\ g.task = f.task /\ f.phase = "fork"
      BY <1>1, <2>1, <2>2, ForkFrame DEF Threads
    <2>4. /\ Frames(h) = Outer(h) \cup {f} /\ Frames(h)' = Outer(h) \cup {g} /\ Top(h)' = g /\ stack'[h] # <<>>
      BY <1>1, <2>1, <2>2, StackFacts, TopFacts DEF Threads, ForkMoves
    <2>5. Held(h)' = Held(h)
      BY <2>3, <2>4 DEF Held
    <2>6. Excused(h, u)
      BY <1>1, <1>2, <1>4, <2>5 DEF Lost, Once
    <2>7. CASE TearsDownErr(h, u)
      BY <1>1, <2>3, <2>4, <2>7, LedKept DEF TearsDownErr, Excused
    <2>8. CASE BranchIsOver(f, u)
      <3>1. BranchIsOver(g, u)
        BY <2>3, <2>8 DEF BranchIsOver
      <3> QED
        BY <2>3, <2>4, <3>1 DEF Excused, At, BranchIsOver
    <2> QED
      BY <1>1, <2>1, <2>6, <2>7, <2>8 DEF Excused, LeavesWithErr
  <1> QED
    BY <1>1, <1>3, <1>4, ForkNewOnce DEF Once

LEMMA MergeErr ==
  ASSUME NEW first, NEW results, DOMAIN results \subseteq Nat
  PROVE  /\ first \in Err => Merge(first, results) = first
         /\ \A k \in DOMAIN results : results[k] \in Err => Merge(first, results) \in Err
  <1> DEFINE errors == {i \in DOMAIN results : results[i] \in Err}
  <1>1. ASSUME NEW k \in DOMAIN results, results[k] \in Err PROVE results[Min(errors)] \in Err
    <2>1. errors \subseteq Nat /\ errors # {}
      BY <1>1
    <2>2. Min(errors) \in errors
      BY <2>1, MinExists
    <2> QED
      BY <2>2
  <1> QED
    BY <1>1 DEF Merge

\* A task of a branch that is joined, which the branch's thread has lost, ended with an Err.
LEMMA JoinsErr ==
  ASSUME Threads, Known, Zoned, Once, NEW h \in Alive, Join(h), NEW u \in Lost(h), u \notin memo[h].running,
         u \in Open(h)', NEW k \in 1..Len(Top(h).names), k \in InBatch(Top(h)), u \in Top(h).branches[k]
  PROVE  Results(h)[k] \in Err
  <1>1. /\ At(h, "join") /\ Divides(Top(h), Zone(h), Open(h)) /\ Manned(h) /\ h \in Thread
        /\ \A t \in Task : Completed(h, t)' = Completed(Owner(h, t), t)
        /\ \A w \in Workers(h) : stack[w] = <<>>
    BY JoinFrame, JoinLearns DEF Threads, TypeOK, At, Zoned, Divided
  <1>2. Top(h).names[k] \in Top(h).branches[k] /\ Top(h).names[k] \in Open(h) /\ Top(h).names[k] \in Task
    BY <1>1 DEF Divides, InBatch, Open
  <1>3. PICK w : w = Append(h, Top(h).names[k])
    OBVIOUS
  <1>4. w \in Alive /\ w \in Workers(h) /\ w # Main /\ Front(w) = h /\ Last(w) = Top(h).names[k]
    <2>1. w # Main /\ Front(w) = h /\ Last(w) = Top(h).names[k]
      BY <1>1, <1>2, <1>3, ThreadAppend DEF Main
    <2>2. w \in Alive
      BY <1>1, <1>2, <1>3 DEF Manned, Open
    <2> QED
      BY <2>1, <2>2 DEF Workers
  <1>5. /\ Owner(h, u) = w \/ u \notin Zone(w)
        /\ \E i \in InBatch(Top(h)) : /\ i \in 1..Len(Top(h).names) /\ Top(h).names[i] = Last(w)
                                      /\ Zone(w) = Top(h).branches[i]
    BY <1>4, OwnerIs
  <1>6. u \in Zone(w) /\ Owner(h, u) = w
    <2>1. PICK i \in 1..Len(Top(h).names) : Top(h).names[i] = Top(h).names[k] /\ Zone(w) = Top(h).branches[i]
      BY <1>4, <1>5
    <2>2. {Top(h).names[i]} \cap Open(h) \subseteq Top(h).branches[i]
      BY <1>1 DEF Divides
    <2>3. Top(h).names[k] \in Top(h).branches[i] \cap Top(h).branches[k]
      BY <1>2, <2>1, <2>2
    <2>4. i = k
      BY <1>1, <2>3 DEF Divides
    <2> QED
      BY <1>5, <2>1, <2>4
  <1>7. u \in Lost(w)
    <2>1. u \in Open(w) /\ starts[u] > 0
      BY <1>1, <1>6 DEF Open, Lost
    <2>2. Held(w) = {}
      BY <1>1, <1>4, NoFrames
    <2> QED
      BY <1>4, <1>6, <2>1, <2>2 DEF Lost
  <1>8. stack[w] = <<>> /\ ret[w] \in Err
    <2>1. stack[w] = <<>> /\ Frames(w) = {} /\ Excused(w, u)
      BY <1>1, <1>4, <1>7, NoFrames DEF Once
    <2> QED
      BY <2>1 DEF Excused, LeavesWithErr, TearsDownErr, At
  <1> QED
    BY <1>3, <1>4, <1>8 DEF Results, ResultOf

LEMMA JoinOnce ==
  ASSUME Threads, Known, Zoned, Nested, Once, NEW h \in Alive, Join(h)
  PROVE  Once'
  <1>1. /\ JoinMoves(h) /\ UNCHANGED plan /\ starts' = starts /\ h \in Alive' /\ None \notin Err
        /\ memo'[h].running = memo[h].running /\ Held(h)' = Held(h)
        /\ \A t \in Task : Completed(h, t) # None => Completed(h, t)' = Completed(h, t)
    BY JoinLearns, RetNone DEF JoinMoves, Join, history
  <1>2. ASSUME NEW g \in Alive'
        PROVE  /\ g \in Alive /\ Zone(g)' = Zone(g)
               /\ g # Main => Front(g) # h /\ memo'[Front(g)] = memo[Front(g)]
    BY <1>1, <1>2, JoinZones DEF JoinMoves
  <1>3. ASSUME NEW g \in Alive', g # h, NEW u \in Lost(g)' PROVE Excused(g, u)'
    <2>1. stack'[g] = stack[g] /\ ret'[g] = ret[g] /\ memo'[g] = memo[g] /\ Held(g)' = Held(g) /\ Open(g)' = Open(g)
      BY <1>1, <1>3 DEF JoinMoves, Held, Open, Completed
    <2>2. u \in Lost(g)
      BY <1>1, <1>2, <1>3, <2>1 DEF Lost
    <2> QED
      BY <1>1, <1>2, <1>3, <2>1, <2>2, ExcusedSame DEF Once
  <1>4. ASSUME NEW u \in Lost(h)' PROVE Excused(h, u)'
    <2>1. PICK f : f = Top(h)
      OBVIOUS
    <2>2. PICK g : g = Joined(h)
      OBVIOUS
    <2>3. /\ g.phase = "fork" /\ g.names = f.names /\ g.at = f.at + Batch /\ g.branches = f.branches
          /\ g.code = Merge(f.code, Results(h)) /\ g.task = f.task /\ f.phase = "join" /\ stack[h] # <<>> /\ ret[h] = None
      BY <2>1, <2>2, JoinFrame DEF Threads
    <2>4. /\ Frames(h) = Outer(h) \cup {f} /\ Frames(h)' = Outer(h) \cup {g} /\ Top(h)' = g /\ stack'[h] # <<>>
          /\ f.at \in Nat
      BY <1>1, <2>1, <2>2, <2>3, StackFacts, TopFacts DEF Threads, JoinMoves
    <2>5. u \in Lost(h) /\ Excused(h, u) /\ u \in Open(h)'
      <3>1. u \in Open(h)
        BY <1>1, <1>4 DEF Lost, Open
      <3> QED
        BY <1>1, <1>2, <1>4, <3>1 DEF Lost, Once
    <2>6. CASE TearsDownErr(h, u)
      BY <1>1, <2>3, <2>4, <2>6, LedKept DEF TearsDownErr, Excused
    <2>7. InBatch(f) \subseteq Nat /\ DOMAIN Results(h) = InBatch(f) /\ Batch \in Nat \ {0}
      BY <2>1, <2>3, TopFacts, ConstantsAssumption DEF InBatch, Results, Threads
    <2>8. ASSUME BranchIsOver(g, u) PROVE Excused(h, u)'
      BY <2>3, <2>4, <2>8 DEF Excused, At, BranchIsOver
    <2>9. CASE BranchIsOver(f, u)
      <3>1. g.code \in Err
        BY <2>3, <2>7, <2>9, MergeErr DEF BranchIsOver
      <3>2. ASSUME NEW k \in 1..Len(f.names), k < f.at PROVE k < g.at
        BY <2>3, <2>4, <2>7, <3>2
      <3> QED
        BY <2>3, <2>8, <2>9, <3>1, <3>2 DEF BranchIsOver
    <2>10. CASE BranchIsRun(f, u) /\ u \notin memo[h].running
      <3>1. PICK k \in 1..Len(f.names) : u \in f.branches[k] /\ k \in InBatch(f)
        BY <2>10 DEF BranchIsRun
      <3>2. Results(h)[k] \in Err
        BY <2>1, <2>5, <2>10, <3>1, JoinsErr
      <3>3. g.code \in Err
        BY <2>3, <2>7, <3>1, <3>2, MergeErr
      <3>4. k < g.at
        BY <2>3, <3>1 DEF InBatch
      <3> QED
        BY <2>3, <2>8, <3>1, <3>3, <3>4 DEF BranchIsOver
    <2> QED
      BY <1>1, <2>1, <2>3, <2>5, <2>6, <2>9, <2>10 DEF Excused, LeavesWithErr, At
  <1> QED
    BY <1>2, <1>3, <1>4 DEF Once

\* A body that is started was not started before in this run.
LEMMA StartsAnew ==
  ASSUME Threads, Known, Zoned, Nested, Once, TeardownApart(plan), NEW h \in Alive, NEW t \in Task, StartBody(h, t)
  PROVE  starts[t] = 0
  <1> SUFFICES ASSUME starts[t] > 0 PROVE FALSE
    BY DEF Threads, TypeOK
  <1>1. /\ stack[h] # <<>> /\ Top(h).todo # <<>> /\ Head(Top(h).todo) = t /\ Completed(h, t) = None
        /\ t \notin memo[h].running /\ Top(h).phase = "next" /\ ret[h] = None /\ None \notin Err
    BY TakesFacts, RetNone DEF StartBody, Decides, Threads
  <1>2. t \in Names(Top(h)) /\ t \in Open(h) /\ Top(h) \in Frames(h)
    BY <1>1, TopFacts, HeadTailMembers DEF Names, Open, Threads
  <1>3. t \in Lost(h)
    <2>1. t \in Zone(h)
      BY <1>2 DEF Zoned, Inside
    <2>2. t \notin Held(h)
      BY <1>1 DEF Known, KnowsOwn
    <2>3. h # Main => t \notin memo[Front(h)].running
      BY <1>1 DEF Known, Inherits
    <2> QED
      BY <1>2, <2>1, <2>2, <2>3 DEF Lost
  <1>4. ~TearsDownErr(h, t)
    BY <1>1, <1>2, NoTeardown, TopLed
  <1> QED
    BY <1>1, <1>3, <1>4 DEF Once, Excused, LeavesWithErr, At

\* Between runs, starts tells of the last one.
OnceNow == ~Idle => Once

LEMMA OnceKept ==
  ASSUME Once, UNCHANGED <<plan, stack, ret, memo, starts>>
  PROVE  Once'
  <1>1. ASSUME NEW h \in Alive, NEW u \in Lost(h)' PROVE Excused(h, u)'
    <2>1. u \in Lost(h)
      BY <1>1 DEF Lost, Zone, Branch, InBatch, Top, Open, Completed, Held, Frames
    <2> QED
      BY <1>1, <2>1, ExcusedSame DEF Once
  <1>2. Alive' = Alive
    BY DEF Alive
  <1> QED
    BY <1>1, <1>2 DEF Once

LEMMA OnceNowStep ==
  ASSUME Threads, Known, Zoned, Nested, OnceNow, TeardownApart(plan), [Next]_vars
  PROVE  OnceNow'
  <1>1. CASE Invoke
    <2>1. starts' = [t \in Task |-> 0]
      BY <1>1 DEF Invoke
    <2>2. \A h : Lost(h)' = {}
      BY <2>1 DEF Lost, Open
    <2> QED
      BY <2>2 DEF Once, OnceNow
  <1>2. CASE Finish
    BY <1>2 DEF Finish, Ended, Idle, OnceNow, Threads, TypeOK
  <1>3. ASSUME NEW t \in Task, Edit(t) PROVE OnceNow'
    BY <1>3, OnceKept DEF Edit, threads, history, OnceNow, Idle
  <1>4. CASE UNCHANGED vars
    BY <1>4, OnceKept DEF vars, threads, history, OnceNow, Idle
  <1>5. ASSUME NEW h \in Alive, Plain(h) \/ Fork(h) \/ Join(h) PROVE Once'
    <2>1. stack[h] # <<>>
      BY <1>5, PlainMoves, ForkFrame, JoinFrame DEF Threads
    <2>2. ~Idle
      BY <2>1, MainAlone DEF Threads, Idle
    <2>3. Once
      BY <2>2 DEF OnceNow
    <2> QED
      BY <1>5, <2>3, PlainOnce, ForkOnce, JoinOnce
  <1> QED
    BY <1>1, <1>2, <1>3, <1>4, <1>5, StepKinds DEF Next, OnceNow

LEMMA OncePerRunStep ==
  ASSUME Threads, Known, Zoned, Nested, OnceNow, TeardownApart(plan), OncePerRun, [Next]_vars
  PROVE  OncePerRun'
  <1>1. starts \in [Task -> Nat]
    BY DEF Threads, TypeOK
  <1>2. CASE Invoke
    BY <1>2 DEF Invoke, OncePerRun
  <1>3. ASSUME starts' = starts PROVE OncePerRun'
    BY <1>3 DEF OncePerRun
  <1>4. ASSUME NEW h \in Alive, NEW t \in Task, StartBody(h, t), starts' = [starts EXCEPT ![t] = @ + 1]
        PROVE  OncePerRun'
    <2>1. stack[h] # <<>>
      BY <1>4, TakesFacts DEF StartBody, Decides, Threads
    <2>2. Once
      BY <2>1, MainAlone DEF Threads, Idle, OnceNow
    <2>3. starts[t] = 0
      BY <1>4, <2>2, StartsAnew
    <2> QED
      BY <1>1, <1>4, <2>3 DEF OncePerRun
  <1>5. ASSUME NEW h \in Alive, Plain(h) PROVE OncePerRun'
    BY <1>3, <1>4, <1>5, PlainStarts
  <1>6. ASSUME NEW h \in Alive, Fork(h) \/ Join(h) PROVE OncePerRun'
    BY <1>3, <1>6 DEF Fork, Join, history
  <1>7. CASE Finish \/ (\E t \in Task : Edit(t)) \/ UNCHANGED vars
    BY <1>3, <1>7 DEF Finish, Edit, vars, history
  <1> QED
    BY <1>2, <1>5, <1>6, <1>7, StepKinds DEF Next

LEMMA PlanStays ==
  ASSUME Threads, Known, [Next]_vars
  PROVE  UNCHANGED plan
  <1>1. ASSUME NEW h \in Alive, Plain(h) \/ Fork(h) \/ Join(h) PROVE UNCHANGED plan
    BY <1>1, PlainOpen DEF Fork, Join
  <1> QED
    BY <1>1, StepKinds DEF Next, Invoke, Finish, Edit, vars

LEMMA OnceInit ==
  ASSUME Init
  PROVE  OnceNow /\ OncePerRun
  BY DEF Init, JustMain, Idle, OnceNow, OncePerRun

\* If in every plan a task comes after what is listed for it, or a `wait_for` keeps groups
\* from forking, and no task has a body and a teardown that group what leads to the same
\* task, OncePerRun holds in every reachable state, whatever the threads, groups and
\* failures.
THEOREM BodiesStartOnce ==
  ASSUME \A p \in Plans : (p.ordering \/ Ordered(p)) /\ TeardownApart(p)
  PROVE  Spec => []OncePerRun
  <1> DEFINE I == /\ Threads /\ Known /\ (~Ordering => ListsInTurn) /\ Zoned /\ Nested /\ OnceNow /\ OncePerRun
  <1>1. Init => I
    BY ThreadsInit, KnownInit, ListsInit, ZonedInit, NestedInit, OnceInit
  <1>2. I /\ [Next]_vars => I'
    <2> SUFFICES ASSUME I, [Next]_vars PROVE I'
      OBVIOUS
    <2>1. plan \in Plans /\ TeardownApart(plan) /\ (~Ordering => Ordered(plan))
      BY DEF Threads, TypeOK, Ordering
    <2>2. plan' = plan
      BY PlanStays
    <2>3. (~Ordering => ListsInTurn)'
      BY <2>1, <2>2, ListsStep DEF Ordering
    <2> QED
      BY <2>1, <2>3, ThreadsStep, KnownStep, ZonedStep, NestedStep, OnceNowStep, OncePerRunStep
  <1>3. I => OncePerRun
    OBVIOUS
  <1> QED
    BY <1>1, <1>2, <1>3, PTL DEF Spec

-----------------------------------------------------------------------------
(* What succeeded reaches the state file *)

\* What succeeded in this run, the thread in whose zone it is knows, and what a thread
\* knows to have succeeded in its zone it has recorded as the sources then were.
FineKnown == \A t \in fine : \E h \in Alive : t \in Zone(h) /\ t \in Ok(h)
OkRecorded ==
  \A h \in Alive : \A t \in Ok(h) \cap Zone(h) \cap Sources : record[h][t] = kept[t]
Successes == FineKnown /\ OkRecorded
SuccessesNow == ~Idle => Successes

\* A step that finds that t succeeded.
Succeeds(h, t) ==
  /\ t \in Task /\ t \in Open(h) /\ Complete(h, t, "ok") /\ fine' = fine \cup {t}
  /\ t \in Zone(h)
  /\ kept' = [kept EXCEPT ![t] = source[t]]
  /\ \/ UNCHANGED record /\ (t \in Sources => record[h][t] = source[t])
     \/ record' = [record EXCEPT ![h][t] = source[t]]

LEMMA SuccessKinds ==
  ASSUME Threads, Known, Zoned, NEW h \in Alive, Plain(h)
  PROVE  \/ UNCHANGED <<fine, record, kept>> /\ Ok(h)' \subseteq Ok(h)
         \/ \E t \in Task : Succeeds(h, t)
  <1>1. TypeOK /\ Shape /\ KnowsOwn(h) /\ Inside(h)
    BY DEF Threads, Known, Zoned
  <1>3. ASSUME NEW t \in Task, SkipFresh(h, t) PROVE Succeeds(h, t)
    <2>1. /\ stack[h] # <<>> /\ Top(h).todo # <<>> /\ Head(Top(h).todo) = t /\ Completed(h, t) = None
          /\ Top(h).phase = "next"
      BY <1>1, <1>3, TakesFacts DEF SkipFresh, Decides
    <2>2. t \in Names(Top(h)) /\ t \in Open(h) /\ Top(h) \in Frames(h)
      BY <1>1, <2>1, TopFacts, HeadTailMembers DEF Names, Open
    <2> QED
      BY <1>1, <1>3, <2>2 DEF SkipFresh, Fresh, Inside, Succeeds
  <1>4. CASE EndWithSuccess(h)
    <2>1. stack[h] # <<>> /\ Top(h).phase = "post" /\ Top(h).task \in Task /\ Top(h) \in Frames(h)
      BY <1>1, <1>4, EndWithSuccessGoes, WorkFacts, TopFacts
    <2>2. PICK t \in Task : t = Top(h).task
      BY <2>1
    <2>3. t \in Held(h) /\ t \in Names(Top(h))
      BY <2>1, <2>2, ConstantsAssumption DEF Held, Names
    <2>4. t \in Open(h) /\ t \in Zone(h)
      BY <1>1, <2>1, <2>3 DEF KnowsOwn, Inside, Open
    <2>5. /\ record' = IF t \in Sources THEN [record EXCEPT ![h][t] = source[t]] ELSE record
          /\ Complete(h, t, "ok") /\ fine' = fine \cup {t} /\ kept' = [kept EXCEPT ![t] = source[t]]
      BY <1>4, <2>2 DEF EndWithSuccess
    <2> QED
      BY <2>4, <2>5 DEF Succeeds
  <1>5. ASSUME NEW t \in Task, StartBody(h, t) \/ ReturnCompleted(h, t) \/ DecideFails(h, t)
        PROVE  UNCHANGED <<fine, record, kept>> /\ Ok(h)' \subseteq Ok(h)
    <2>1. MarkRunning(h, t) /\ UNCHANGED <<fine, record, kept>>
      BY <1>5 DEF StartBody, ReturnCompleted, DecideFails, history
    <2> QED
      BY <1>1, <2>1, MarkRunningDoes DEF Ok
  <1>6. CASE EndWithFailure(h)
    <2>1. Complete(h, Top(h).task, "failed") /\ Top(h).task \in Task /\ UNCHANGED <<fine, record, kept>>
      BY <1>1, <1>6, EndWithFailureQuits DEF EndWithFailure, history
    <2> QED
      BY <1>1, <2>1, CompleteDoes, ResultKinds DEF Ok
  <1>7. CASE UNCHANGED <<memo, fine>> /\ ~EndWithSuccess(h) /\ ~\E t \in Task : SkipFresh(h, t)
    <2>1. UNCHANGED <<record, kept>>
      BY <1>7, PlainRecords
    <2> QED
      BY <1>7, <2>1 DEF Ok, Completed
  <1> QED
    BY <1>3, <1>4, <1>5, <1>6, <1>7, MemoKinds

\* What is in two zones has not completed in that of which the other is a part.
LEMMA OpenAbove ==
  ASSUME Threads, Known, Zoned, NEW h \in Alive, ~At(h, "join"), NEW g \in Alive, g # h,
         NEW t, t \in Zone(g), t \in Zone(h)
  PROVE  t \in Open(g)
  <1>1. Below(g, h)
    <2>1. ~Below(h, g)
      BY NotJoining DEF Threads
    <2> QED
      BY <2>1, ZonesApart
  <1>2. \A w \in Alive : w \in Thread
    BY DEF Threads, TypeOK
  <1>3. \E v \in Thread : v # <<>> /\ Front(v) = g /\ (v = h \/ Below(v, h))
    BY <1>1, <1>2, BelowByOne, BelowFront
  <1>4. PICK v \in Thread : v # <<>> /\ Front(v) = g /\ (v = h \/ Below(v, h))
    BY <1>3
  <1>5. v \in Alive /\ v # Main /\ t \in Zone(v)
    BY <1>4, ZonesNest DEF Threads, Tree, Main
  <1> QED
    BY <1>4, <1>5, ZoneFacts

LEMMA PlainSuccesses ==
  ASSUME Threads, Known, Zoned, Successes, NEW h \in Alive, Plain(h)
  PROVE  Successes'
  <1>1. /\ Learns(h) /\ Keeps(h) /\ Alive' = Alive /\ record \in [Alive -> Records] /\ TypeOK
        /\ \A g \in Alive \ {h} : Ok(g)' = Ok(g)
    BY PlainLearns, PlainOpen DEF Threads, TypeOK, Keeps
  <1>2. \A g \in Alive : Zone(g)' = Zone(g)
    BY PlainOpen, ZoneKept
  <1>3. \A g \in Alive : Ok(g) \subseteq Ok(g)'
    <2>1. \A t \in Task : Completed(h, t) # None => Completed(h, t)' = Completed(h, t)
      BY <1>1 DEF Learns
    <2> QED
      BY <1>1, <2>1, OkGrows
  <1>4. CASE UNCHANGED <<fine, record, kept>> /\ Ok(h)' \subseteq Ok(h)
    <2>1. FineKnown'
      BY <1>1, <1>2, <1>3, <1>4 DEF FineKnown, Successes
    <2>2. OkRecorded'
      BY <1>1, <1>2, <1>4 DEF OkRecorded, Successes
    <2> QED
      BY <2>1, <2>2 DEF Successes
  <1>5. ASSUME NEW t \in Task, Succeeds(h, t) PROVE Successes'
    <2>1. Completed(h, t)' = "ok" /\ \A u \in Task : u # t => Completed(h, u)' = Completed(h, u)
      BY <1>1, <1>5, CompleteDoes, ResultKinds DEF Succeeds
    <2>2. t \in Ok(h)' /\ Ok(h)' \subseteq Ok(h) \cup {t}
      BY <2>1 DEF Ok
    <2>3. FineKnown'
      BY <1>1, <1>2, <1>3, <1>5, <2>2 DEF FineKnown, Successes, Succeeds
    <2>4. /\ \A g \in Alive \ {h} : record'[g] = record[g]
          /\ \A u \in Task : u # t => record'[h][u] = record[h][u]
          /\ t \in Sources => record'[h][t] = source[t]
          /\ kept'[t] = source[t] /\ \A u \in Task : u # t => kept'[u] = kept[u]
      BY <1>1, <1>5 DEF Succeeds, Records, TypeOK
    <2>5. \A g \in Alive \ {h} : t \notin Ok(g) \cap Zone(g)
      <3>1. ~At(h, "join")
        BY PlainTasks DEF At, Threads
      <3>2. \A g \in Alive \ {h} : t \in Zone(g) => t \in Open(g)
        BY <1>5, <3>1, OpenAbove DEF Succeeds
      <3>3. \A g : Open(g) \cap Ok(g) = {}
        BY ConstantsAssumption, ResultKinds DEF Open, Ok, Result, Code
      <3> QED
        BY <3>2, <3>3
    <2>6. OkRecorded'
      <3> SUFFICES ASSUME NEW g \in Alive, NEW u \in Task, u \in Ok(g)', u \in Zone(g), u \in Sources
                   PROVE  record'[g][u] = kept'[u]
        BY <1>1, <1>2 DEF OkRecorded, Ok
      <3>1. CASE u = t /\ g = h
        BY <2>4, <3>1
      <3>2. CASE u = t /\ g # h
        BY <1>1, <2>5, <3>2
      <3>3. CASE u # t
        <4>1. u \in Ok(g)
          BY <1>1, <2>2, <3>3
        <4>2. record[g][u] = kept[u]
          BY <4>1 DEF OkRecorded, Successes
        <4> QED
          BY <2>4, <3>3, <4>2
      <3> QED
        BY <3>1, <3>2, <3>3
    <2> QED
      BY <2>3, <2>6 DEF Successes
  <1> QED
    BY <1>4, <1>5, SuccessKinds

LEMMA ForkSuccesses ==
  ASSUME Threads, Known, Zoned, Successes, NEW h \in Alive, Fork(h)
  PROVE  Successes'
  <1>1. ForkMoves(h) /\ UNCHANGED <<kept, fine, plan>> /\ ~At(h, "join") /\ Alive' = Alive \cup Forked(h)
    BY ForkDoes, ForkRest, ForkFrame DEF Threads, At, ForkMoves, history
  <1>2. ASSUME NEW g \in Alive PROVE Zone(g)' = Zone(g)
    <2>1. g # Main => Front(g) \in Alive \ {h}
      BY <1>1, <1>2, NotJoining, ParentFacts DEF Threads
    <2>2. g # Main => Top(Front(g))' = Top(Front(g))
      BY <1>1, <2>1 DEF ForkMoves, Top
    <2> QED
      BY <2>2, ZoneSame
  <1>3. \A g \in Alive : Ok(g)' = Ok(g) /\ record'[g] = record[g]
    BY <1>1 DEF ForkMoves, Ok, Completed
  <1>4. ASSUME NEW w \in Forked(h) PROVE Ok(w)' \cap Zone(w)' = {}
    <2>1. Ok(w)' = Ok(h) /\ Ok(h) \cap Open(h) = {}
      BY <1>1, ConstantsAssumption, ResultKinds DEF ForkMoves, Ok, Open, Completed, Result, Code
    <2>2. PICK i \in 1..Len(Top(h).names) : i \in InBatch(Top(h)) /\ Zone(w)' = Top(h).branches[i]
      BY ForkedZone
    <2>3. At(h, "fork") /\ Divides(Top(h), Zone(h), Open(h))
      BY DEF Fork, Ready, Zoned, Divided
    <2>4. Top(h).branches[i] \subseteq Open(h)
      BY <2>2, <2>3 DEF Divides, InBatch
    <2> QED
      BY <2>1, <2>2, <2>4
  <1>5. FineKnown'
    BY <1>1, <1>2, <1>3 DEF FineKnown, Successes
  <1>6. OkRecorded'
    BY <1>1, <1>2, <1>3, <1>4 DEF OkRecorded, Successes
  <1> QED
    BY <1>5, <1>6 DEF Successes

LEMMA JoinSuccesses ==
  ASSUME Threads, Known, Zoned, Successes, NEW h \in Alive, Join(h)
  PROVE  Successes'
  <1>1. /\ JoinMoves(h) /\ UNCHANGED <<kept, fine, plan>> /\ Alive' = Alive \ Workers(h) /\ h \in Alive'
    BY JoinDoes, JoinRest, JoinFrame, NotJoining DEF Threads, JoinMoves, At, Join, Ready, history
  <1>2. \A g \in Alive' : Zone(g)' = Zone(g)
    BY JoinZones DEF Threads
  <1>3. \A g \in Alive' \ {h} : Ok(g)' = Ok(g) /\ record'[g] = record[g]
    BY <1>1 DEF JoinMoves, Ok, Completed
  <1>4. \A t \in Task : Completed(h, t)' = Completed(Owner(h, t), t) /\ record'[h][t] = record[Owner(h, t)][t]
    BY <1>1, JoinLearns DEF JoinMoves
  <1>5. \A t \in Ok(h) : t \in Ok(h)'
    BY JoinLearns, RetNone, ResultKinds DEF Ok
  <1>6. ASSUME NEW w \in Workers(h), NEW t \in Zone(w), t \in Ok(w) PROVE t \in Zone(h)' /\ t \in Ok(h)'
    <2>1. w \in Alive /\ w # Main /\ Front(w) = h /\ Owner(h, t) = w /\ t \in Task
      BY <1>6, OwnerIs DEF Ok
    <2>2. t \in Zone(h)
      BY <1>6, <2>1, ZoneFacts
    <2> QED
      BY <1>1, <1>2, <1>4, <1>6, <2>1, <2>2 DEF Ok
  <1>7. FineKnown'
    <2> SUFFICES ASSUME NEW t \in fine PROVE \E g \in Alive' : t \in Zone(g)' /\ t \in Ok(g)'
      BY <1>1 DEF FineKnown
    <2>1. PICK g \in Alive : t \in Zone(g) /\ t \in Ok(g)
      BY DEF FineKnown, Successes
    <2>2. CASE g \in Workers(h)
      BY <1>1, <1>6, <2>1, <2>2
    <2>3. CASE g \notin Workers(h)
      BY <1>1, <1>2, <1>3, <1>5, <2>1, <2>3
    <2> QED
      BY <2>2, <2>3
  <1>8. OkRecorded'
    <2>1. ASSUME NEW t \in Ok(h)', t \in Zone(h), t \in Sources PROVE record'[h][t] = kept[t]
      <3>1. PICK g : g = Owner(h, t)
        OBVIOUS
      <3>2. t \in Task /\ g \in Alive /\ t \in Ok(g)
        BY <1>4, <2>1, <3>1, OwnerFacts DEF Ok
      <3>3. t \in Zone(g)
        <4>1. g = h \/ (g \in Workers(h) /\ t \in Branch(g))
          BY <3>1, OwnerFacts
        <4> QED
          BY <2>1, <4>1 DEF Workers, Zone
      <3> QED
        BY <1>4, <2>1, <3>1, <3>2, <3>3 DEF OkRecorded, Successes
    <2>2. ASSUME NEW g \in Alive', g # h, NEW t \in Ok(g)', t \in Zone(g)', t \in Sources
          PROVE  record'[g][t] = kept[t]
      BY <1>1, <1>2, <1>3, <2>2 DEF OkRecorded, Successes
    <2> QED
      BY <1>1, <1>2, <2>1, <2>2 DEF OkRecorded
  <1> QED
    BY <1>7, <1>8 DEF Successes

LEMMA SuccessesStep ==
  ASSUME Threads, Known, Zoned, SuccessesNow, [Next]_vars
  PROVE  SuccessesNow'
  <1>1. CASE Invoke
    <2>1. fine' = {} /\ memo' = [h \in {Main} |-> NoMemo] /\ Alive' = {Main}
      BY <1>1, InvokeMoves DEF Threads
    <2>2. Ok(Main)' = {}
      BY <2>1, ConstantsAssumption, ResultKinds DEF Ok, Completed, NoMemo
    <2> QED
      BY <2>1, <2>2 DEF FineKnown, OkRecorded, Successes, SuccessesNow
  <1>2. CASE Finish
    BY <1>2 DEF Finish, Ended, Idle, SuccessesNow, Threads, TypeOK
  <1>3. (\E t \in Task : Edit(t)) \/ UNCHANGED vars => UNCHANGED <<threads, plan, history>>
    BY DEF Edit, vars
  <1>4. CASE UNCHANGED <<threads, plan, history>>
    <2>1. /\ stack' = stack /\ ret' = ret /\ memo' = memo /\ record' = record /\ kept' = kept /\ fine' = fine
          /\ Alive' = Alive
      BY <1>4 DEF threads, history, Alive
    <2>2. ASSUME NEW h \in Alive PROVE Zone(h)' = Zone(h) /\ Ok(h)' = Ok(h)
      <3>1. Zone(h)' = Zone(h)
        <4>1. Top(Front(h))' = Top(Front(h))
          BY <2>1 DEF Top
        <4> QED
          BY <4>1, ZoneSame
      <3>2. Ok(h)' = Ok(h)
        BY <2>1 DEF Ok, Completed
      <3> QED
        BY <3>1, <3>2
    <2>3. FineKnown' <=> FineKnown
      BY <2>1, <2>2 DEF FineKnown
    <2>4. OkRecorded' <=> OkRecorded
      BY <2>1, <2>2 DEF OkRecorded
    <2> QED
      BY <2>1, <2>3, <2>4 DEF SuccessesNow, Successes, Idle
  <1>5. ASSUME NEW h \in Alive, Plain(h) \/ Fork(h) \/ Join(h) PROVE Successes'
    <2>1. stack[h] # <<>>
      BY <1>5, PlainMoves, ForkFrame, JoinFrame DEF Threads
    <2>2. Successes
      BY <2>1, MainAlone DEF Threads, Idle, SuccessesNow
    <2> QED
      BY <1>5, <2>2, PlainSuccesses, ForkSuccesses, JoinSuccesses
  <1> QED
    BY <1>1, <1>2, <1>3, <1>4, <1>5, StepKinds DEF Next, SuccessesNow

\* If in every plan a task comes after what is listed for it, or a `wait_for` keeps groups
\* from forking, FailureIsSaved holds in every behaviour: what succeeded in any thread is in
\* the state file at the end, whenever sources are edited.
THEOREM SuccessesAreSaved ==
  ASSUME \A p \in Plans : p.ordering \/ Ordered(p)
  PROVE  Spec => FailureIsSaved
  <1> DEFINE I == Threads /\ Known /\ (~Ordering => ListsInTurn) /\ Zoned /\ SuccessesNow
  <1>1. Init => I
    BY ThreadsInit, KnownInit, ListsInit, ZonedInit DEF Init, JustMain, Idle, SuccessesNow
  <1>2. I /\ [Next]_vars => I'
    <2> SUFFICES ASSUME I, [Next]_vars PROVE I'
      OBVIOUS
    <2>1. plan \in Plans /\ (~Ordering => Ordered(plan))
      BY DEF Threads, TypeOK, Ordering
    <2>2. plan' = plan
      BY PlanStays
    <2>3. (~Ordering => ListsInTurn)'
      BY <2>1, <2>2, ListsStep DEF Ordering
    <2> QED
      BY <2>3, ThreadsStep, KnownStep, ZonedStep, SuccessesStep
  <1>3. I /\ [Next]_vars => [Finish /\ ret[Main] \in Code => SavesSuccesses]_vars
    <2> SUFFICES ASSUME I, Finish, ret[Main] \in Code, NEW t \in fine \cap Sources PROVE disk'[t] = kept[t]
      BY DEF SavesSuccesses
    <2>1. stack[Main] = <<>> /\ ret[Main] # None /\ disk' = record[Main]
      BY ResultKinds DEF Finish, Ended, Code, Err
    <2>2. Alive = {Main} /\ Successes
      BY <2>1, MainAlone DEF Threads, SuccessesNow, Idle
    <2>3. t \in Ok(Main) /\ t \in Zone(Main)
      BY <2>2 DEF Successes, FineKnown
    <2> QED
      BY <2>1, <2>2, <2>3 DEF Successes, OkRecorded
  <1> QED
    BY <1>1, <1>2, <1>3, PTL DEF Spec, FailureIsSaved

-----------------------------------------------------------------------------
(* Who still tells of a failure *)

Failed(h) == {t \in Task : Completed(h, t) = "failed"}

\* The tasks of a group whose outcome it has not looked at.
Ahead(f) ==
  CASE f.phase = "deps" -> ToSet(f.names)
    [] f.phase = "serial" -> ToSet(f.todo)
    [] f.phase = "fork" -> {f.names[k] : k \in {j \in 1..Len(f.names) : j >= f.at}}
    [] f.phase = "join" -> {f.names[k] : k \in {j \in 1..Len(f.names) : j >= f.at + Batch}}
    [] OTHER -> {}

\* f will not end with "ok" in a thread that has failed completed as failed: it has a
\* failure, it will come to one of these tasks, or one of a batch that is run is.
Telling(f, failed) ==
  \/ f.code # "ok" \/ f.post # "ok"
  \/ f.phase \in RunPhases /\ ToSet(f.todo) \cap failed # {}
  \/ \E t \in Ahead(f) : ({t} \cup ToSet(Prereqs[t])) \cap failed # {}
  \/ f.phase = "join" /\ \E j \in InBatch(f) : f.names[j] \in failed

\* A prerequisite of a group that returns a failure has failed.
FailureKnown(h) ==
  ret[h] = "failed" /\ At(h, "deps") => PrereqsOf(Top(h)) \cap Failed(h) # {}

\* A frame while nothing has failed, but for a cycle that was met.
Clean(f) == f.code \in {"ok", "cycle"} /\ f.post = "ok" /\ (f.phase \in Working => f.code = "ok")
CleanThread(h) ==
  ret[h] \in {"ok", "cycle", None} /\ Failed(h) = {} /\ \A f \in Frames(h) : Clean(f)

\* There is something to tell of before a step or in it; nothing has failed after it.
Heard(h) == ret[h] \notin {"ok", None} \/ Telling(Top(h), Failed(h)) \/ bad' # bad
NoneFailed(h) == bad' = {} /\ CleanThread(h)

\* The innermost frame goes on as f, and what it told of f does.
GoesOn(h, f) ==
  /\ Goes(h, f) /\ f.names = Top(h).names /\ Names(f) \subseteq Names(Top(h))
  /\ f.phase = "deps" => Top(h).phase = "deps" /\ f.at = Top(h).at
  /\ Top(h).phase \in RunPhases => f.phase \in RunPhases
  /\ Top(h).task = None \/ f.task = Top(h).task \/ Top(h).task \notin memo'[h].running
  /\ Heard(h) => Telling(f, Failed(h)')
  /\ NoneFailed(h) => Clean(f)
CallsOn(h, f, g) ==
  /\ Pushes(h, f, g) /\ f.names = Top(h).names /\ Names(f) \subseteq Names(Top(h))
  /\ f.phase = Top(h).phase /\ f.at = Top(h).at /\ f.task = Top(h).task /\ ret[h] = None
  /\ g.phase = "next" \/ (g.phase = "deps" /\ g.at = 1)
  /\ f.phase = "deps" => g.phase = "next" /\ Names(g) \subseteq PrereqsOf(f)
  /\ Heard(h) => Telling(f, Failed(h)') \/ Telling(g, Failed(h)')
  /\ NoneFailed(h) => Clean(f) /\ Clean(g)
EndsOn(h, r) ==
  /\ Pops(h, r)
  /\ r = "failed" /\ Top(h).phase \in RunPhases => Names(Top(h)) \cap Failed(h)' # {}
  /\ Heard(h) => r \notin {"ok", None}
  /\ NoneFailed(h) => /\ r \in {"ok", "cycle"} /\ Top(h).phase \notin Working
                      /\ Top(h).phase \in RunPhases /\ r = "cycle" => \E t \in Task : ReferenceCycle(h, t)
TellsOn(h) == (\E f : GoesOn(h, f)) \/ (\E f, g : CallsOn(h, f, g)) \/ (\E r : EndsOn(h, r))

LEMMA TellingMore ==
  ASSUME NEW f, NEW S, NEW T, S \subseteq T, Telling(f, S)
  PROVE  Telling(f, T)
  BY DEF Telling

\* What a frame of a task tells of.
LEMMA RunTelling ==
  ASSUME NEW f \in Frame, f.phase \in RunPhases, NEW S
  PROVE  Telling(f, S) <=> f.code # "ok" \/ f.post # "ok" \/ ToSet(f.todo) \cap S # {}
  BY DEF Telling, Ahead, RunPhases

LEMMA FailedGrows ==
  ASSUME Threads, Known, NEW h \in Alive, Plain(h)
  PROVE  Failed(h) \subseteq Failed(h)'
  <1>1. \A t \in Task : Completed(h, t) # None => Completed(h, t)' = Completed(h, t)
    BY PlainLearns DEF Learns
  <1> QED
    BY <1>1, RetNone, ResultKinds DEF Failed

\* The next task is passed, to be run or not.
LEMMA PassTells ==
  ASSUME TypeOK, Shape, NEW h \in Alive, Ready(h, "next"), Top(h).todo # <<>>,
         NEW f \in Frame, Goes(h, f), f.todo = Tail(Top(h).todo), f.names = Top(h).names,
         f.task \in {None, Top(h).task, Head(Top(h).todo)}, f.phase \in {"next", "body"}, f.code = "ok", f.post = "ok",
         bad' = bad, Head(Top(h).todo) \notin Failed(h), Failed(h) \subseteq Failed(h)'
  PROVE  TellsOn(h)
  <1>1. /\ stack[h] # <<>> /\ Top(h).phase = "next" /\ ret[h] = None /\ Top(h) \in Frame /\ Top(h).code = "ok"
        /\ Top(h).post = "ok" /\ Top(h).todo \in Seq(Task) /\ Top(h).task = None
    BY TopFacts DEF Ready, At, Shaped
  <1>2. ToSet(Top(h).todo) = {Head(Top(h).todo)} \cup ToSet(Tail(Top(h).todo))
    BY <1>1, HeadTailMembers
  <1>3. Names(f) \subseteq Names(Top(h))
    BY <1>1, TailListed
  <1>4. Heard(h) => Telling(f, Failed(h)')
    <2>1. Heard(h) => ToSet(Top(h).todo) \cap Failed(h) # {}
      BY <1>1, RunTelling DEF Heard, RunPhases
    <2>2. Heard(h) => ToSet(f.todo) \cap Failed(h)' # {}
      BY <1>2, <2>1
    <2> QED
      BY <2>2, RunTelling DEF RunPhases
  <1> QED
    BY <1>1, <1>3, <1>4 DEF TellsOn, GoesOn, RunPhases, Clean

LEMMA TakesTell ==
  ASSUME Threads, Known, NEW h \in Alive, NEW t \in Task, TakeStep(h, t)
  PROVE  TellsOn(h)
  <1>1. TypeOK /\ Shape /\ Plain(h)
    BY DEF Threads, Plain, TaskStep
  <1>2. /\ Takes(h, t) /\ stack[h] # <<>> /\ Top(h).phase = "next" /\ ret[h] = None /\ Top(h).todo # <<>>
        /\ Head(Top(h).todo) = t /\ Ready(h, "next") /\ Top(h) \in Frame /\ Top(h).task = None
        /\ Top(h).code = "ok" /\ Top(h).post = "ok" /\ Top(h).todo \in Seq(Task)
    BY <1>1, TakesFacts, TopFacts DEF Shaped, TakeStep, ReferenceCycle, ReturnCompleted, SkipFresh, DecideFails, StartBody, Decides, Takes
  <1>3. /\ ToSet(Top(h).todo) = {t} \cup ToSet(Tail(Top(h).todo)) /\ Failed(h) \subseteq Failed(h)'
        /\ t \in Names(Top(h))
    BY <1>1, <1>2, HeadTailMembers, FailedGrows DEF Names
  <1>5. CASE StartBody(h, t)
    <2> DEFINE f == Started(Top(h), t)
    <2>1. /\ Goes(h, f) /\ f \in Frame /\ f.phase = "body" /\ f.todo = Tail(Top(h).todo) /\ f.task = t
          /\ f.names = Top(h).names /\ f.code = "ok" /\ f.post = "ok"
      BY <1>1, <1>5, StartBodyGoes
    <2>2. bad' = bad /\ t \notin Failed(h)
      BY <1>5, RetNone, ResultKinds DEF StartBody, Decides, Failed
    <2> HIDE DEF f
    <2> QED
      BY <1>1, <1>2, <1>3, <2>1, <2>2, PassTells
  <1>6. CASE SkipFresh(h, t)
    <2> DEFINE f == Passed(Top(h))
    <2>1. Continue(h, f)
      BY <1>6 DEF SkipFresh, Passed
    <2>2. /\ Goes(h, f) /\ f \in Frame /\ f.phase = "next" /\ f.todo = Tail(Top(h).todo)
          /\ f.task = Top(h).task /\ f.names = Top(h).names /\ f.code = Top(h).code /\ f.post = Top(h).post
      BY <1>1, <1>2, <2>1, SkipGoes, PassedTypes
    <2>3. bad' = bad /\ t \notin Failed(h)
      BY <1>6, RetNone, ResultKinds DEF SkipFresh, Decides, Failed
    <2> HIDE DEF f
    <2> QED
      BY <1>1, <1>2, <1>3, <2>2, <2>3, PassTells
  <1>7. CASE ReferenceCycle(h, t)
    <2>1. Pops(h, "cycle")
      BY <1>1, <1>2, <1>7, LeavePops DEF ReferenceCycle, Result, Err
    <2> QED
      BY <1>2, <1>7, <2>1, RetNone DEF TellsOn, EndsOn, Err, Working
  <1>8. CASE ReturnCompleted(h, t)
    <2>1. Pops(h, "failed") /\ t \in Failed(h)
      BY <1>1, <1>2, <1>8, LeavePops, ResultKinds DEF ReturnCompleted, Failed
    <2>2. ~NoneFailed(h)
      BY <2>1 DEF NoneFailed, CleanThread
    <2> QED
      BY <1>3, <2>1, <2>2, RetNone, ResultKinds DEF TellsOn, EndsOn
  <1>9. CASE DecideFails(h, t)
    <2>1. Pops(h, "error") /\ t \in bad'
      BY <1>1, <1>2, <1>9, LeavePops DEF DecideFails, Result, Err
    <2>2. ~NoneFailed(h)
      BY <2>1 DEF NoneFailed
    <2> QED
      BY <2>1, <2>2, RetNone DEF TellsOn, EndsOn, Err
  <1> QED
    BY <1>5, <1>6, <1>7, <1>8, <1>9 DEF TakeStep

LEMMA FirstOf ==
  ASSUME NEW a \in Result, NEW b \in Result
  PROVE  /\ FirstFailure(a, b) = "ok" <=> a = "ok" /\ b = "ok"
         /\ FirstFailure(a, b) = "failed" => a = "failed" \/ b = "failed"
         /\ FirstFailure(a, b) \in Err => a \in Err \/ b \in Err
  BY DEF FirstFailure, Result, Code, Err

LEMMA WorksTell ==
  ASSUME Threads, Known, NEW h \in Alive, TaskStep(h), \A t \in Task : ~TakeStep(h, t)
  PROVE  TellsOn(h)
  <1>1. TypeOK /\ Shape /\ Failed(h) \subseteq Failed(h)'
    BY FailedGrows DEF Threads, Plain
  <1>2. ASSUME stack[h] # <<>>, Top(h).phase \in Working
        PROVE  /\ Top(h) \in Frame /\ Top(h) \in Frames(h) /\ Top(h).task \in Task /\ Top(h).phase \in RunPhases
               /\ Top(h).code \in Result /\ Top(h).post \in Code /\ Top(h).task \in Names(Top(h))
               /\ NoneFailed(h) => Top(h).code = "ok" /\ Top(h).post = "ok"
               /\ Heard(h) <=> \/ ret[h] \notin {"ok", None} \/ bad' # bad \/ Top(h).code # "ok" \/ Top(h).post # "ok"
                               \/ ToSet(Top(h).todo) \cap Failed(h) # {}
    <2>1. /\ Top(h) \in Frame /\ Top(h) \in Frames(h) /\ Top(h).task \in Task /\ Top(h).phase \in RunPhases
          /\ Top(h).code \in Result /\ Top(h).post \in Code
      BY <1>1, <1>2, TopFacts, WorkerTask DEF Working, RunPhases
    <2>2. NoneFailed(h) => Clean(Top(h))
      BY <2>1 DEF NoneFailed, CleanThread
    <2> QED
      BY <1>2, <2>1, <2>2, RunTelling, ConstantsAssumption DEF Names, Clean, Heard
  \* The innermost frame goes on, and has no less to tell.
  <1>3. ASSUME NEW f \in Frame, Goes(h, f), stack[h] # <<>>, Top(h).phase \in Working, f.todo = Top(h).todo,
               f.names = Top(h).names, f.task \in {None, Top(h).task}, f.phase \in RunPhases,
               \/ f.code # "ok" \/ f.post # "ok"
               \/ ret[h] \in {"ok", None} /\ bad' = bad /\ Top(h).code = "ok" /\ Top(h).post = "ok",
               f.task = Top(h).task \/ Top(h).task \notin memo'[h].running,
               NoneFailed(h) => f.code = "ok" /\ f.post = "ok"
        PROVE  TellsOn(h)
    <2>1. Names(f) \subseteq Names(Top(h))
      BY <1>3 DEF Names
    <2>2. Heard(h) => Telling(f, Failed(h)')
      BY <1>1, <1>2, <1>3, RunTelling
    <2> QED
      BY <1>3, <2>1, <2>2 DEF TellsOn, GoesOn, RunPhases, Clean
  <1>4. ASSUME NEW f \in Frame, Goes(h, f), stack[h] # <<>>, Top(h).phase = "body", f.todo = Top(h).todo,
               f.names = Top(h).names, f.task = Top(h).task, f.phase \in RunPhases,
               NEW code \in Result, Fails(Top(h).task, code), f.code = code, f.post = "ok", ret[h] \in {None, code}
        PROVE  TellsOn(h)
    <2>1. code # "ok" => bad' # {}
      BY <1>2, <1>4 DEF Fails, Working
    <2>2. Top(h).code = "ok" /\ Top(h).post = "ok" /\ (code = "ok" => bad' = bad)
      BY <1>1, <1>4, TopFacts DEF Shaped, Fails
    <2> QED
      BY <1>3, <1>4, <2>1, <2>2 DEF NoneFailed, Working
  <1>5. ASSUME NEW g, Pushes(h, Top(h), g), stack[h] # <<>>, Top(h).phase \in Working, g.phase = "deps", g.at = 1,
               g.code = "ok", g.post = "ok", bad' = bad, ret[h] = None
        PROVE  TellsOn(h)
    <2>1. Heard(h) => Telling(Top(h), Failed(h)')
      BY <1>1, <1>5, TellingMore DEF Heard
    <2>2. NoneFailed(h) => Clean(Top(h)) /\ Clean(g)
      BY <1>2, <1>5 DEF Clean
    <2>3. CallsOn(h, Top(h), g)
      BY <1>5, <2>1, <2>2 DEF CallsOn, Working
    <2> QED
      BY <2>3 DEF TellsOn
  <1>6. ASSUME NEW r \in Result, Quits(h, r), Top(h).phase \in Working, r # "ok", r = "failed" => Top(h).task \in Failed(h)',
               ~NoneFailed(h)
        PROVE  TellsOn(h)
    <2>1. r # None
      BY <1>6, ConstantsAssumption
    <2> QED
      BY <1>2, <1>6, <2>1 DEF TellsOn, EndsOn, Quits
  <1>7. CASE BodyCommand(h) \/ BodyGroupReturns(h)
    <2>1. stack[h] # <<>> /\ Top(h).phase = "body"
      BY <1>1, <1>7, BodyCommandGoes, BodyGroupReturnsGoes
    <2>2. PICK code \in Result : LET f == AfterStep(Top(h), code) IN
            /\ Fails(Top(h).task, code) /\ Goes(h, f) /\ f \in Frame /\ f.task = Top(h).task /\ f.code = code
            /\ f.post = "ok" /\ f.todo = Top(h).todo /\ f.names = Top(h).names /\ f.phase \in {"body", "post"}
            /\ ret[h] \in {None, code}
      BY <1>1, <1>7, BodyCommandGoes, BodyGroupReturnsGoes
    <2> QED
      BY <1>4, <2>1, <2>2 DEF RunPhases
  <1>8. CASE EndOfBody(h)
    <2> DEFINE f == Teardown(Top(h), "ok")
    <2>1. /\ stack[h] # <<>> /\ Top(h).phase = "body" /\ Goes(h, f) /\ f \in Frame /\ f.task = Top(h).task
          /\ f.phase = "post" /\ f.code = "ok" /\ f.post = "ok" /\ f.todo = Top(h).todo /\ f.names = Top(h).names
      BY <1>1, <1>8, EndOfBodyGoes
    <2>2. bad' = bad /\ ret[h] = None /\ Top(h).code = "ok" /\ Top(h).post = "ok"
      BY <1>1, <1>8, <2>1, TopFacts DEF EndOfBody, Ready, history, Shaped
    <2> HIDE DEF f
    <2> QED
      BY <1>3, <2>1, <2>2 DEF RunPhases, Working
  <1>9. CASE EndWithSuccess(h)
    <2> DEFINE f == [Top(h) EXCEPT !.task = None, !.phase = "next"]
    <2>1. /\ stack[h] # <<>> /\ Top(h).phase = "post" /\ ret[h] = None /\ Goes(h, f) /\ f \in Frame /\ f.task = None
          /\ f.phase = "next" /\ f.code = "ok" /\ f.post = "ok" /\ f.todo = Top(h).todo /\ f.names = Top(h).names
      BY <1>1, <1>9, EndWithSuccessGoes
    <2>2. bad' = bad /\ Top(h).code = "ok" /\ Top(h).post = "ok" /\ Complete(h, Top(h).task, "ok")
      BY <1>9 DEF EndWithSuccess
    <2>3. Top(h).task \notin memo'[h].running
      BY <1>1, <1>2, <2>1, <2>2, CompleteDoes, ResultKinds DEF Working
    <2> HIDE DEF f
    <2> QED
      BY <1>3, <2>1, <2>2, <2>3 DEF RunPhases, Working
  <1>10. CASE BodyGroup(h) \/ PostGroup(h)
    <2>1. PICK s \in Seq(Task) : Pushes(h, Top(h), GroupFrame(Top(h).order, s)) /\ GroupFrame(Top(h).order, s).phase = "deps"
      BY <1>1, <1>10, BodyGroupPushes, PostGroupPushes
    <2>2. PICK g : g = GroupFrame(Top(h).order, s)
      OBVIOUS
    <2>3. g.at = 1 /\ g.code = "ok" /\ g.post = "ok"
      BY <2>2 DEF GroupFrame
    <2>4. stack[h] # <<>> /\ Top(h).phase \in Working /\ ret[h] = None /\ bad' = bad
      BY <1>1, <1>10, BodyGroupPushes, PostGroupPushes DEF Quiet, history, Working
    <2> QED
      BY <1>5, <2>1, <2>2, <2>3, <2>4
  <1>11. CASE PostCommand(h) \/ PostGroupReturns(h)
    <2>1. PICK result \in Result : /\ stack[h] # <<>> /\ Top(h).phase = "post" /\ Tore(h, result)
                                   /\ ret[h] \in {None, result} /\ Fails(Top(h).task, result)
      BY <1>1, <1>11, PostCommandMoves, PostGroupReturnsMoves
    <2>2. Top(h).phase \in Working /\ (result # "ok" => bad' # {}) /\ (result = "ok" => bad' = bad)
      BY <1>2, <2>1 DEF Fails, Working
    <2>3. CASE result \in Err /\ \E r \in Err : Pops(h, r)
      <3>1. PICK r \in Err : Pops(h, r)
        BY <2>3
      <3>2. r \in Result /\ r # "ok" /\ r # "failed" /\ ~NoneFailed(h)
        BY <2>2, <2>3, RetNone, ResultKinds DEF NoneFailed
      <3> QED
        BY <1>6, <2>1, <2>2, <3>1, <3>2 DEF Quits, Working
    <2>4. CASE result \in Code
      <3> DEFINE g == [Top(h) EXCEPT !.at = @ + 1, !.post = FirstFailure(@, result)]
      <3>1. /\ Goes(h, g) /\ g \in Frame /\ g.phase = "post" /\ g.task = Top(h).task
            /\ g.code = Top(h).code /\ g.todo = Top(h).todo /\ g.names = Top(h).names
            /\ g.post = FirstFailure(Top(h).post, result)
        BY <2>1, <2>4 DEF Tore, Code, Err
      <3>2. g.post = "ok" <=> Top(h).post = "ok" /\ result = "ok"
        BY <1>2, <2>1, <2>2, <3>1, FirstOf, ResultKinds
      <3> HIDE DEF g
      <3>3. NoneFailed(h) => g.code = "ok" /\ g.post = "ok"
        BY <1>2, <2>1, <2>2, <3>1, <3>2 DEF NoneFailed
      <3> QED
        BY <1>3, <2>1, <2>2, <3>1, <3>2, <3>3 DEF RunPhases
    <2> QED
      BY <2>1, <2>3, <2>4 DEF Tore
  <1>12. CASE EndWithError(h) \/ RecordFails(h) \/ EndWithFailure(h)
    <2>1. CASE EndWithError(h)
      <3>1. Quits(h, Top(h).code) /\ Top(h).phase \in Working /\ Top(h).code \in Err
        BY <1>1, <2>1, EndsQuit DEF Working
      <3> QED
        BY <1>2, <1>6, <3>1, RetNone, ResultKinds DEF Quits
    <2>2. CASE RecordFails(h)
      <3>1. Quits(h, "error") /\ Top(h).phase \in Working /\ bad' # {}
        BY <1>1, <2>2, RecordFailsQuits DEF Working
      <3> QED
        BY <1>6, <3>1, ResultKinds DEF NoneFailed, Err
    <2>3. CASE EndWithFailure(h)
      <3>1. /\ Quits(h, "failed") /\ Top(h).phase \in Working /\ Top(h).task \in Task /\ stack[h] # <<>>
            /\ FirstFailure(Top(h).code, Top(h).post) = "failed" /\ Complete(h, Top(h).task, "failed")
        BY <1>1, <2>3, EndWithFailureQuits DEF Working, Quits
      <3>2. Top(h).task \in Failed(h)'
        BY <1>1, <3>1, CompleteDoes, ResultKinds DEF Failed
      <3>3. ~NoneFailed(h)
        BY <1>2, <3>1, FirstOf, ResultKinds
      <3> QED
        BY <1>6, <3>1, <3>2, <3>3, ResultKinds
    <2> QED
      BY <1>12, <2>1, <2>2, <2>3
  <1>13. CASE EndOfList(h)
    <2>1. Pops(h, "ok") /\ stack[h] # <<>> /\ Top(h).phase = "next" /\ Top(h).todo = <<>> /\ bad' = bad /\ ret[h] = None
      BY <1>1, <1>13, EndsQuit DEF Quits, Quiet, history, EndOfList, Ready
    <2>2. Top(h) \in Frame /\ Top(h).code = "ok" /\ Top(h).post = "ok"
      BY <1>1, <2>1, TopFacts DEF Shaped
    <2>3. ~Heard(h)
      BY <2>1, <2>2, RunTelling, EmptyMembers DEF Heard, RunPhases
    <2> QED
      BY <2>1, <2>3 DEF TellsOn, EndsOn, Working
  <1>14. CASE SkipCompleted(h)
    <2>1. /\ Ready(h, "next") /\ Top(h).todo # <<>> /\ Completed(h, Head(Top(h).todo)) = "ok" /\ bad' = bad
          /\ Goes(h, Passed(Top(h))) /\ Passed(Top(h)) \in Frame
      BY <1>1, <1>14, SkipCompletedGoes DEF SkipCompleted, Quiet, history
    <2>2. Top(h) \in Frame /\ Top(h).code = "ok" /\ Top(h).post = "ok" /\ Top(h).phase = "next"
      BY <1>1, <2>1, TopFacts DEF Shaped, Ready, At
    <2>3. Head(Top(h).todo) \notin Failed(h)
      BY <2>1 DEF Failed
    <2> QED
      BY <1>1, <2>1, <2>2, <2>3, PassedTypes, PassTells
  <1> QED
    BY <1>7, <1>8, <1>9, <1>10, <1>11, <1>12, <1>13, <1>14 DEF TaskStep

\* The tasks that what a group lists at this place waits for.
LEMMA NameAhead ==
  ASSUME NEW f, NEW t, f.phase = "deps", t \in PrereqsOf(f), NEW S, t \in S
  PROVE  Telling(f, S)
  BY DEF Telling, Ahead, PrereqsOf

\* A group that goes on in its list with what it has.
LEMMA PassedTelling ==
  ASSUME NEW f \in Frame, f.todo # <<>>, f.phase \in {"deps", "serial"}, NEW S, Telling(f, S),
         f.phase = "serial" => ({Head(f.todo)} \cup ToSet(Prereqs[Head(f.todo)])) \cap S = {}
  PROVE  Telling(Passed(f), S)
  <1>1. /\ Passed(f).names = f.names /\ Passed(f).phase = f.phase /\ Passed(f).code = f.code
        /\ Passed(f).post = f.post /\ ToSet(f.todo) = {Head(f.todo)} \cup ToSet(Passed(f).todo)
    BY PassedTypes
  <1> QED
    BY <1>1 DEF Telling, Ahead, RunPhases

\* What a prerequisite of a task waits for is a prerequisite of the task.
LEMMA PrereqsClosed ==
  ASSUME plan \in Plans, Ordered(plan), NEW t \in Task, NEW u \in ToSet(Prereqs[t])
  PROVE  ToSet(Prereqs[u]) \subseteq ToSet(Prereqs[t])
  <1>1. PICK q : q = Prereqs[t]
    OBVIOUS
  <1>2. q \in Range(Prereqs) /\ q \in Seq(Task) /\ DOMAIN q = 1..Len(q) /\ Len(q) \in Nat
    BY <1>1, PlanTypes, LenProperties DEF Range
  <1>3. PICK i \in DOMAIN q : u = q[i]
    BY <1>1 DEF ToSet
  <1>4. ToSet(Prereqs[u]) \subseteq {q[j] : j \in 1..(i - 1)}
    BY <1>2, <1>3 DEF Ordered, Prereqs
  <1>5. \A j \in 1..(i - 1) : j \in DOMAIN q
    BY <1>2
  <1> QED
    BY <1>1, <1>4, <1>5 DEF ToSet

LEMMA NextTells ==
  ASSUME Threads, Known, Ordered(plan), NEW h \in Alive, Done(h), \A f \in Frames(h) : f.phase = "deps" => f.at = 1,
         GroupPrerequisite(h) \/ SerialTask(h)
  PROVE  TellsOn(h)
  <1> DEFINE t == Head(Top(h).todo)
             p == Passed(Top(h))
             c == TaskFrame(Top(h).order, t)
  <1>1. TypeOK /\ Shape /\ Failed(h) \subseteq Failed(h)'
    BY FailedGrows DEF Threads, Plain
  <1>2. /\ stack[h] # <<>> /\ Top(h).phase \in {"deps", "serial"} /\ ret[h] = None
        /\ Top(h).todo # <<>> /\ t \in Task /\ bad' = bad
    BY <1>1, GroupPrerequisiteMoves, SerialTaskMoves DEF Quiet, history
  <1>3. /\ Top(h) \in Frame /\ Top(h).post = "ok" /\ Top(h).code \in Result /\ Top(h).names \in Seq(Task)
        /\ p \in Frame /\ p.names = Top(h).names /\ p.phase = Top(h).phase /\ p.code = Top(h).code /\ p.post = "ok"
        /\ p.at = Top(h).at /\ p.task = Top(h).task /\ p.todo = Tail(Top(h).todo) /\ Top(h) \in Frames(h)
        /\ Top(h).phase = "deps" => Top(h).code = "ok" /\ ToSet(Top(h).todo) \subseteq PrereqsOf(Top(h))
    BY <1>1, <1>2, TopFacts, PassedTypes DEF Shaped
  <1>4. Names(p) \subseteq Names(Top(h)) /\ t \in ToSet(Top(h).todo) /\ Prereqs[t] \in Seq(Task)
    <2>1. Names(p) \subseteq Names(Top(h))
      BY <1>2, <1>3, TailListed
    <2>2. t \in ToSet(Top(h).todo)
      BY <1>1, <1>2, TopFacts, HeadTailMembers
    <2> QED
      BY <1>1, <1>2, <2>1, <2>2, PlanTypes DEF TypeOK
  <1>5. NoneFailed(h) => Clean(Top(h)) /\ Clean(p)
    BY <1>3 DEF NoneFailed, CleanThread, Clean
  <1>6. Heard(h) => Telling(Top(h), Failed(h))
    BY <1>2 DEF Heard
  <1>7. Completed(h, t) = "ok" => ToSet(Prereqs[t]) \cap Failed(h) = {}
    BY <1>2, RetNone, ResultKinds DEF Done, Ok, Failed
  <1>8. CASE Top(h).phase = "deps" /\ Goes(h, p)
    <2>1. Heard(h) => Telling(p, Failed(h)')
      BY <1>1, <1>2, <1>3, <1>6, <1>8, PassedTelling, TellingMore
    <2>2. GoesOn(h, p)
      BY <1>3, <1>4, <1>5, <1>8, <2>1 DEF GoesOn, RunPhases
    <2> QED
      BY <2>2 DEF TellsOn
  <1>9. ASSUME Pushes(h, p, c), Completed(h, t) = None, c \in Frame, c.phase = "next", c.task = None,
               c.todo = Append(Prereqs[t], t), c.names = <<>>
        PROVE  TellsOn(h)
    <2>1. c.code = "ok" /\ c.post = "ok"
      BY DEF TaskFrame, RunFrame
    <2>2. ToSet(c.todo) = ToSet(Prereqs[t]) \cup {t}
      BY <1>2, <1>4, <1>9, AppendMembers
    <2>3. Heard(h) => Telling(p, Failed(h)) \/ Telling(c, Failed(h))
      <3>1. CASE ({t} \cup ToSet(Prereqs[t])) \cap Failed(h) = {}
        BY <1>2, <1>3, <1>6, <3>1, PassedTelling
      <3>2. CASE ({t} \cup ToSet(Prereqs[t])) \cap Failed(h) # {}
        BY <1>9, <2>2, <3>2, RunTelling DEF RunPhases
      <3> QED
        BY <3>1, <3>2
    <2>4. Heard(h) => Telling(p, Failed(h)') \/ Telling(c, Failed(h)')
      BY <1>1, <2>3, TellingMore
    <2>5. p.phase = "deps" => Names(c) \subseteq PrereqsOf(p)
      <3> SUFFICES ASSUME p.phase = "deps", NEW u \in Names(c) PROVE u \in PrereqsOf(p)
        OBVIOUS
      <3>1. u \in ToSet(Prereqs[t]) \cup {t} /\ t \in PrereqsOf(Top(h)) /\ PrereqsOf(p) = PrereqsOf(Top(h))
        BY <1>3, <1>4, <1>9, <2>2, EmptyMembers, ConstantsAssumption DEF Names, PrereqsOf
      <3>2. PICK n \in ToSet(Top(h).names) : t \in ToSet(Prereqs[n])
        BY <3>1 DEF PrereqsOf
      <3>3. n \in Task
        BY <1>3, <3>2, Members
      <3>4. ToSet(Prereqs[t]) \subseteq ToSet(Prereqs[n])
        BY <1>1, <3>2, <3>3, PrereqsClosed DEF TypeOK
      <3> QED
        BY <3>1, <3>2, <3>4 DEF PrereqsOf
    <2>6. Clean(c)
      BY <1>9, <2>1 DEF Clean, Working
    <2> HIDE DEF c, p
    <2>7. CallsOn(h, p, c)
      BY <1>2, <1>3, <1>4, <1>5, <1>9, <2>4, <2>5, <2>6 DEF CallsOn
    <2> QED
      BY <2>7 DEF TellsOn
  <1>10. ASSUME SerialTask(h), NEW f, f = Noted(p, Completed(h, t)), Completed(h, t) \in Code, Goes(h, f), f \in Frame,
                f.todo = Tail(Top(h).todo), f.names = Top(h).names,
                f.code = FirstFailure(Top(h).code, Completed(h, t)), f.phase = "serial", f.task = Top(h).task,
                f.post = Top(h).post
         PROVE  TellsOn(h)
    <2>1. Names(f) \subseteq Names(Top(h))
      BY <1>2, <1>3, <1>10, TailListed
    <2>2. f.code = "ok" <=> Top(h).code = "ok" /\ Completed(h, t) = "ok"
      BY <1>3, <1>10, FirstOf, ResultKinds
    <2>3. Heard(h) => Telling(f, Failed(h))
      <3>1. CASE f.code # "ok"
        BY <3>1 DEF Telling
      <3>2. CASE f.code = "ok"
        <4>1. Completed(h, t) = "ok" /\ ({t} \cup ToSet(Prereqs[t])) \cap Failed(h) = {}
          BY <1>7, <2>2, <3>2 DEF Failed
        <4>2. Top(h).phase = "serial"
          BY <1>1, <1>10, SerialTaskMoves
        <4>3. Heard(h) => Telling(p, Failed(h))
          BY <1>2, <1>3, <1>6, <4>1, PassedTelling
        <4> QED
          BY <1>3, <1>10, <2>2, <3>2, <4>2, <4>3 DEF Telling, Ahead, RunPhases
      <3> QED
        BY <3>1, <3>2
    <2>4. NoneFailed(h) => Clean(f)
      <3>1. NoneFailed(h) => Completed(h, t) = "ok"
        BY <1>2, <1>10 DEF NoneFailed, CleanThread, Failed, Code
      <3> QED
        BY <1>3, <1>5, <1>10, <3>1 DEF Clean, FirstFailure, Working
    <2>5. Heard(h) => Telling(f, Failed(h)')
      BY <1>1, <2>3, TellingMore
    <2> QED
      BY <1>2, <1>10, <2>1, <2>4, <2>5 DEF TellsOn, GoesOn, RunPhases
  <1>11. CASE GroupPrerequisite(h)
    BY <1>1, <1>8, <1>9, <1>11, GroupPrerequisiteMoves
  <1>12. CASE SerialTask(h)
    BY <1>1, <1>9, <1>10, <1>12, SerialTaskMoves
  <1> QED
    BY <1>11, <1>12

LEMMA GroupsTell ==
  ASSUME Threads, Known, NEW h \in Alive, FailureKnown(h), \A f \in Frames(h) : f.phase = "deps" => f.at = 1,
         \/ GroupPrerequisiteReturns(h) \/ StartGroup(h) \/ SerialTaskReturns(h) \/ EndSerial(h) \/ EndFork(h)
  PROVE  TellsOn(h)
  <1>1. TypeOK /\ Shape /\ Failed(h) \subseteq Failed(h)'
    BY FailedGrows DEF Threads, Plain
  <1>2. /\ stack[h] # <<>> /\ Top(h).phase \in {"deps", "serial", "fork"} /\ bad' = bad
    BY <1>1, GroupPrerequisiteReturnsMoves, StartGroupGoes, SerialTaskReturnsMoves, EndsQuit
       DEF GroupPrerequisiteReturns, StartGroup, SerialTaskReturns, EndSerial, EndFork, history, Quits
  <1>3. /\ Top(h) \in Frame /\ Top(h).post = "ok" /\ Top(h).code \in Result /\ Top(h).names \in Seq(Task)
        /\ Top(h) \in Frames(h) /\ Top(h).phase \notin RunPhases /\ Top(h).task = None
        /\ Top(h).phase = "deps" => Top(h).code = "ok"
        /\ Top(h).phase = "deps" => Top(h).at = 1
    BY <1>1, <1>2, TopFacts DEF Shaped, RunPhases
  <1>4. NoneFailed(h) => Clean(Top(h)) /\ Failed(h) = {} /\ ret[h] \in {"ok", "cycle", None}
    BY <1>3 DEF NoneFailed, CleanThread
  <1>5. ASSUME NEW r, Pops(h, r), r \in Err, NoneFailed(h) => r = "cycle" PROVE TellsOn(h)
    BY <1>3, <1>5, RetNone DEF TellsOn, EndsOn, Working, RunPhases
  <1>6. ASSUME Pops(h, Top(h).code), ret[h] = None, Ahead(Top(h)) = {}, Top(h).phase # "join" PROVE TellsOn(h)
    <2>1. Heard(h) => Top(h).code \notin {"ok", None}
      BY <1>2, <1>3, <1>6, ConstantsAssumption DEF Heard, Telling
    <2>2. NoneFailed(h) => Top(h).code \in {"ok", "cycle"}
      BY <1>4 DEF Clean
    <2> QED
      BY <1>3, <1>6, <2>1, <2>2 DEF TellsOn, EndsOn, Working, RunPhases
  <1>7. CASE GroupPrerequisiteReturns(h)
    <2>1. /\ Top(h).phase = "deps" /\ ret[h] \in Result
          /\ (ret[h] \in Err /\ Pops(h, ret[h])) \/ (ret[h] \in Code /\ Goes(h, Top(h)))
      BY <1>1, <1>7, GroupPrerequisiteReturnsMoves
    <2>2. CASE ret[h] \in Err /\ Pops(h, ret[h])
      BY <1>4, <1>5, <2>2, RetNone DEF Err
    <2>3. CASE ret[h] \in Code /\ Goes(h, Top(h))
      <3>1. ret[h] = "failed" => Telling(Top(h), Failed(h))
        BY <1>2, <2>1, NameAhead DEF FailureKnown, At
      <3>2. Heard(h) => Telling(Top(h), Failed(h)')
        BY <1>1, <1>2, <2>3, <3>1, TellingMore DEF Heard, Code
      <3>3. GoesOn(h, Top(h))
        BY <1>3, <1>4, <2>1, <2>3, <3>2 DEF GoesOn
      <3> QED
        BY <3>3 DEF TellsOn
    <2> QED
      BY <2>1, <2>2, <2>3
  <1>8. CASE StartGroup(h)
    <2>1. /\ Top(h).phase = "deps" /\ Top(h).todo = <<>> /\ ret[h] = None
          /\ \E f \in Frame : /\ Goes(h, f) /\ f.names = Top(h).names /\ f.code = "ok" /\ f.post = "ok" /\ f.task = None
                              /\ \/ f.phase = "fork" /\ f.at = Top(h).at /\ f.todo = <<>>
                                 \/ f.phase = "serial" /\ f.todo = Top(h).names
      BY <1>1, <1>8, StartGroupGoes DEF StartGroup, Ready
    <2>2. PICK f \in Frame : /\ Goes(h, f) /\ f.names = Top(h).names /\ f.code = "ok" /\ f.post = "ok" /\ f.task = None
                             /\ \/ f.phase = "fork" /\ f.at = Top(h).at /\ f.todo = <<>>
                                \/ f.phase = "serial" /\ f.todo = Top(h).names
      BY <2>1
    <2>3. Names(f) \subseteq Names(Top(h))
      BY <2>2, EmptyMembers DEF Names
    <2>4. Ahead(f) = ToSet(Top(h).names)
      <3>1. CASE f.phase = "serial"
        BY <2>2, <3>1 DEF Ahead
      <3>2. CASE f.phase = "fork"
        <4>1. Ahead(f) = {f.names[k] : k \in {j \in 1..Len(f.names) : j >= f.at}}
          BY <3>2 DEF Ahead
        <4>2. f.at = 1 /\ DOMAIN f.names = 1..Len(f.names) /\ Len(f.names) \in Nat
          BY <1>3, <2>1, <2>2, <3>2, Members
        <4> QED
          BY <2>2, <4>1, <4>2 DEF ToSet
      <3> QED
        BY <2>2, <3>1, <3>2
    <2>5. Heard(h) => Telling(f, Failed(h))
      <3>1. Ahead(Top(h)) = ToSet(Top(h).names)
        BY <2>1 DEF Ahead
      <3> QED
        BY <1>2, <1>3, <2>1, <2>4, <3>1 DEF Heard, Telling, RunPhases
    <2>6. Heard(h) => Telling(f, Failed(h)')
      BY <1>1, <2>5, TellingMore
    <2>7. Clean(f) /\ f.phase # "deps" /\ (Top(h).phase \in RunPhases => f.phase \in RunPhases)
      BY <1>3, <2>2 DEF Clean
    <2>8. GoesOn(h, f)
      BY <1>3, <2>2, <2>3, <2>6, <2>7 DEF GoesOn
    <2> QED
      BY <2>8 DEF TellsOn
  <1>9. CASE SerialTaskReturns(h)
    <2>1. Top(h).phase = "serial" /\ ret[h] \in Result
      BY <1>1, <1>9, SerialTaskReturnsMoves
    <2>2. CASE ret[h] \in Err /\ Pops(h, ret[h])
      BY <1>4, <1>5, <2>2, RetNone DEF Err
    <2>3. CASE ret[h] \in Code /\ ~(ret[h] \in Err /\ Pops(h, ret[h]))
      <3>1. PICK f : /\ f = Noted(Top(h), ret[h]) /\ Goes(h, f) /\ f \in Frame /\ f.todo = Top(h).todo
                     /\ f.names = Top(h).names /\ f.code = FirstFailure(Top(h).code, ret[h])
                     /\ f.phase = "serial" /\ f.task = Top(h).task /\ f.post = Top(h).post
        BY <1>1, <1>9, <2>3, SerialTaskReturnsMoves
      <3>2. f.code = "ok" <=> Top(h).code = "ok" /\ ret[h] = "ok"
        BY <1>3, <2>1, <3>1, FirstOf
      <3>3. Heard(h) => Telling(f, Failed(h))
        BY <1>2, <1>3, <2>1, <3>1, <3>2 DEF Heard, Telling, Ahead, RunPhases
      <3>4. Heard(h) => Telling(f, Failed(h)')
        BY <1>1, <3>3, TellingMore
      <3>5. NoneFailed(h) => Clean(f)
        <4> SUFFICES ASSUME NoneFailed(h) PROVE Clean(f)
          OBVIOUS
        <4>1. Top(h).code \in {"ok", "cycle"} /\ ret[h] = "ok"
          BY <1>4, <2>3, RetNone DEF Clean, Code
        <4>2. f.code = Top(h).code
          BY <3>1, <4>1 DEF FirstFailure
        <4> QED
          BY <1>3, <3>1, <4>1, <4>2 DEF Clean, Working
      <3>6. GoesOn(h, f)
        BY <1>3, <3>1, <3>4, <3>5 DEF GoesOn, Names
      <3> QED
        BY <3>6 DEF TellsOn
    <2> QED
      BY <1>1, <1>9, <2>2, <2>3, SerialTaskReturnsMoves
  <1>10. CASE EndSerial(h)
    <2>1. Pops(h, Top(h).code) /\ Top(h).phase = "serial" /\ Top(h).todo = <<>> /\ ret[h] = None
      BY <1>1, <1>10, EndsQuit DEF Quits, EndSerial, Ready
    <2>2. Ahead(Top(h)) = {}
      BY <2>1, EmptyMembers DEF Ahead
    <2> QED
      BY <1>6, <2>1, <2>2
  <1>11. CASE EndFork(h)
    <2>1. Pops(h, Top(h).code) /\ Top(h).phase = "fork" /\ Top(h).at > Len(Top(h).names) /\ ret[h] = None
      BY <1>1, <1>11, EndsQuit DEF Quits, EndFork, Ready
    <2>2. Ahead(Top(h)) = {}
      <3>1. Ahead(Top(h)) = {Top(h).names[k] : k \in {j \in 1..Len(Top(h).names) : j >= Top(h).at}}
        BY <2>1 DEF Ahead
      <3>2. {j \in 1..Len(Top(h).names) : j >= Top(h).at} = {}
        BY <1>1, <1>2, <1>3, <2>1, TopFacts
      <3> QED
        BY <3>1, <3>2
    <2> QED
      BY <1>6, <2>1, <2>2
  <1> QED
    BY <1>7, <1>8, <1>9, <1>10, <1>11

\* Every step of a thread but Fork and Join.
LEMMA PlainTells ==
  ASSUME Threads, Known, Ordered(plan), NEW h \in Alive, Plain(h), Done(h), FailureKnown(h),
         \A f \in Frames(h) : f.phase = "deps" => f.at = 1
  PROVE  TellsOn(h)
  BY TakesTell, WorksTell, NextTells, GroupsTell DEF Plain

-----------------------------------------------------------------------------
(* The exit code *)

Tells(h) == ret[h] \notin {"ok", None} \/ \E f \in Frames(h) : Telling(f, Failed(h))

\* A prerequisite of a group and what it waits for are prerequisites of the group.
GroupsHold(s) ==
  \A i \in 1..Len(s) : s[i].phase = "deps" =>
    /\ s[i].at = 1
    /\ i < Len(s) => s[i + 1].phase \in RunPhases /\ Names(s[i + 1]) \subseteq PrereqsOf(s[i])

Grounded == stack[Main] # <<>> => stack[Main][1].phase \in RunPhases
HeldAll == memo[Main].running \subseteq Held(Main)
NoCycleLeft == stack[Main] = <<>> => ret[Main] # "cycle"

\* While nothing has failed nothing tells of a failure, and when something has some thread does.
AllClean == bad = {} => (\A h \in Alive : CleanThread(h)) /\ HeldAll /\ NoCycleLeft
SomeTells == ~Idle /\ bad # {} => \E h \in Alive : Tells(h)
Placed == Grounded /\ \A h \in Alive : GroupsHold(stack[h]) /\ FailureKnown(h)
AllDone == \A h \in Alive : Done(h)

LEMMA HoldKept ==
  ASSUME UNCHANGED plan, NEW s
  PROVE  GroupsHold(s)' <=> GroupsHold(s)
  BY DEF GroupsHold, PrereqsOf, Prereqs

LEMMA TellingKept ==
  ASSUME UNCHANGED plan, NEW f, NEW S
  PROVE  Telling(f, S)' <=> Telling(f, S)
  BY DEF Telling, Ahead, InBatch, Prereqs

\* The innermost frame goes on.
LEMMA HoldOn ==
  ASSUME NEW s, NEW r, NEW n \in Nat \ {0}, Len(s) = n, Len(r) = n, \A i \in 1..(n - 1) : r[i] = s[i], GroupsHold(s),
         Names(r[n]) \subseteq Names(s[n]), s[n].phase \in RunPhases => r[n].phase \in RunPhases,
         r[n].phase = "deps" => s[n].phase = "deps" /\ r[n].at = s[n].at
  PROVE  GroupsHold(r)
  <1> SUFFICES ASSUME NEW i \in 1..n, r[i].phase = "deps"
               PROVE  /\ r[i].at = 1
                      /\ i < n => r[i + 1].phase \in RunPhases /\ Names(r[i + 1]) \subseteq PrereqsOf(r[i])
    BY DEF GroupsHold
  <1>1. CASE i = n
    BY <1>1 DEF GroupsHold
  <1>2. CASE i < n
    <2>1. i \in 1..(n - 1) /\ i + 1 \in 1..n /\ (i + 1 # n => i + 1 \in 1..(n - 1))
      BY <1>2
    <2>2. r[i] = s[i] /\ s[i + 1].phase \in RunPhases /\ Names(s[i + 1]) \subseteq PrereqsOf(s[i]) /\ s[i].at = 1
      BY <1>2, <2>1 DEF GroupsHold
    <2>3. CASE i + 1 = n
      BY <2>2, <2>3
    <2>4. CASE i + 1 # n
      BY <2>1, <2>2, <2>4
    <2> QED
      BY <2>3, <2>4
  <1> QED
    BY <1>1, <1>2

LEMMA HoldLess ==
  ASSUME NEW s, NEW r, NEW n \in Nat \ {0}, Len(s) = n, Len(r) = n - 1, \A i \in 1..(n - 1) : r[i] = s[i], GroupsHold(s)
  PROVE  GroupsHold(r)
  <1> SUFFICES ASSUME NEW i \in 1..(n - 1), r[i].phase = "deps"
               PROVE  /\ r[i].at = 1
                      /\ i < n - 1 => r[i + 1].phase \in RunPhases /\ Names(r[i + 1]) \subseteq PrereqsOf(r[i])
    BY DEF GroupsHold
  <1>1. r[i] = s[i] /\ i \in 1..n /\ i < n /\ (i < n - 1 => r[i + 1] = s[i + 1])
    OBVIOUS
  <1> QED
    BY <1>1 DEF GroupsHold

LEMMA HoldCall ==
  ASSUME NEW s, NEW r, NEW n \in Nat \ {0}, Len(s) = n, Len(r) = n + 1, \A i \in 1..(n - 1) : r[i] = s[i], GroupsHold(s),
         r[n].phase = s[n].phase, Names(r[n]) \subseteq Names(s[n]), r[n].at = s[n].at,
         r[n + 1].phase = "deps" => r[n + 1].at = 1,
         r[n].phase = "deps" => r[n + 1].phase = "next" /\ Names(r[n + 1]) \subseteq PrereqsOf(r[n])
  PROVE  GroupsHold(r)
  <1> SUFFICES ASSUME NEW i \in 1..(n + 1), r[i].phase = "deps"
               PROVE  /\ r[i].at = 1
                      /\ i < n + 1 => r[i + 1].phase \in RunPhases /\ Names(r[i + 1]) \subseteq PrereqsOf(r[i])
    BY DEF GroupsHold
  <1>1. CASE i = n + 1
    BY <1>1
  <1>2. CASE i = n
    BY <1>2 DEF GroupsHold, RunPhases
  <1>3. CASE i < n
    <2>1. i \in 1..(n - 1) /\ i + 1 \in 1..n /\ (i + 1 # n => i + 1 \in 1..(n - 1))
      BY <1>3
    <2>2. r[i] = s[i] /\ s[i + 1].phase \in RunPhases /\ Names(s[i + 1]) \subseteq PrereqsOf(s[i]) /\ s[i].at = 1
      BY <1>3, <2>1 DEF GroupsHold
    <2>3. CASE i + 1 = n
      BY <2>2, <2>3
    <2>4. CASE i + 1 # n
      BY <2>1, <2>2, <2>4
    <2> QED
      BY <2>3, <2>4
  <1> QED
    BY <1>1, <1>2, <1>3

LEMMA PlainPlaced ==
  ASSUME Threads, Known, Ordered(plan), AllDone, Placed, NEW h \in Alive, Plain(h)
  PROVE  TellsOn(h) /\ Placed'
  <1>1. /\ Keeps(h) /\ stack[h] # <<>> /\ UNCHANGED plan /\ Alive' = Alive
        /\ \A g \in Alive \ {h} : memo'[g] = memo[g] /\ stack'[g] = stack[g] /\ ret'[g] = ret[g]
    BY PlainOpen DEF Keeps, Outside
  <1>2. PICK n \in Nat \ {0} : n = Len(stack[h]) /\ Top(h) = stack[h][n]
    BY <1>1, TopFacts, StackFacts DEF Threads
  <1>3. TellsOn(h)
    <2>1. \A f \in Frames(h) : f.phase = "deps" => f.at = 1
      BY DEF Placed, GroupsHold, Frames
    <2> QED
      BY <2>1, PlainTells DEF AllDone, Placed
  <1>4. GroupsHold(stack[h]) /\ \A i \in 1..(n - 1) : stack'[h][i] = stack[h][i]
    BY <1>1, <1>2 DEF Placed, Keeps, Outside
  <1>5. PICK r : r = stack'[h]
    OBVIOUS
  <1>6. ASSUME GroupsHold(r), FailureKnown(h)', h = Main => Grounded' PROVE Placed'
    <2>1. GroupsHold(stack[h])'
      BY <1>1, <1>5, <1>6, HoldKept
    <2>2. ASSUME NEW g \in Alive \ {h} PROVE GroupsHold(stack[g])' /\ FailureKnown(g)' /\ (g = Main => Grounded')
      <3>1. PICK s : s = stack[g]
        OBVIOUS
      <3>2. GroupsHold(s)' <=> GroupsHold(s)
        BY <1>1, HoldKept
      <3>3. stack'[g] = s /\ FailureKnown(g)' <=> stack'[g] = s /\ FailureKnown(g)
        BY <1>1, <2>2, <3>1 DEF FailureKnown, At, Top, PrereqsOf, Prereqs, Failed, Completed
      <3> QED
        BY <1>1, <2>2, <3>1, <3>2, <3>3 DEF Placed, Grounded
    <2>3. Main \in Alive
      BY DEF Threads, TypeOK
    <2> QED
      BY <1>1, <1>6, <2>1, <2>2, <2>3 DEF Placed
  <1>7. ASSUME NEW f, GoesOn(h, f) PROVE Placed'
    <2>1. /\ ret'[h] = None /\ Len(r) = n /\ Top(h)' = f /\ r # <<>> /\ r \in Seq(Frame)
      BY <1>1, <1>2, <1>5, <1>7 DEF GoesOn, Goes, Keeps, Outside
    <2>2. r[n] = f
      BY <1>5, <2>1 DEF Top, Last
    <2>3. GroupsHold(r)
      BY <1>2, <1>4, <1>5, <1>7, <2>1, <2>2, HoldOn DEF GoesOn
    <2>4. FailureKnown(h)'
      BY <2>1, RetNone, ResultKinds DEF FailureKnown
    <2>5. h = Main => Grounded'
      <3>1. CASE n = 1
        <4> SUFFICES ASSUME h = Main PROVE Grounded'
          OBVIOUS
        <4>1. Top(h).phase \in RunPhases
          BY <1>1, <1>2, <3>1 DEF Grounded, Placed
        <4>2. stack'[h][1].phase \in RunPhases
          BY <1>5, <1>7, <2>2, <3>1, <4>1 DEF GoesOn
        <4> QED
          BY <4>2 DEF Grounded
      <3>2. CASE n # 1
        <4> SUFFICES ASSUME h = Main PROVE Grounded'
          OBVIOUS
        <4>1. stack'[h][1] = stack[h][1] /\ stack[h][1].phase \in RunPhases
          BY <1>1, <1>4, <3>2 DEF Grounded, Placed
        <4> QED
          BY <4>1 DEF Grounded
      <3> QED
        BY <3>1, <3>2
    <2> QED
      BY <1>6, <2>3, <2>4, <2>5
  <1>8. ASSUME NEW f, NEW g, CallsOn(h, f, g) PROVE Placed'
    <2>1. /\ ret'[h] = None /\ Len(r) = n + 1 /\ r[n] = f /\ Top(h)' = g /\ r # <<>> /\ r \in Seq(Frame)
      BY <1>1, <1>2, <1>5, <1>8 DEF CallsOn, Pushes, Keeps, Outside
    <2>2. r[n + 1] = g
      BY <1>5, <2>1 DEF Top, Last
    <2>3. GroupsHold(r)
      BY <1>2, <1>4, <1>5, <1>8, <2>1, <2>2, HoldCall DEF CallsOn
    <2>4. FailureKnown(h)'
      BY <2>1, RetNone, ResultKinds DEF FailureKnown
    <2>5. h = Main => Grounded'
      <3>1. CASE n = 1
        <4> SUFFICES ASSUME h = Main PROVE Grounded'
          OBVIOUS
        <4>1. Top(h).phase \in RunPhases
          BY <1>1, <1>2, <3>1 DEF Grounded, Placed
        <4>2. stack'[h][1].phase \in RunPhases
          BY <1>5, <1>8, <2>1, <3>1, <4>1 DEF CallsOn
        <4> QED
          BY <4>2 DEF Grounded
      <3>2. CASE n # 1
        <4> SUFFICES ASSUME h = Main PROVE Grounded'
          OBVIOUS
        <4>1. stack'[h][1] = stack[h][1] /\ stack[h][1].phase \in RunPhases
          BY <1>1, <1>4, <3>2 DEF Grounded, Placed
        <4> QED
          BY <4>1 DEF Grounded
      <3> QED
        BY <3>1, <3>2
    <2> QED
      BY <1>6, <2>3, <2>4, <2>5
  <1>9. ASSUME NEW c, EndsOn(h, c) PROVE Placed'
    <2>1. ret'[h] = c /\ Len(r) = n - 1 /\ r \in Seq(Frame)
      BY <1>1, <1>2, <1>5, <1>9 DEF EndsOn, Pops, Keeps, Outside
    <2>2. GroupsHold(r)
      BY <1>2, <1>4, <1>5, <2>1, HoldLess
    <2>3. FailureKnown(h)'
      <3> SUFFICES ASSUME c = "failed", At(h, "deps")' PROVE PrereqsOf(Top(h))' \cap Failed(h)' # {}
        BY <2>1 DEF FailureKnown
      <3>0. r # <<>> /\ Top(h)' = r[Len(r)]
        BY <1>5 DEF At, Top, Last
      <3>1. r # <<>> /\ Top(h)' = r[n - 1] /\ n - 1 \in 1..(n - 1) /\ n - 1 \in 1..n
        <4>1. Len(r) # 0
          BY <2>1, <3>0, EmptySeq
        <4> QED
          BY <2>1, <3>0, <4>1
      <3>2. Top(h)' = stack[h][n - 1] /\ Top(h)'.phase = "deps"
        BY <1>4, <1>5, <3>1 DEF At
      <3>3. Top(h).phase \in RunPhases /\ Names(Top(h)) \subseteq PrereqsOf(stack[h][n - 1])
        <4>1. PICK k : k = n - 1
          OBVIOUS
        <4>2. k \in 1..n /\ k < n /\ k + 1 = n
          BY <3>1, <4>1
        <4>3. stack[h][k].phase = "deps"
          BY <3>2, <4>1
        <4>4. stack[h][k + 1].phase \in RunPhases /\ Names(stack[h][k + 1]) \subseteq PrereqsOf(stack[h][k])
          BY <1>2, <1>4, <4>2, <4>3 DEF GroupsHold
        <4> QED
          BY <1>2, <4>1, <4>2, <4>4
      <3>4. PrereqsOf(Top(h))' = PrereqsOf(stack[h][n - 1])
        BY <1>1, <3>2 DEF PrereqsOf, Prereqs
      <3> QED
        BY <1>9, <3>3, <3>4 DEF EndsOn
    <2>4. h = Main => Grounded'
      <3>1. CASE n = 1
        <4>1. r = <<>>
          BY <2>1, <3>1, EmptySeq
        <4> QED
          BY <1>5, <4>1 DEF Grounded
      <3>2. CASE n # 1
        <4> SUFFICES ASSUME h = Main PROVE Grounded'
          OBVIOUS
        <4>1. stack'[h][1] = stack[h][1] /\ stack[h][1].phase \in RunPhases
          BY <1>1, <1>4, <3>2 DEF Grounded, Placed
        <4> QED
          BY <4>1 DEF Grounded
      <3> QED
        BY <3>1, <3>2
    <2> QED
      BY <1>6, <2>2, <2>3, <2>4
  <1> QED
    BY <1>3, <1>7, <1>8, <1>9 DEF TellsOn

\* What is told of in a thread goes on being told of by it.
LEMMA PlainSomeTells ==
  ASSUME Threads, Known, NEW h \in Alive, Plain(h), TellsOn(h), bad # {} => \E g \in Alive : Tells(g)
  PROVE  bad' # {} => \E g \in Alive' : Tells(g)'
  <1>1. /\ Keeps(h) /\ stack[h] # <<>> /\ UNCHANGED plan /\ Alive' = Alive
        /\ \A g \in Alive \ {h} : memo'[g] = memo[g] /\ stack'[g] = stack[g] /\ ret'[g] = ret[g] /\ Frames(g)' = Frames(g)
    BY PlainOpen DEF Keeps, Outside
  <1>2. /\ Frames(h) = Outer(h) \cup {Top(h)} /\ Failed(h) \subseteq Failed(h)' /\ bad \subseteq bad'
    BY <1>1, TopFacts, StackFacts, FailedGrows, PlainDoes DEF Threads, Steps, Changes
  <1>3. ASSUME NEW g \in Alive \ {h}, Tells(g) PROVE Tells(g)'
    <2>1. Failed(g)' = Failed(g) /\ ret'[g] = ret[g] /\ Frames(g)' = Frames(g)
      BY <1>1 DEF Failed, Completed
    <2>2. CASE ret[g] \notin {"ok", None}
      BY <2>1, <2>2 DEF Tells
    <2>3. ASSUME NEW f \in Frames(g), Telling(f, Failed(g)) PROVE Tells(g)'
      <3>1. PICK S : S = Failed(g)
        OBVIOUS
      <3>2. Telling(f, S)' /\ Failed(g)' = S
        BY <1>1, <2>1, <2>3, <3>1, TellingKept
      <3> QED
        BY <2>1, <3>2 DEF Tells
    <2> QED
      BY <1>3, <2>2, <2>3 DEF Tells
  <1>4. PICK S : S = Failed(h)'
    OBVIOUS
  <1>5. ASSUME NEW f, f \in Frames(h)', Telling(f, S) PROVE Tells(h)'
    <2>1. Telling(f, S)'
      BY <1>1, <1>5, TellingKept
    <2> QED
      BY <1>4, <1>5, <2>1 DEF Tells
  <1>6. ASSUME NEW f \in Outer(h), Telling(f, Failed(h)) PROVE Tells(h)'
    <2>1. f \in Frames(h)'
      BY <1>6, FramesAfter, <1>1, StackFacts DEF TellsOn, GoesOn, CallsOn, EndsOn, Goes, Pushes, Pops
    <2>2. Telling(f, S)
      BY <1>2, <1>4, <1>6, TellingMore
    <2> QED
      BY <1>5, <2>1, <2>2
  <1>7. ASSUME Heard(h) PROVE Tells(h)'
    <2>1. ASSUME NEW f, GoesOn(h, f) PROVE Tells(h)'
      BY <1>4, <1>5, <1>7, <2>1 DEF GoesOn, Goes
    <2>2. ASSUME NEW f, NEW g, CallsOn(h, f, g) PROVE Tells(h)'
      BY <1>4, <1>5, <1>7, <2>2 DEF CallsOn, Pushes
    <2>3. ASSUME NEW r, EndsOn(h, r) PROVE Tells(h)'
      BY <1>7, <2>3 DEF EndsOn, Pops, Tells
    <2> QED
      BY <2>1, <2>2, <2>3 DEF TellsOn
  <1>8. Tells(h) => Tells(h)'
    BY <1>2, <1>6, <1>7 DEF Tells, Heard
  <1>9. CASE bad' = bad
    BY <1>1, <1>3, <1>8, <1>9
  <1>10. CASE bad' # bad
    BY <1>1, <1>7, <1>10 DEF Heard
  <1> QED
    BY <1>9, <1>10

\* A step in which nothing fails leaves no failure, and only a body that is started runs.
LEMMA PlainUnfailed ==
  ASSUME Threads, Known, NEW h \in Alive, Plain(h), NoneFailed(h)
  PROVE  /\ Failed(h)' = {}
         /\ memo'[h].running \subseteq memo[h].running \/ \E t \in Task : StartBody(h, t)
  <1>1. TypeOK /\ Shape /\ Failed(h) = {}
    BY DEF Threads, NoneFailed, CleanThread
  <1>2. CASE UNCHANGED <<memo, fine>>
    BY <1>1, <1>2 DEF Failed, Completed
  <1>3. ASSUME NEW t \in Task, StartBody(h, t) PROVE Failed(h)' = {}
    BY <1>1, <1>3, MarkRunningDoes DEF StartBody, Failed
  <1>4. ASSUME NEW t \in Task, ReturnCompleted(h, t) \/ DecideFails(h, t) PROVE FALSE
    BY <1>1, <1>4 DEF ReturnCompleted, DecideFails, Failed, NoneFailed
  <1>5. ASSUME NEW t \in Task, Complete(h, t, "ok")
        PROVE  Failed(h)' = {} /\ memo'[h].running \subseteq memo[h].running
    BY <1>1, <1>5, CompleteDoes, ResultKinds DEF Failed
  <1>6. ASSUME NEW t \in Task, SkipFresh(h, t) PROVE Complete(h, t, "ok")
    BY <1>6 DEF SkipFresh
  <1>7. CASE EndWithSuccess(h)
    <2>1. Complete(h, Top(h).task, "ok") /\ Top(h).task \in Task
      BY <1>1, <1>7, EndWithSuccessGoes, WorkFacts DEF EndWithSuccess
    <2> QED
      BY <1>5, <2>1
  <1>8. ASSUME EndWithFailure(h) PROVE FALSE
    <2>1. /\ stack[h] # <<>> /\ Top(h).phase = "post" /\ FirstFailure(Top(h).code, Top(h).post) = "failed"
      BY <1>1, <1>8, EndWithFailureQuits DEF Quits
    <2>2. Clean(Top(h))
      BY <1>1, <2>1, TopFacts DEF NoneFailed, CleanThread
    <2> QED
      BY <2>1, <2>2 DEF Clean, FirstFailure, Working
  <1> QED
    BY <1>2, <1>3, <1>4, <1>5, <1>6, <1>7, <1>8, MemoKinds

LEMMA PlainClean ==
  ASSUME Threads, Known, Placed, NEW h \in Alive, Plain(h), TellsOn(h), AllClean
  PROVE  AllClean'
  <1> SUFFICES ASSUME bad' = {} PROVE (\A g \in Alive' : CleanThread(g)') /\ HeldAll' /\ NoCycleLeft'
    BY DEF AllClean
  <1>1. /\ Keeps(h) /\ stack[h] # <<>> /\ Alive' = Alive /\ TypeOK /\ Shape /\ Main \in Alive
        /\ \A g \in Alive \ {h} : memo'[g] = memo[g] /\ stack'[g] = stack[g] /\ ret'[g] = ret[g] /\ Frames(g)' = Frames(g)
    BY PlainOpen DEF Keeps, Outside, Threads, TypeOK
  <1>2. bad = {} /\ NoneFailed(h) /\ HeldAll /\ NoCycleLeft
    <2>1. bad \subseteq bad'
      BY PlainDoes DEF Threads, Steps, Changes
    <2> QED
      BY <2>1 DEF AllClean, NoneFailed
  <1>3. Frames(h) = Outer(h) \cup {Top(h)} /\ Failed(h)' = {} /\ Top(h) \in Frame /\ Shaped(Top(h))
    BY <1>1, <1>2, TopFacts, StackFacts, PlainUnfailed
  <1>4. CleanThread(h)'
    <2>1. \A f \in Outer(h) : Clean(f)
      BY <1>2, <1>3 DEF NoneFailed, CleanThread
    <2>2. \A f : Clean(f)' <=> Clean(f)
      BY DEF Clean
    <2>3. ASSUME NEW f, GoesOn(h, f) PROVE CleanThread(h)'
      BY <1>2, <1>3, <2>1, <2>3 DEF GoesOn, Goes, CleanThread, Clean
    <2>4. ASSUME NEW f, NEW g, CallsOn(h, f, g) PROVE CleanThread(h)'
      BY <1>2, <1>3, <2>1, <2>4 DEF CallsOn, Pushes, CleanThread, Clean
    <2>5. ASSUME NEW r, EndsOn(h, r) PROVE CleanThread(h)'
      BY <1>2, <1>3, <2>1, <2>5 DEF EndsOn, Pops, CleanThread, Clean
    <2> QED
      BY <2>3, <2>4, <2>5 DEF TellsOn
  <1>5. ASSUME NEW g \in Alive \ {h} PROVE CleanThread(g)'
    <2>1. CleanThread(g) /\ ret'[g] = ret[g] /\ Frames(g)' = Frames(g) /\ Failed(g)' = Failed(g)
      BY <1>1, <1>2, <1>5 DEF AllClean, Failed, Completed
    <2> QED
      BY <2>1 DEF CleanThread, Clean
  <1>6. CASE h # Main
    BY <1>1, <1>2, <1>4, <1>5, <1>6 DEF HeldAll, NoCycleLeft, Held
  <1>7. CASE h = Main
    <2>1. memo[h].running \subseteq Held(h) /\ None \notin Task
      BY <1>2, <1>7, ConstantsAssumption DEF HeldAll
    <2>2. Held(h) \subseteq Held(h)' \cup ({Top(h).task} \ memo'[h].running)
      <3>1. Held(h) = ({f.task : f \in Outer(h)} \cup {Top(h).task}) \cap Task
        BY <1>3 DEF Held
      <3>2. ASSUME NEW f, GoesOn(h, f) PROVE Held(h) \subseteq Held(h)' \cup ({Top(h).task} \ memo'[h].running)
        <4>1. Held(h)' = ({x.task : x \in Outer(h)} \cup {f.task}) \cap Task
          BY <3>2 DEF Held, GoesOn, Goes
        <4> QED
          BY <2>1, <3>1, <3>2, <4>1 DEF GoesOn
      <3>3. ASSUME NEW f, NEW g, CallsOn(h, f, g) PROVE Held(h) \subseteq Held(h)'
        <4>1. Held(h)' = ({x.task : x \in Outer(h)} \cup {f.task, g.task}) \cap Task
          BY <3>3 DEF Held, CallsOn, Pushes
        <4> QED
          BY <3>1, <3>3, <4>1 DEF CallsOn
      <3>4. ASSUME NEW r, EndsOn(h, r) PROVE Held(h) \subseteq Held(h)'
        <4>1. Held(h)' = {x.task : x \in Outer(h)} \cap Task
          BY <3>4 DEF Held, EndsOn, Pops
        <4>2. Top(h).task = None
          BY <1>2, <1>3, <3>4, NoTaskNow DEF EndsOn
        <4> QED
          BY <2>1, <3>1, <4>1, <4>2
      <3> QED
        BY <3>2, <3>3, <3>4 DEF TellsOn
    <2>3. ASSUME memo'[h].running \subseteq memo[h].running PROVE HeldAll'
      <3>1. memo'[h].running \subseteq Held(h)'
        BY <2>1, <2>2, <2>3
      <3> QED
        BY <1>7, <3>1 DEF HeldAll
    <2>4. ASSUME NEW t \in Task, StartBody(h, t) PROVE HeldAll'
      <3>1. memo'[h].running = memo[h].running \cup {t}
        BY <1>1, <2>4, MarkRunningDoes DEF StartBody
      <3>2. t \in Held(h)'
        BY <1>1, <2>4, StartBodyGoes DEF Held, Goes
      <3> QED
        BY <1>7, <2>1, <2>2, <3>1, <3>2 DEF HeldAll
    <2>5. HeldAll'
      BY <1>2, <2>3, <2>4, PlainUnfailed
    <2>6. NoCycleLeft'
      <3> SUFFICES ASSUME stack'[h] = <<>> PROVE ret'[h] # "cycle"
        BY <1>7 DEF NoCycleLeft
      <3>1. PICK r : EndsOn(h, r)
        <4>1. \A f : ~GoesOn(h, f)
          BY DEF GoesOn, Goes
        <4>2. \A f, g : ~CallsOn(h, f, g)
          BY DEF CallsOn, Pushes
        <4> QED
          BY <4>1, <4>2 DEF TellsOn
      <3>2. Len(stack[h]) = 1 /\ ret'[h] = r
        BY <1>1, <3>1, StackFacts, TopFacts DEF EndsOn, Pops
      <3>3. Top(h).phase \in RunPhases /\ Outer(h) = {}
        <4>1. Top(h) = stack[h][1]
          BY <1>1, <3>2, TopFacts, StackFacts
        <4>2. {i \in 1..(Len(stack[h]) - 1) : TRUE} = {}
          BY <3>2
        <4>3. Outer(h) = {}
          BY <3>2, <4>2 DEF Outer
        <4> QED
          BY <1>1, <1>7, <4>1, <4>3 DEF Placed, Grounded
      <3>4. ASSUME NEW t \in Task, ReferenceCycle(h, t) PROVE FALSE
        <4>1. t \in memo[h].running /\ Top(h).phase = "next"
          BY <3>4 DEF ReferenceCycle, Takes, Ready, At
        <4>2. Top(h).task = None
          BY <1>3, <4>1 DEF Shaped
        <4>3. Held(h) = {}
          BY <1>3, <2>1, <3>3, <4>2 DEF Held
        <4> QED
          BY <2>1, <4>1, <4>3
      <3> QED
        BY <1>2, <3>1, <3>2, <3>3, <3>4 DEF EndsOn
    <2> QED
      BY <1>1, <1>4, <1>5, <2>5, <2>6
  <1> QED
    BY <1>6, <1>7

LEMMA PlainAllDone ==
  ASSUME Threads, Known, ListsInTurn, AllDone, NEW h \in Alive, Plain(h)
  PROVE  AllDone'
  <1>1. /\ Keeps(h) /\ UNCHANGED plan /\ Alive' = Alive
        /\ \A g \in Alive \ {h} : memo'[g] = memo[g] /\ Frames(g)' = Frames(g)
    BY PlainOpen DEF Keeps
  <1>2. Done(h)'
    BY PlainDone DEF ListsInTurn, AllDone
  <1>3. ASSUME NEW g \in Alive \ {h} PROVE Done(g)'
    BY <1>1, <1>3 DEF AllDone, Done, Held, Ok, Completed, Prereqs
  <1> QED
    BY <1>1, <1>2, <1>3 DEF AllDone

\* Forking and joining change the innermost frame of a group, and no list of its.
LEMMA BatchPlaced ==
  ASSUME Threads, Placed, NEW h \in Alive, UNCHANGED plan, h \in Alive',
         Top(h).phase \in {"fork", "join"}, stack[h] # <<>>, stack'[h] # <<>>, ret'[h] = None,
         Len(stack'[h]) = Len(stack[h]), Top(h)' = stack'[h][Len(stack[h])],
         Names(Top(h)') = Names(Top(h)), Top(h)'.phase \in {"fork", "join"},
         \A i \in 1..(Len(stack[h]) - 1) : stack'[h][i] = stack[h][i]
  PROVE  /\ GroupsHold(stack[h])' /\ FailureKnown(h)'
         /\ h = Main => Grounded'
  <1>1. PICK n \in Nat \ {0} : n = Len(stack[h]) /\ Top(h) = stack[h][n]
    BY TopFacts, StackFacts DEF Threads
  <1>2. PICK r : r = stack'[h]
    OBVIOUS
  <1>3. r[n] = Top(h)' /\ Len(r) = n /\ \A i \in 1..(n - 1) : r[i] = stack[h][i]
    BY <1>1, <1>2
  <1>4. GroupsHold(r)
    <2>1. GroupsHold(stack[h])
      BY DEF Placed
    <2>2. Names(r[n]) \subseteq Names(stack[h][n]) /\ stack[h][n].phase \notin RunPhases /\ r[n].phase # "deps"
      BY <1>1, <1>3 DEF RunPhases
    <2> QED
      BY <1>1, <1>3, <2>1, <2>2, HoldOn
  <1>5. GroupsHold(stack[h])'
    BY <1>2, <1>4, HoldKept
  <1>6. FailureKnown(h)'
    BY RetNone, ResultKinds DEF FailureKnown
  <1>7. h = Main => Grounded'
    <2> SUFFICES ASSUME h = Main PROVE Grounded'
      OBVIOUS
    <2>1. stack[h][1].phase \in RunPhases
      BY DEF Placed, Grounded
    <2>2. n # 1
      BY <1>1, <2>1 DEF RunPhases
    <2>3. stack'[h][1] = stack[h][1]
      BY <1>2, <1>3, <2>2
    <2> QED
      BY <2>1, <2>3 DEF Grounded
  <1> QED
    BY <1>5, <1>6, <1>7

\* A thread that is left as it is.
LEMMA PlacedSame ==
  ASSUME UNCHANGED plan, NEW g \in Alive, stack'[g] = stack[g], ret'[g] = ret[g], memo'[g] = memo[g], Placed
  PROVE  GroupsHold(stack[g])' /\ FailureKnown(g)' /\ (g = Main => Grounded')
  <1>1. PICK s : s = stack[g]
    OBVIOUS
  <1>2. GroupsHold(s)' <=> GroupsHold(s)
    BY HoldKept
  <1>3. FailureKnown(g)' <=> FailureKnown(g)
    BY DEF FailureKnown, At, Top, PrereqsOf, Prereqs, Failed, Completed
  <1> QED
    BY <1>1, <1>2, <1>3 DEF Placed, Grounded

LEMMA TellsSame ==
  ASSUME UNCHANGED plan, NEW g, ret'[g] = ret[g], memo'[g] = memo[g], Frames(g)' = Frames(g), Tells(g)
  PROVE  Tells(g)'
  <1>1. Failed(g)' = Failed(g)
    BY DEF Failed, Completed
  <1>2. PICK S : S = Failed(g)
    OBVIOUS
  <1>3. ASSUME NEW f \in Frames(g), Telling(f, S) PROVE Tells(g)'
    <2>1. Telling(f, S)'
      BY <1>3, TellingKept
    <2> QED
      BY <1>1, <1>2, <2>1 DEF Tells
  <1> QED
    BY <1>2, <1>3 DEF Tells

\* A thread tells of what a frame of it tells of.
LEMMA TellsByFrame ==
  ASSUME UNCHANGED plan, NEW g, NEW f, f \in Frames(g)', NEW S, Telling(f, S), S \subseteq Failed(g)'
  PROVE  Tells(g)'
  <1>1. PICK T : T = Failed(g)'
    OBVIOUS
  <1>2. Telling(f, T)
    BY <1>1, TellingMore
  <1>3. Telling(f, T)'
    BY <1>2, TellingKept
  <1> QED
    BY <1>1, <1>3 DEF Tells

LEMMA CleanSame ==
  ASSUME NEW g, ret'[g] = ret[g], memo'[g] = memo[g], Frames(g)' = Frames(g), CleanThread(g)
  PROVE  CleanThread(g)'
  <1>1. Failed(g)' = Failed(g)
    BY DEF Failed, Completed
  <1> QED
    BY <1>1 DEF CleanThread, Clean

LEMMA ForkPlaced ==
  ASSUME Threads, Placed, NEW h \in Alive, Fork(h)
  PROVE  Placed'
  <1>1. ForkMoves(h) /\ UNCHANGED plan /\ Alive' = Alive \cup Forked(h) /\ Main \in Alive
    BY ForkDoes, ForkRest DEF Threads, TypeOK, ForkMoves
  <1>2. /\ stack[h] # <<>> /\ Top(h).phase = "fork" /\ Joining(h).phase = "join" /\ Joining(h).names = Top(h).names
        /\ Joining(h).todo = Top(h).todo /\ Joining(h).task = Top(h).task
    BY ForkFrame DEF Threads
  <1>3. GroupsHold(stack[h])' /\ FailureKnown(h)' /\ (h = Main => Grounded')
    <2>1. Top(h)' = stack'[h][Len(stack'[h])]
      BY <1>1 DEF ForkMoves, Top, Last
    <2>2. Names(Top(h)') = Names(Top(h))
      BY <1>1, <1>2 DEF ForkMoves, Names
    <2> QED
      BY <1>1, <1>2, <2>1, <2>2, BatchPlaced DEF ForkMoves
  <1>4. ASSUME NEW g \in Alive \ {h} PROVE GroupsHold(stack[g])' /\ FailureKnown(g)' /\ (g = Main => Grounded')
    BY <1>1, <1>4, PlacedSame DEF ForkMoves
  <1>5. ASSUME NEW w \in Forked(h) PROVE GroupsHold(stack[w])' /\ FailureKnown(w)'
    <2>1. PICK f : f = TaskFrame(Top(h).order, Last(w))
      OBVIOUS
    <2>2. stack'[w] = <<f>> /\ ret'[w] = None /\ f.phase = "next"
      BY <1>1, <2>1 DEF ForkMoves, TaskFrame, RunFrame
    <2> QED
      BY <2>2, RetNone, ResultKinds DEF GroupsHold, FailureKnown
  <1> QED
    BY <1>1, <1>3, <1>4, <1>5 DEF Placed

LEMMA ForkClean ==
  ASSUME Threads, NEW h \in Alive, Fork(h), AllClean
  PROVE  AllClean'
  <1>1. /\ ForkMoves(h) /\ bad' = bad /\ Alive' = Alive \cup Forked(h) /\ Main \in Alive
    BY ForkDoes, ForkRest DEF Threads, TypeOK, ForkMoves, history
  <1> SUFFICES ASSUME bad = {} PROVE (\A g \in Alive' : CleanThread(g)') /\ HeldAll' /\ NoCycleLeft'
    BY <1>1 DEF AllClean
  <1>2. HeldAll /\ NoCycleLeft /\ \A g \in Alive : CleanThread(g)
    BY DEF AllClean
  <1>3. /\ stack[h] # <<>> /\ Top(h) \in Frames(h) /\ Frames(h) = Outer(h) \cup {Top(h)} /\ Top(h).phase = "fork"
        /\ Joining(h).phase = "join" /\ Joining(h).code = Top(h).code /\ Joining(h).post = Top(h).post
        /\ Joining(h).task = Top(h).task
    BY ForkFrame, TopFacts, StackFacts DEF Threads
  <1>4. CleanThread(h)'
    <2>1. Failed(h)' = {} /\ ret'[h] = None /\ Frames(h)' = Outer(h) \cup {Joining(h)}
      BY <1>1, <1>2 DEF ForkMoves, CleanThread, Failed, Completed
    <2>2. Clean(Joining(h)) /\ \A f \in Outer(h) : Clean(f)
      BY <1>2, <1>3 DEF CleanThread, Clean, Working
    <2>3. \A f : Clean(f)' <=> Clean(f)
      BY DEF Clean
    <2> QED
      BY <2>1, <2>2, <2>3 DEF CleanThread
  <1>5. ASSUME NEW g \in Alive \ {h} PROVE CleanThread(g)'
    BY <1>1, <1>2, <1>5, CleanSame DEF ForkMoves
  <1>6. ASSUME NEW w \in Forked(h) PROVE CleanThread(w)'
    <2>1. PICK f : f = TaskFrame(Top(h).order, Last(w))
      OBVIOUS
    <2>2. ret'[w] = None /\ f.phase = "next" /\ f.code = "ok" /\ f.post = "ok" /\ Frames(w)' = {f}
      BY <1>1, <2>1 DEF ForkMoves, TaskFrame, RunFrame
    <2>3. Failed(w)' = {}
      BY <1>1, <1>2 DEF ForkMoves, CleanThread, Failed, Completed
    <2> QED
      BY <2>2, <2>3 DEF CleanThread, Clean, Working
  <1>7. HeldAll'
    <2>1. Held(Main)' = Held(Main)
      <3>1. CASE h = Main
        <4>1. Held(h)' = Held(h)
          BY <1>1, <1>3 DEF ForkMoves, Held
        <4> QED
          BY <3>1, <4>1
      <3>2. CASE h # Main
        <4>1. Frames(Main)' = Frames(Main)
          BY <1>1, <3>2 DEF ForkMoves
        <4> QED
          BY <4>1 DEF Held
      <3> QED
        BY <3>1, <3>2
    <2>2. memo'[Main] = memo[Main]
      BY <1>1 DEF ForkMoves
    <2> QED
      BY <1>2, <2>1, <2>2 DEF HeldAll
  <1>8. NoCycleLeft'
    BY <1>1, <1>2 DEF ForkMoves, NoCycleLeft
  <1> QED
    BY <1>1, <1>4, <1>5, <1>6, <1>7, <1>8

\* A task that a group has still to look at is told of by the group or by its worker.
LEMMA ForkTells ==
  ASSUME Threads, Known, AllDone, NEW h \in Alive, Fork(h), NEW g \in Alive, Tells(g)
  PROVE  \E k \in Alive' : Tells(k)'
  <1>1. /\ ForkMoves(h) /\ UNCHANGED plan /\ Alive' = Alive \cup Forked(h) /\ Failed(h)' = Failed(h)
        /\ \A w \in Forked(h) : Failed(w)' = Failed(h)
    <2>1. ForkMoves(h) /\ UNCHANGED plan /\ Alive' = Alive \cup Forked(h)
      BY ForkDoes, ForkRest DEF Threads, ForkMoves
    <2>2. memo'[h] = memo[h] /\ \A w \in Forked(h) : memo'[w] = memo[h]
      BY <2>1, ForkDoes DEF Threads, ForkMoves
    <2> QED
      BY <2>1, <2>2 DEF Failed, Completed
  <1>2. CASE g # h
    <2>1. Tells(g)'
      BY <1>1, <1>2, TellsSame DEF ForkMoves
    <2> QED
      BY <1>1, <2>1
  <1>3. CASE g = h
    <2>1. /\ stack[h] # <<>> /\ Top(h).phase = "fork" /\ ret[h] = None
          /\ Joining(h).phase = "join" /\ Joining(h).code = Top(h).code /\ Joining(h).post = Top(h).post
          /\ Joining(h).names = Top(h).names /\ Joining(h).at = Top(h).at
      BY ForkFrame DEF Threads
    <2>2. /\ Frames(h) = Outer(h) \cup {Top(h)} /\ Frames(h)' = Outer(h) \cup {Joining(h)} /\ plan \in Plans
          /\ Top(h).names \in Seq(Task) /\ Top(h).at \in Nat \ {0}
      BY <1>1, <2>1, TopFacts, StackFacts DEF Threads, ForkMoves
    <2>3. PICK f \in Frames(h) : Telling(f, Failed(h))
      BY <1>3, <2>1 DEF Tells
    <2>4. ASSUME f \in Outer(h) PROVE Tells(h)'
      BY <1>1, <2>2, <2>3, <2>4, TellsByFrame
    <2>5. ASSUME Telling(Joining(h), Failed(h)) PROVE Tells(h)'
      BY <1>1, <2>2, <2>5, TellsByFrame
    <2>6. ASSUME NEW t \in Task, Append(h, t) \in Forked(h), ({t} \cup ToSet(Prereqs[t])) \cap Failed(h) # {}
          PROVE  Tells(Append(h, t))'
      <3>1. PICK w : w = Append(h, t)
        OBVIOUS
      <3>2. Last(w) = t
        BY <2>6, <3>1, ThreadAppend DEF Threads, TypeOK, Thread
      <3>3. PICK c : c = TaskFrame(Top(h).order, t)
        OBVIOUS
      <3>4. Frames(w)' = {c}
        BY <1>1, <2>6, <3>1, <3>2, <3>3 DEF ForkMoves
      <3>5. c \in Frame /\ c.phase = "next" /\ c.todo = Append(Prereqs[t], t)
        BY <2>1, <2>2, <3>3, TopFacts, TaskFrameTypes DEF Threads
      <3>6. ToSet(c.todo) = ToSet(Prereqs[t]) \cup {t}
        BY <2>2, <3>5, PlanTypes, AppendMembers
      <3>7. Telling(c, Failed(h))
        BY <2>6, <3>5, <3>6, RunTelling DEF RunPhases
      <3>8. Failed(h) \subseteq Failed(w)'
        BY <1>1, <2>6, <3>1
      <3>9. Tells(w)'
        BY <1>1, <3>4, <3>7, <3>8, TellsByFrame
      <3> QED
        BY <3>1, <3>9
    <2>7. CASE f = Top(h)
      <3>1. CASE Top(h).code # "ok" \/ Top(h).post # "ok"
        <4>1. Telling(Joining(h), Failed(h))
          BY <2>1, <3>1 DEF Telling
        <4> QED
          BY <1>1, <2>5, <4>1
      <3>2. ASSUME NEW k \in 1..Len(Top(h).names), k >= Top(h).at,
                   ({Top(h).names[k]} \cup ToSet(Prereqs[Top(h).names[k]])) \cap Failed(h) # {}
            PROVE  \E i \in Alive' : Tells(i)'
        <4>1. PICK t : t = Top(h).names[k]
          OBVIOUS
        <4>2. t \in Task /\ DOMAIN Top(h).names = 1..Len(Top(h).names)
          BY <2>2, <4>1, ElementOfSeq, Members
        <4>3. CASE k >= Top(h).at + Batch
          <5>1. t \in Ahead(Joining(h))
            BY <2>1, <3>2, <4>1, <4>3 DEF Ahead
          <5>2. Telling(Joining(h), Failed(h))
            BY <3>2, <4>1, <5>1 DEF Telling
          <5> QED
            BY <1>1, <2>5, <5>2
        <4>4. CASE ~(k >= Top(h).at + Batch)
          <5>1. k \in InBatch(Top(h)) /\ k \in InBatch(Joining(h))
            BY <2>1, <2>2, <3>2, <4>2, <4>4, ConstantsAssumption DEF InBatch
          <5>2. CASE Completed(h, t) = "failed"
            <6>1. Telling(Joining(h), Failed(h))
              BY <2>1, <4>1, <4>2, <5>1, <5>2 DEF Telling, Failed
            <6> QED
              BY <1>1, <2>5, <6>1
          <5>3. CASE Completed(h, t) = "ok"
            <6>1. ToSet(Prereqs[t]) \subseteq Ok(h)
              BY <4>2, <5>3, RetNone, ResultKinds DEF AllDone, Done
            <6> QED
              BY <3>2, <4>1, <5>3, <6>1 DEF Ok, Failed
          <5>4. CASE Completed(h, t) = None
            <6>1. Append(h, t) \in Forked(h)
              BY <4>1, <5>1, <5>4 DEF Forked
            <6> QED
              BY <1>1, <2>6, <3>2, <4>1, <4>2, <6>1
          <5> QED
            BY <4>2, <5>2, <5>3, <5>4, CompletedTypes DEF Threads, Code
        <4> QED
          BY <4>3, <4>4
      <3>3. \/ Top(h).code # "ok" \/ Top(h).post # "ok"
            \/ \E k \in 1..Len(Top(h).names) : /\ k >= Top(h).at
                 /\ ({Top(h).names[k]} \cup ToSet(Prereqs[Top(h).names[k]])) \cap Failed(h) # {}
        <4>1. Ahead(Top(h)) = {Top(h).names[k] : k \in {j \in 1..Len(Top(h).names) : j >= Top(h).at}}
          BY <2>1 DEF Ahead
        <4> QED
          BY <2>1, <2>3, <2>7, <4>1 DEF Telling, RunPhases
      <3> QED
        BY <3>1, <3>2, <3>3
    <2> QED
      BY <1>1, <2>2, <2>4, <2>7
  <1> QED
    BY <1>2, <1>3

\* What merges into a result.
LEMMA MergeBad ==
  ASSUME NEW first \in Result, NEW results, DOMAIN results \subseteq Nat,
         first # "ok" \/ \E k \in DOMAIN results : results[k] \in Result \ {"ok"}
  PROVE  Merge(first, results) # "ok"
  <1>1. CASE first \in Err \/ \E k \in DOMAIN results : results[k] \in Err
    BY <1>1, MergeErr, RetNone
  <1>2. CASE first = "failed" \/ \E k \in DOMAIN results : results[k] = "failed"
    <2>1. first = "failed" \/ "failed" \in Range(results)
      BY <1>2 DEF Range
    <2>2. CASE \E k \in DOMAIN results : results[k] \in Err
      BY <1>1, <2>2
    <2>3. CASE first \notin Err /\ ~\E k \in DOMAIN results : results[k] \in Err
      <3>1. {i \in DOMAIN results : results[i] \in Err} = {}
        BY <2>3
      <3> QED
        BY <2>1, <2>3, <3>1 DEF Merge
    <2> QED
      BY <1>1, <2>2, <2>3
  <1> QED
    BY <1>1, <1>2 DEF Result, Code

LEMMA MergeClean ==
  ASSUME NEW first \in {"ok", "cycle"}, NEW results, DOMAIN results \subseteq Nat,
         \A k \in DOMAIN results : results[k] \in {"ok", "cycle"}
  PROVE  Merge(first, results) \in {"ok", "cycle"}
  <1> DEFINE errors == {i \in DOMAIN results : results[i] \in Err}
  <1>1. CASE first \in Err
    BY <1>1, MergeErr
  <1>2. CASE errors # {}
    <2>1. Min(errors) \in errors
      BY <1>2, MinExists
    <2>2. results[Min(errors)] \in {"ok", "cycle"}
      BY <2>1
    <2> QED
      BY <1>1, <1>2, <2>2 DEF Merge
  <1>3. CASE first \notin Err /\ errors = {}
    <2>1. first = "ok"
      BY <1>3 DEF Err
    <2>2. "failed" \notin Range(results)
      BY DEF Range
    <2> QED
      BY <1>3, <2>1, <2>2 DEF Merge
  <1> QED
    BY <1>1, <1>2, <1>3

LEMMA ThreadIs ==
  ASSUME NEW g \in Thread, g # <<>>
  PROVE  Append(Front(g), Last(g)) = g
  <1>1. /\ Front(g) \in Thread /\ Last(g) \in Task /\ Len(g) \in Nat \ {0} /\ Len(Front(g)) = Len(g) - 1
        /\ Last(g) = g[Len(g)] /\ \A i \in 1..(Len(g) - 1) : Front(g)[i] = g[i]
    BY ThreadFacts
  <1>2. PICK a : a = Append(Front(g), Last(g))
    OBVIOUS
  <1>3. a \in Thread /\ Len(a) = Len(g) /\ a[Len(g)] = g[Len(g)] /\ \A i \in 1..(Len(g) - 1) : a[i] = g[i]
    BY <1>1, <1>2, ThreadAppend
  <1>4. \A i \in 1..Len(a) : a[i] = g[i]
    BY <1>1, <1>3
  <1> QED
    BY <1>2, <1>3, <1>4, SeqEqual DEF Thread

\* The results of a batch that is joined.
LEMMA BatchResults ==
  ASSUME Threads, Zoned, NEW h \in Alive, Join(h)
  PROVE  /\ DOMAIN Results(h) = InBatch(Top(h)) /\ InBatch(Top(h)) \subseteq Nat
         /\ \A i \in InBatch(Top(h)) :
              LET t == Top(h).names[i]  w == Append(h, t) IN
              /\ t \in Task
              /\ \/ w \in Workers(h) /\ Results(h)[i] = ret[w] /\ ret[w] \in Result /\ Completed(h, t) = None
                 \/ w \notin Alive /\ Results(h)[i] = Completed(h, t) /\ Completed(h, t) \in Code
  <1>1. /\ stack[h] # <<>> /\ Top(h).phase = "join" /\ ret[h] = None
        /\ \A w \in Workers(h) : stack[w] = <<>> /\ ret[w] \in Result
    BY JoinFrame DEF Threads
  <1>2. Top(h).names \in Seq(Task) /\ Top(h).at \in Nat /\ h \in Thread
    BY <1>1, TopFacts DEF Threads, TypeOK
  <1>3. InBatch(Top(h)) \subseteq 1..Len(Top(h).names) /\ InBatch(Top(h)) \subseteq Nat
    BY <1>2, Members DEF InBatch
  <1>4. Manned(h)
    BY DEF Zoned
  <1>5. ASSUME NEW i \in InBatch(Top(h)), NEW t, t = Top(h).names[i], NEW w, w = Append(h, t)
        PROVE  /\ t \in Task
               /\ \/ w \in Workers(h) /\ Results(h)[i] = ret[w] /\ ret[w] \in Result /\ Completed(h, t) = None
                  \/ w \notin Alive /\ Results(h)[i] = Completed(h, t) /\ Completed(h, t) \in Code
    <2>1. t \in Task
      BY <1>2, <1>3, <1>5, ElementOfSeq
    <2>2. Results(h)[i] = IF w \in Alive THEN ret[w] ELSE Completed(h, t)
      BY <1>5 DEF Results, ResultOf
    <2>3. CASE w \in Alive
      <3>1. Front(w) = h /\ Last(w) = t /\ w # Main
        BY <1>2, <1>5, <2>1, ThreadAppend, ZenonT(60) DEF Main
      <3>2. Completed(Front(w), Last(w)) = None
        BY <2>3, <3>1 DEF Threads, Tree
      <3> QED
        BY <1>1, <2>1, <2>2, <2>3, <3>1, <3>2 DEF Workers
    <2>4. CASE w \notin Alive
      <3>1. Completed(h, t) # None
        BY <1>1, <1>4, <1>5, <2>4 DEF Manned, At
      <3> QED
        BY <2>1, <2>2, <2>4, <3>1, CompletedTypes DEF Threads
    <2> QED
      BY <2>3, <2>4
  <1>6. DOMAIN Results(h) = InBatch(Top(h))
    BY DEF Results
  <1> QED
    BY <1>3, <1>5, <1>6

LEMMA JoinPlaced ==
  ASSUME Threads, Placed, NEW h \in Alive, Join(h)
  PROVE  Placed'
  <1>1. JoinMoves(h) /\ UNCHANGED plan /\ Alive' = Alive \ Workers(h) /\ h \in Alive'
    BY JoinDoes, JoinRest, JoinFrame, NotJoining DEF Threads, JoinMoves, At, Join, Ready
  <1>2. /\ stack[h] # <<>> /\ Top(h).phase = "join" /\ Joined(h).phase = "fork" /\ Joined(h).names = Top(h).names
        /\ Joined(h).todo = Top(h).todo /\ Joined(h).task = Top(h).task
    BY JoinFrame DEF Threads
  <1>3. GroupsHold(stack[h])' /\ FailureKnown(h)' /\ (h = Main => Grounded')
    <2>1. Top(h)' = stack'[h][Len(stack'[h])]
      BY <1>1 DEF JoinMoves, Top, Last
    <2>2. Names(Top(h)') = Names(Top(h))
      BY <1>1, <1>2 DEF JoinMoves, Names
    <2> QED
      BY <1>1, <1>2, <2>1, <2>2, BatchPlaced DEF JoinMoves
  <1>4. ASSUME NEW g \in Alive' \ {h} PROVE GroupsHold(stack[g])' /\ FailureKnown(g)' /\ (g = Main => Grounded')
    BY <1>1, <1>4, PlacedSame DEF JoinMoves
  <1>5. Main \in Alive'
    BY <1>1 DEF Workers, Threads, TypeOK
  <1> QED
    BY <1>1, <1>3, <1>4, <1>5 DEF Placed

LEMMA JoinClean ==
  ASSUME Threads, Known, Zoned, NEW h \in Alive, Join(h), AllClean
  PROVE  AllClean'
  <1>1. /\ JoinMoves(h) /\ bad' = bad /\ Alive' = Alive \ Workers(h) /\ h \in Alive'
    BY JoinDoes, JoinRest, JoinFrame, NotJoining DEF Threads, JoinMoves, At, Join, Ready, history
  <1> SUFFICES ASSUME bad = {} PROVE (\A g \in Alive' : CleanThread(g)') /\ HeldAll' /\ NoCycleLeft'
    BY <1>1 DEF AllClean
  <1>2. HeldAll /\ NoCycleLeft /\ \A g \in Alive : CleanThread(g)
    BY DEF AllClean
  <1>3. /\ stack[h] # <<>> /\ Frames(h) = Outer(h) \cup {Top(h)}
        /\ Joined(h).phase = "fork" /\ Joined(h).code = Merge(Top(h).code, Results(h)) /\ Joined(h).post = Top(h).post
    BY JoinFrame, StackFacts, TopFacts DEF Threads
  <1>4. CleanThread(h)'
    <2>1. Failed(h)' = {}
      <3>1. \A t \in Task : Completed(h, t)' = Completed(Owner(h, t), t)
        BY JoinLearns
      <3>2. \A t \in Task : Completed(Owner(h, t), t) # "failed"
        BY <1>2, OwnerFacts DEF CleanThread, Failed
      <3> QED
        BY <3>1, <3>2 DEF Failed
    <2>2. Top(h).code \in {"ok", "cycle"} /\ Top(h).post = "ok" /\ \A f \in Outer(h) : Clean(f)
      BY <1>2, <1>3 DEF CleanThread, Clean
    <2>3. \A i \in DOMAIN Results(h) : Results(h)[i] \in {"ok", "cycle"}
      <3> SUFFICES ASSUME NEW i \in InBatch(Top(h)) PROVE Results(h)[i] \in {"ok", "cycle"}
        BY BatchResults
      <3>1. PICK t : t = Top(h).names[i]
        OBVIOUS
      <3>2. PICK w : w = Append(h, t)
        OBVIOUS
      <3>3. /\ t \in Task
            /\ \/ w \in Workers(h) /\ Results(h)[i] = ret[w] /\ ret[w] \in Result
               \/ Results(h)[i] = Completed(h, t) /\ Completed(h, t) \in Code
        BY <3>1, <3>2, BatchResults
      <3>4. CASE w \in Workers(h) /\ Results(h)[i] = ret[w] /\ ret[w] \in Result
        BY <1>2, <3>4, ConstantsAssumption DEF Workers, CleanThread
      <3>5. CASE Results(h)[i] = Completed(h, t) /\ Completed(h, t) \in Code
        BY <1>2, <3>3, <3>5 DEF CleanThread, Failed, Code
      <3> QED
        BY <3>3, <3>4, <3>5
    <2>4. Joined(h).code \in {"ok", "cycle"}
      BY <1>3, <2>2, <2>3, MergeClean, BatchResults
    <2>5. Clean(Joined(h)) /\ \A f : Clean(f)' <=> Clean(f)
      BY <1>3, <2>2, <2>4 DEF Clean, Working
    <2>6. ret'[h] = None /\ Frames(h)' = Outer(h) \cup {Joined(h)}
      BY <1>1 DEF JoinMoves
    <2> QED
      BY <2>1, <2>2, <2>5, <2>6 DEF CleanThread
  <1>5. ASSUME NEW g \in Alive' \ {h} PROVE CleanThread(g)'
    BY <1>1, <1>2, <1>5, CleanSame DEF JoinMoves
  <1>6. HeldAll' /\ NoCycleLeft'
    <2>1. CASE h = Main
      <3>1. Held(h)' = Held(h) /\ memo'[h].running = memo[h].running /\ stack'[h] # <<>>
        BY <1>1, JoinLearns DEF JoinMoves
      <3> QED
        BY <1>2, <2>1, <3>1 DEF HeldAll, NoCycleLeft
    <2>2. CASE h # Main
      <3>1. Main \in Alive' \ {h}
        BY <1>1, <2>2 DEF Workers, Threads, TypeOK
      <3>2. /\ memo'[Main] = memo[Main] /\ stack'[Main] = stack[Main] /\ ret'[Main] = ret[Main]
            /\ Frames(Main)' = Frames(Main)
        BY <1>1, <3>1 DEF JoinMoves
      <3> QED
        BY <1>2, <3>2 DEF HeldAll, NoCycleLeft, Held
    <2> QED
      BY <2>1, <2>2
  <1> QED
    BY <1>4, <1>5, <1>6

\* A worker tells of a failure by its result, and a failure of a batch is in its results.
LEMMA JoinTells ==
  ASSUME Threads, Known, Zoned, NEW h \in Alive, Join(h), NEW g \in Alive, Tells(g)
  PROVE  \E k \in Alive' : Tells(k)'
  <1>1. JoinMoves(h) /\ UNCHANGED plan /\ Alive' = Alive \ Workers(h) /\ h \in Alive'
    BY JoinDoes, JoinRest, JoinFrame, NotJoining DEF Threads, JoinMoves, At, Join, Ready
  <1>2. /\ stack[h] # <<>> /\ Top(h).phase = "join" /\ ret[h] = None /\ \A w \in Workers(h) : stack[w] = <<>>
        /\ Joined(h).phase = "fork" /\ Joined(h).names = Top(h).names /\ Joined(h).at = Top(h).at + Batch
        /\ Joined(h).code = Merge(Top(h).code, Results(h)) /\ Joined(h).post = Top(h).post
    BY JoinFrame DEF Threads
  <1>3. /\ Frames(h) = Outer(h) \cup {Top(h)} /\ Frames(h)' = Outer(h) \cup {Joined(h)} /\ Top(h).code \in Result
    BY <1>1, <1>2, TopFacts, StackFacts DEF Threads, JoinMoves
  <1>4. Failed(h) \subseteq Failed(h)'
    BY JoinLearns, RetNone, ResultKinds DEF Failed
  <1>5. ASSUME Top(h).code # "ok" \/ \E i \in InBatch(Top(h)) : Results(h)[i] \in Result \ {"ok"} PROVE Tells(h)'
    <2>1. Joined(h).code # "ok"
      BY <1>2, <1>3, <1>5, MergeBad, BatchResults
    <2>2. Telling(Joined(h), Failed(h))
      BY <2>1 DEF Telling
    <2> QED
      BY <1>1, <1>3, <1>4, <2>2, TellsByFrame
  <1>6. CASE g \in Workers(h)
    <2>1. stack[g] = <<>> /\ g \in Thread /\ g # <<>> /\ Front(g) = h
      BY <1>2, <1>6 DEF Workers, Threads, TypeOK, Main
    <2>2. ret[g] \notin {"ok", None}
      BY <2>1, NoFrames DEF Tells
    <2>3. PICK i \in InBatch(Top(h)) : Top(h).names[i] = Last(g)
      BY <1>6, OwnerIs
    <2>4. PICK w : w = Append(h, Top(h).names[i])
      OBVIOUS
    <2>5. w = g
      BY <2>1, <2>3, <2>4, ThreadIs
    <2>6. Results(h)[i] = ret[g] /\ ret[g] \in Result
      BY <2>4, <2>5, BatchResults, ZenonT(60)
    <2> QED
      BY <1>1, <1>5, <2>2, <2>6
  <1>7. CASE g \notin Workers(h) /\ g # h
    <2>1. g \in Alive' \ {h}
      BY <1>1, <1>7
    <2>2. Tells(g)'
      BY <1>1, <2>1, TellsSame DEF JoinMoves
    <2> QED
      BY <2>1, <2>2
  <1>8. CASE g = h
    <2>1. PICK f \in Frames(h) : Telling(f, Failed(h))
      BY <1>2, <1>8 DEF Tells
    <2>2. CASE f \in Outer(h)
      BY <1>1, <1>3, <1>4, <2>1, <2>2, TellsByFrame
    <2>3. CASE f = Top(h)
      <3>1. CASE Top(h).code # "ok"
        BY <1>1, <1>5, <3>1
      <3>2. ASSUME Telling(Joined(h), Failed(h)) PROVE Tells(h)'
        BY <1>1, <1>3, <1>4, <3>2, TellsByFrame
      <3>3. CASE Top(h).post # "ok"
        <4>1. Telling(Joined(h), Failed(h))
          BY <1>2, <3>3 DEF Telling
        <4> QED
          BY <1>1, <3>2, <4>1
      <3>4. ASSUME NEW t \in Ahead(Top(h)), ({t} \cup ToSet(Prereqs[t])) \cap Failed(h) # {}
            PROVE  Telling(Joined(h), Failed(h))
        <4>1. t \in {Top(h).names[k] : k \in {j \in 1..Len(Top(h).names) : j >= Top(h).at + Batch}}
          BY <1>2, <3>4 DEF Ahead
        <4>2. Ahead(Joined(h)) = {Joined(h).names[k] : k \in {j \in 1..Len(Joined(h).names) : j >= Joined(h).at}}
          BY <1>2 DEF Ahead
        <4>3. t \in Ahead(Joined(h))
          BY <1>2, <4>1, <4>2
        <4> QED
          BY <3>4, <4>3 DEF Telling
      <3>5. ASSUME NEW j \in InBatch(Top(h)), Top(h).names[j] \in Failed(h) PROVE Tells(h)'
        <4>1. PICK t : t = Top(h).names[j]
          OBVIOUS
        <4>2. Completed(h, t) = "failed" /\ "failed" # None /\ "failed" \in Result
          BY <3>5, <4>1, RetNone, ResultKinds DEF Failed
        <4>3. Results(h)[j] = "failed"
          BY <4>1, <4>2, BatchResults
        <4> QED
          BY <1>5, <4>2, <4>3
      <3> QED
        BY <1>1, <1>2, <2>1, <2>3, <3>1, <3>2, <3>3, <3>4, <3>5 DEF Telling, RunPhases
    <2> QED
      BY <1>1, <1>3, <2>2, <2>3
  <1> QED
    BY <1>6, <1>7, <1>8

\* No plan is run, or one is about to be.
JustBegun == Alone /\ ret[Main] = None /\ bad = {} /\ \A f \in Frames(Main) : Clean(f)

LEMMA BegunHonest ==
  JustBegun => AllDone /\ Placed /\ AllClean /\ SomeTells
  <1> SUFFICES ASSUME JustBegun PROVE AllDone /\ Placed /\ AllClean /\ SomeTells
    OBVIOUS
  <1>1. Alive = {Main} /\ memo[Main] = NoMemo /\ ret[Main] = None /\ bad = {}
    BY DEF JustBegun, Alone
  <1>2. \A t \in Task : Completed(Main, t) = None
    BY <1>1 DEF Completed, NoMemo
  <1>3. GroupsHold(stack[Main]) /\ Grounded /\ Held(Main) = {} /\ ~At(Main, "deps")
    <2>1. CASE stack[Main] = <<>>
      <3>1. GroupsHold(<<>>)
        BY DEF GroupsHold
      <3> QED
        BY <2>1, <3>1, NoFrames DEF Grounded, At
    <2>2. ASSUME NEW f, stack[Main] = <<f>>, f.phase = "next", f.task = None
          PROVE  GroupsHold(stack[Main]) /\ Grounded /\ Held(Main) = {} /\ ~At(Main, "deps")
      <3>1. Frames(Main) = {f} /\ Top(Main) = f
        BY <2>2 DEF Frames, Top, Last
      <3>2. GroupsHold(<<f>>)
        BY <2>2 DEF GroupsHold
      <3> QED
        BY <2>2, <3>1, <3>2, ConstantsAssumption DEF Held, At, Grounded, RunPhases
    <2> QED
      BY <2>1, <2>2 DEF JustBegun, Alone
  <1>4. AllDone
    BY <1>1, <1>2, <1>3 DEF AllDone, Done
  <1>5. Placed
    BY <1>1, <1>3 DEF Placed, FailureKnown
  <1>6. Failed(Main) = {}
    BY <1>2, RetNone, ResultKinds DEF Failed
  <1>7. AllClean
    <2>1. ret[Main] # "cycle" /\ memo[Main].running = {}
      BY <1>1, ConstantsAssumption DEF NoMemo, Result, Err
    <2> QED
      BY <1>1, <1>6, <2>1 DEF AllClean, CleanThread, JustBegun, HeldAll, NoCycleLeft
  <1> QED
    BY <1>1, <1>4, <1>5, <1>7 DEF SomeTells

LEMMA BegunNext == JustBegun' => AllDone' /\ Placed' /\ AllClean' /\ SomeTells'
  BY BegunHonest, PTL

\* When nothing but a source changes, and when the result of a plan is taken.
LEMMA HonestKept ==
  ASSUME UNCHANGED <<plan, stack, ret, memo, bad>>, AllDone, Placed, AllClean, SomeTells
  PROVE  AllDone' /\ Placed' /\ AllClean' /\ SomeTells'
  <1>1. Alive' = Alive
    BY DEF Alive
  <1>2. ASSUME NEW h PROVE Frames(h)' = Frames(h) /\ Held(h)' = Held(h) /\ Failed(h)' = Failed(h)
    BY DEF Frames, Held, Failed, Completed
  <1>3. AllDone'
    BY <1>1, <1>2 DEF AllDone, Done, Ok, Completed, Prereqs
  <1>4. Placed'
    BY <1>1, PlacedSame DEF Placed, Grounded
  <1>5. AllClean'
    BY <1>1, <1>2, CleanSame DEF AllClean, HeldAll, NoCycleLeft
  <1>6. SomeTells'
    <2>1. Idle' <=> Idle
      BY DEF Idle
    <2> QED
      BY <1>1, <1>2, <2>1, TellsSame DEF SomeTells
  <1> QED
    BY <1>3, <1>4, <1>5, <1>6

LEMMA FinishHonest ==
  ASSUME Threads, Finish, AllDone, Placed, AllClean, SomeTells
  PROVE  AllDone' /\ Placed' /\ AllClean' /\ SomeTells'
  <1>1. /\ UNCHANGED <<plan, stack, memo, bad>> /\ stack[Main] = <<>> /\ Alive = {Main} /\ ret'[Main] = None
        /\ Alive' = Alive
    BY MainAlone DEF Finish, Ended, history, Threads, TypeOK, Alive
  <1>2. ASSUME NEW h PROVE Frames(h)' = Frames(h) /\ Held(h)' = Held(h) /\ Failed(h)' = Failed(h)
    BY <1>1 DEF Frames, Held, Failed, Completed
  <1>3. AllDone'
    BY <1>1, <1>2 DEF AllDone, Done, Ok, Completed, Prereqs
  <1>4. PICK s : s = stack[Main]
    OBVIOUS
  <1>5. GroupsHold(s)' <=> GroupsHold(s)
    BY <1>1, HoldKept
  <1>6. ret'[Main] \notin {"failed", "cycle"}
    BY <1>1, RetNone, ConstantsAssumption DEF Result, Code, Err
  <1>7. Placed'
    BY <1>1, <1>4, <1>5, <1>6 DEF Placed, Grounded, FailureKnown
  <1>8. AllClean'
    BY <1>1, <1>2, <1>6 DEF AllClean, CleanThread, Clean, HeldAll, NoCycleLeft
  <1>9. SomeTells'
    BY <1>1 DEF SomeTells, Idle
  <1> QED
    BY <1>3, <1>7, <1>8, <1>9

LEMMA HonestStep ==
  ASSUME Threads, Known, Ordered(plan), ListsInTurn, Zoned, AllDone, Placed, AllClean, SomeTells, [Next]_vars
  PROVE  AllDone' /\ Placed' /\ AllClean' /\ SomeTells'
  <1>1. CASE Invoke
    <2>1. PICK f : f = FirstFrame
      OBVIOUS
    <2>2. /\ Alive' = {Main} /\ stack'[Main] = <<f>> /\ f.phase = "next" /\ f.task = None /\ memo'[Main] = NoMemo
          /\ ret'[Main] = None /\ bad' = {} /\ Frames(Main)' = {f}
      BY <1>1, <2>1, InvokeMoves DEF Threads
    <2>3. f.code = "ok" /\ f.post = "ok"
      BY <2>1 DEF FirstFrame, RunFrame
    <2>4. JustBegun'
      BY <2>2, <2>3 DEF JustBegun, Alone, Clean, Working
    <2> QED
      BY <2>4, BegunNext
  <1>2. CASE Finish
    BY <1>2, FinishHonest
  <1>3. ASSUME NEW t \in Task, Edit(t) PROVE AllDone' /\ Placed' /\ AllClean' /\ SomeTells'
    <2>1. UNCHANGED <<plan, stack, ret, memo, bad>>
      BY <1>3 DEF Edit, threads, history
    <2> QED
      BY <2>1, HonestKept
  <1>4. CASE UNCHANGED vars
    <2>1. UNCHANGED <<plan, stack, ret, memo, bad>>
      BY <1>4 DEF vars, threads, history
    <2> QED
      BY <2>1, HonestKept
  <1>5. ASSUME NEW h \in Alive, Plain(h) \/ Fork(h) \/ Join(h) PROVE AllDone' /\ Placed' /\ AllClean' /\ SomeTells'
    <2>1. stack[h] # <<>>
      BY <1>5, PlainMoves, ForkFrame, JoinFrame DEF Threads
    <2>2. bad # {} => \E g \in Alive : Tells(g)
      BY <2>1, MainAlone DEF Threads, Idle, SomeTells
    <2>3. CASE Plain(h)
      <3>1. TellsOn(h) /\ Placed'
        BY <2>3, PlainPlaced
      <3>2. AllDone' /\ AllClean'
        BY <2>3, <3>1, PlainAllDone, PlainClean
      <3>3. bad' # {} => \E g \in Alive' : Tells(g)'
        BY <2>2, <2>3, <3>1, PlainSomeTells
      <3> QED
        BY <3>1, <3>2, <3>3 DEF SomeTells
    <2>4. ASSUME Fork(h) \/ Join(h) PROVE AllDone' /\ bad' = bad
      <3>1. At(h, "fork") \/ At(h, "join")
        BY <2>4, ForkFrame, JoinFrame DEF Threads, At
      <3>2. ~Ordering
        BY <3>1 DEF Zoned, Divided, Divides
      <3>3. UNCHANGED plan /\ bad' = bad
        BY <2>4 DEF Fork, Join, history
      <3>4. Zoned' /\ ~Ordering'
        BY <2>4, <3>2, <3>3, ForkZoned, JoinZoned DEF Ordering
      <3> QED
        BY <3>3, <3>4 DEF Zoned, AllDone
    <2>5. CASE Fork(h)
      <3>1. Placed' /\ AllClean'
        BY <2>5, ForkPlaced, ForkClean
      <3>2. bad # {} => \E k \in Alive' : Tells(k)'
        BY <2>2, <2>5, ForkTells
      <3> QED
        BY <2>4, <2>5, <3>1, <3>2 DEF SomeTells
    <2>6. CASE Join(h)
      <3>1. Placed' /\ AllClean'
        BY <2>6, JoinPlaced, JoinClean
      <3>2. bad # {} => \E k \in Alive' : Tells(k)'
        BY <2>2, <2>6, JoinTells
      <3> QED
        BY <2>4, <2>6, <3>1, <3>2 DEF SomeTells
    <2> QED
      BY <1>5, <2>3, <2>5, <2>6
  <1> QED
    BY <1>1, <1>2, <1>3, <1>4, <1>5, StepKinds DEF Next

\* If in every plan a task comes after what is listed for it, ExitCodeIsHonest holds in
\* every reachable state: at the end of a run the exit code is zero exactly if nothing
\* failed, whatever group and thread it failed in.
THEOREM ExitCodesAreHonest ==
  ASSUME \A p \in Plans : Ordered(p)
  PROVE  Spec => []ExitCodeIsHonest
  <1> DEFINE I == Threads /\ Known /\ ListsInTurn /\ Zoned /\ AllDone /\ Placed /\ AllClean /\ SomeTells
  <1>1. Init => I
    <2> SUFFICES ASSUME Init PROVE I
      OBVIOUS
    <2>1. stack[Main] = <<>>
      BY DEF Init, JustMain
    <2>2. JustBegun
      BY <2>1, NoFrames DEF Init, JustMain, JustBegun, Alone, Alive
    <2> QED
      BY <2>2, BegunHonest, ThreadsInit, KnownInit, ListsInit, ZonedInit
  <1>2. I /\ [Next]_vars => I'
    <2> SUFFICES ASSUME I, [Next]_vars PROVE I'
      OBVIOUS
    <2>1. Ordered(plan)
      BY DEF Threads, TypeOK
    <2> QED
      BY <2>1, ThreadsStep, KnownStep, ListsStep, ZonedStep, HonestStep
  <1>3. I => ExitCodeIsHonest
    <2> SUFFICES ASSUME I, Ended PROVE ret[Main] = "ok" <=> bad = {}
      BY DEF ExitCodeIsHonest
    <2>1. Alive = {Main} /\ Frames(Main) = {} /\ ret[Main] # None /\ stack[Main] = <<>>
      BY MainAlone, NoFrames DEF Ended, Threads
    <2>2. ASSUME bad # {} PROVE ret[Main] # "ok"
      <3>1. Tells(Main)
        BY <2>1, <2>2 DEF SomeTells, Idle
      <3> QED
        BY <2>1, <3>1 DEF Tells
    <2>3. ASSUME bad = {} PROVE ret[Main] = "ok"
      <3>1. CleanThread(Main) /\ NoCycleLeft
        BY <2>1, <2>3 DEF AllClean
      <3> QED
        BY <2>1, <3>1 DEF CleanThread, NoCycleLeft
    <2> QED
      BY <2>2, <2>3
  <1> QED
    BY <1>1, <1>2, <1>3, PTL DEF Spec

=============================================================================

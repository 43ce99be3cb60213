------------------------------ MODULE TaskRunner ------------------------------
(***************************************************************************)
(* `osdk run` (tasks/runner.rs, tasks/freshness.rs): one thread walks the  *)
(* plan, a grouped step calls back into the walk for the tasks it names and*)
(* may fork a thread for each, and every thread works on a copy of the memo*)
(* and of the freshness records that is merged when it is joined.  A thread*)
(* is its call stack: frames of execute_full_inner ("run") and of          *)
(* execute_group ("group").                                                *)
(***************************************************************************)
EXTENDS Tasks

CONSTANTS
  Plans,        \* the plans that may be run, see Plan
  Sources,      \* the tasks that declare `sources`, compared by hash
  Batch,        \* workers of a group at a time; 8 in the code
  Errors,       \* where an error may arise: "body", "post", "sources"
  MaxEdits, MaxRuns,
  None

\* A step runs a command, or a group of tasks; a command's failure may be ignored.
Command(ignore) == [tasks |-> <<>>, ignore |-> ignore]
Group(tasks) == [tasks |-> tasks, ignore |-> FALSE]
IsGroup(step) == step.tasks # <<>>

\* A thread is named by the grouped tasks that forked it, one in another.
Thread == Seq(Task)
Main == <<>>

Code == {"ok", "failed"}         \* an exit code, zero or not
Err == {"error", "cycle"}        \* an Err: a timeout or failed spawn; a reference cycle
Result == Code \cup Err
Step == [tasks : Seq(Task), ignore : BOOLEAN]

\* The task the user named; the tasks in plan order; the ordered dependency closure
\* of each, without the task; the steps of `run` and `run_post`; whether some task
\* has a `wait_for`.
Plan == [root : Task, order : Seq(Task), prereqs : [Task -> Seq(Task)],
         body : [Task -> Seq(Step)], post : [Task -> Seq(Step)], ordering : BOOLEAN]

ASSUME ConstantsAssumption ==
  /\ \A p \in Plans : p \in Plan
  /\ None \notin Task \cup Nat \cup Result
  /\ Sources \subseteq Task /\ Errors \subseteq {"body", "post", "sources"}
  /\ Batch \in Nat \ {0} /\ MaxEdits \in Nat /\ MaxRuns \in Nat

VARIABLES
  plan,       \* the plan of the project's task
  stack,      \* stack[h]: the frames of the living thread h, innermost last
  ret,        \* ret[h]: what the frame just left returned, or None
  memo,       \* memo[h]: the tasks completed, with their code, and running
  record,     \* record[h][t]: the version of t's sources recorded, or None
  disk,       \* the freshness state file
  source,     \* source[t]: the version of t's sources
  runs,
  starts, posts, \* how often t's body was started, post steps tried, in this run (history)
  fine, bad,  \* tasks that succeeded or were skipped, and that failed, in this run (history)
  good,       \* good[t]: versions t's sources had as a run of it ended well (history)
  kept        \* kept[t]: the version with which t last succeeded or was fresh (history)

threads == <<stack, ret, memo, record>>
history == <<starts, posts, fine, bad, good, kept>>
vars == <<plan, threads, disk, source, runs, history>>

Order == plan.order
Prereqs == plan.prereqs
Body == plan.body
Post == plan.post
Ordering == plan.ordering

Version == 0..MaxEdits
Alive == DOMAIN stack

RunPhases == {"next", "body", "post"}
GroupPhases == {"deps", "serial", "fork", "join"}
Frame == [order : Seq(Task), todo : Seq(Task), task : Task \cup {None},
          phase : RunPhases \cup GroupPhases, at : Nat \ {0}, code : Result, post : Code,
          names : Seq(Task), branches : Seq(SUBSET Task)]
Memo == [completed : [Task -> Code \cup {None}], running : SUBSET Task]
Records == [Task -> Version \cup {None}]

TypeOK ==
  /\ plan \in Plans
  /\ Alive \subseteq Thread /\ Main \in Alive
  /\ stack \in [Alive -> Seq(Frame)] /\ ret \in [Alive -> Result \cup {None}]
  /\ memo \in [Alive -> Memo] /\ record \in [Alive -> Records]
  /\ disk \in Records /\ source \in [Task -> Version] /\ runs \in 0..MaxRuns
  /\ starts \in [Task -> Nat] /\ posts \in [Task -> Nat]
  /\ fine \subseteq Task /\ bad \subseteq Task
  /\ good \in [Task -> SUBSET Version] /\ kept \in [Task -> Version]

NoMemo == [completed |-> [t \in Task |-> None], running |-> {}]
NoRecord == [t \in Task |-> None]
JustMain(x) == [h \in {Main} |-> x]

Init ==
  /\ plan \in Plans
  /\ stack = JustMain(<<>>) /\ ret = JustMain(None)
  /\ memo = JustMain(NoMemo) /\ record = JustMain(NoRecord)
  /\ disk = NoRecord /\ source = [t \in Task |-> 0] /\ runs = 0
  /\ starts = [t \in Task |-> 0] /\ posts = [t \in Task |-> 0]
  /\ fine = {} /\ bad = {}
  /\ good = [t \in Task |-> {}] /\ kept = [t \in Task |-> 0]

-----------------------------------------------------------------------------
(* Frames *)

RunFrame(order, todo) ==
  [order |-> order, todo |-> todo, task |-> None, phase |-> "next", at |-> 1,
   code |-> "ok", post |-> "ok", names |-> <<>>, branches |-> <<>>]

\* execute_group_task: t after its prerequisites, which also lead the plan's order.
TaskFrame(order, t) ==
  LET selected == Append(Prereqs[t], t) IN
  RunFrame(selected \o Among(order, Task \ ToSet(selected)), selected)

\* The tasks of s in plan order.
Sorted(order, s) == FlattenSeq([i \in DOMAIN order |-> Among(s, {order[i]})])

\* execute_group: with a `wait_for` about, the group's tasks go in plan order.
GroupFrame(order, tasks) ==
  LET names == IF Ordering THEN Sorted(order, tasks) ELSE tasks IN
  [order |-> order, todo |-> FlattenSeq([i \in DOMAIN names |-> Prereqs[names[i]]]),
   task |-> None, phase |-> "deps", at |-> 1, code |-> "ok", post |-> "ok",
   names |-> names, branches |-> <<>>]

Top(h) == Last(stack[h])
At(h, phase) == stack[h] # <<>> /\ Top(h).phase = phase
Ready(h, phase) == At(h, phase) /\ ret[h] = None
Returned(h, phase) == At(h, phase) /\ ret[h] # None

\* A frame goes on as f, calls g from f, or returns r.
Continue(h, f) == stack' = [stack EXCEPT ![h] = Append(Front(@), f)] /\ ret' = [ret EXCEPT ![h] = None]
Call(h, f, g) == stack' = [stack EXCEPT ![h] = Front(@) \o <<f, g>>] /\ UNCHANGED ret
Return(h, r) == stack' = [stack EXCEPT ![h] = Front(@)] /\ ret' = [ret EXCEPT ![h] = r]

Completed(h, t) == memo[h].completed[t]
\* Mutant: only successes are remembered.
CompleteSuccess(h, t, code) ==
  memo' = [memo EXCEPT ![h] = [completed |-> [@.completed EXCEPT ![t] = IF code = "ok" THEN code ELSE @],
                               running |-> @.running \ {t}]]
Complete(h, t, code) ==
  memo' = [memo EXCEPT ![h] = [completed |-> [@.completed EXCEPT ![t] = code],
                               running |-> @.running \ {t}]]

\* Mutant: the last code counts.
LastCode(first, code) == code
FirstFailure(first, code) == IF first = "ok" THEN code ELSE first

-----------------------------------------------------------------------------
(* execute_full_inner: choosing the next task *)

\* The list is done, or the next task has succeeded already.
EndOfList(h) ==
  /\ Ready(h, "next") /\ Top(h).todo = <<>>
  /\ Return(h, "ok")
  /\ UNCHANGED <<memo, record, disk, plan, source, runs, history>>

\* Mutant: a task that failed is passed over like one that succeeded.
SkipEverCompleted(h) ==
  LET f == Top(h) IN
  /\ Ready(h, "next") /\ f.todo # <<>> /\ Completed(h, Head(f.todo)) # None
  /\ Continue(h, [f EXCEPT !.todo = Tail(@)])
  /\ UNCHANGED <<memo, record, disk, plan, source, runs, history>>

SkipCompleted(h) ==
  LET f == Top(h) IN
  /\ Ready(h, "next") /\ f.todo # <<>> /\ Completed(h, Head(f.todo)) = "ok"
  /\ Continue(h, [f EXCEPT !.todo = Tail(@)])
  /\ UNCHANGED <<memo, record, disk, plan, source, runs, history>>

\* The next task of h is t, which has not succeeded in this run.
Takes(h, t) ==
  /\ Ready(h, "next") /\ Top(h).todo # <<>>
  /\ Head(Top(h).todo) = t /\ Completed(h, t) # "ok"

MarkRunning(h, t) == memo' = [memo EXCEPT ![h].running = @ \cup {t}]

ReferenceCycle(h, t) ==
  /\ Takes(h, t) /\ t \in memo[h].running
  /\ Return(h, "cycle")
  /\ UNCHANGED <<memo, record, disk, plan, source, runs, history>>

\* The code of a task that failed before is returned; the task stays running.
ReturnCompleted(h, t) ==
  /\ Takes(h, t) /\ t \notin memo[h].running /\ Completed(h, t) = "failed"
  /\ MarkRunning(h, t) /\ Return(h, "failed")
  /\ UNCHANGED <<record, disk, plan, source, runs, history>>

Decides(h, t) == Takes(h, t) /\ t \notin memo[h].running /\ Completed(h, t) = None

\* Mutant: a task that has a record is fresh.
EverRecorded(h, t) == t \in Sources /\ record[h][t] # None
Fresh(h, t) == t \in Sources /\ record[h][t] = source[t]

SkipFresh(h, t) ==
  LET f == Top(h) IN
  /\ Decides(h, t) /\ Fresh(h, t)
  /\ Complete(h, t, "ok") /\ fine' = fine \cup {t} /\ kept' = [kept EXCEPT ![t] = source[t]]
  /\ Continue(h, [f EXCEPT !.todo = Tail(@)])
  /\ UNCHANGED <<record, disk, plan, source, runs, starts, posts, bad, good>>

\* A `sources` pattern matches nothing.
DecideFails(h, t) ==
  /\ Decides(h, t) /\ t \in Sources /\ "sources" \in Errors
  /\ MarkRunning(h, t) /\ Return(h, "error") /\ bad' = bad \cup {t}
  /\ UNCHANGED <<record, disk, plan, source, runs, starts, posts, fine, good, kept>>

StartBody(h, t) ==
  LET f == Top(h) IN
  /\ Decides(h, t) /\ ~Fresh(h, t)
  /\ MarkRunning(h, t)
  /\ Continue(h, [f EXCEPT !.todo = Tail(@), !.task = t, !.phase = "body", !.at = 1,
                           !.code = "ok", !.post = "ok"])
  /\ starts' = [starts EXCEPT ![t] = @ + 1]
  /\ UNCHANGED <<record, disk, plan, source, runs, posts, fine, bad, good, kept>>

-----------------------------------------------------------------------------
(* execute_full_inner: the steps of the task, then its teardown *)

\* Mutant: an Err leaves without the teardown.
TeardownUnlessError(f, code) ==
  [f EXCEPT !.phase = "post", !.code = code,
            !.at = IF code \in Err THEN Len(Post[f.task]) + 1 ELSE 1]

\* The body ends with code; run_post_steps begins.
Teardown(f, code) == [f EXCEPT !.phase = "post", !.at = 1, !.code = code]

AfterStep(f, code) == IF code = "ok" THEN [f EXCEPT !.at = @ + 1] ELSE Teardown(f, code)

Fails(t, code) == bad' = IF code = "ok" THEN bad ELSE bad \cup {t}

\* A command exits, or cannot be run, or is killed when its time is over.
BodyCommand(h) ==
  LET f == Top(h)  step == Body[f.task][f.at] IN
  /\ Ready(h, "body") /\ f.at <= Len(Body[f.task]) /\ ~IsGroup(step)
  /\ \E exit \in Code \cup (IF "body" \in Errors THEN {"error"} ELSE {}) :
       LET code == IF exit = "failed" /\ step.ignore THEN "ok" ELSE exit IN
       Continue(h, AfterStep(f, code)) /\ Fails(f.task, code)
  /\ UNCHANGED <<memo, record, disk, plan, source, runs, starts, posts, fine, good, kept>>

BodyGroup(h) ==
  LET f == Top(h)  step == Body[f.task][f.at] IN
  /\ Ready(h, "body") /\ f.at <= Len(Body[f.task]) /\ IsGroup(step)
  /\ Call(h, f, GroupFrame(f.order, step.tasks))
  /\ UNCHANGED <<memo, record, disk, plan, source, runs, history>>

BodyGroupReturns(h) ==
  /\ Returned(h, "body")
  /\ Continue(h, AfterStep(Top(h), ret[h])) /\ Fails(Top(h).task, ret[h])
  /\ UNCHANGED <<memo, record, disk, plan, source, runs, starts, posts, fine, good, kept>>

EndOfBody(h) ==
  LET f == Top(h) IN
  /\ Ready(h, "body") /\ f.at > Len(Body[f.task])
  /\ Continue(h, Teardown(f, "ok"))
  /\ UNCHANGED <<memo, record, disk, plan, source, runs, history>>

\* Every teardown step has its turn after a failure, but an Err leaves at once; the
\* body's own Err outranks it.  The task is then neither completed nor not running.
AfterPost(h, f, result) ==
  IF result \in Err
    THEN Return(h, IF f.code \in Err THEN f.code ELSE result)
    ELSE Continue(h, [f EXCEPT !.at = @ + 1, !.post = FirstFailure(@, result)])

PostCommand(h) ==
  LET f == Top(h)  step == Post[f.task][f.at] IN
  /\ Ready(h, "post") /\ f.at <= Len(Post[f.task]) /\ ~IsGroup(step)
  /\ \E exit \in Code \cup (IF "post" \in Errors THEN {"error"} ELSE {}) :
       LET code == IF exit = "failed" /\ step.ignore THEN "ok" ELSE exit IN
       AfterPost(h, f, code) /\ Fails(f.task, code)
  /\ posts' = [posts EXCEPT ![f.task] = @ + 1]
  /\ UNCHANGED <<memo, record, disk, plan, source, runs, starts, fine, good, kept>>

PostGroup(h) ==
  LET f == Top(h)  step == Post[f.task][f.at] IN
  /\ Ready(h, "post") /\ f.at <= Len(Post[f.task]) /\ IsGroup(step)
  /\ Call(h, f, GroupFrame(f.order, step.tasks))
  /\ posts' = [posts EXCEPT ![f.task] = @ + 1]
  /\ UNCHANGED <<memo, record, disk, plan, source, runs, starts, fine, bad, good, kept>>

PostGroupReturns(h) ==
  /\ Returned(h, "post")
  /\ AfterPost(h, Top(h), ret[h]) /\ Fails(Top(h).task, ret[h])
  /\ UNCHANGED <<memo, record, disk, plan, source, runs, starts, posts, fine, good, kept>>

TeardownDone(h) == Ready(h, "post") /\ Top(h).at > Len(Post[Top(h).task])

\* The body left with an Err: it is passed on.
EndWithError(h) ==
  /\ TeardownDone(h) /\ Top(h).code \in Err
  /\ Return(h, Top(h).code)
  /\ UNCHANGED <<memo, record, disk, plan, source, runs, history>>

EndWithFailure(h) ==
  LET f == Top(h) IN
  /\ TeardownDone(h) /\ f.code \notin Err /\ FirstFailure(f.code, f.post) = "failed"
  /\ Complete(h, f.task, "failed") /\ Return(h, "failed")
  /\ UNCHANGED <<record, disk, plan, source, runs, history>>

\* Only a clean run updates the record, with the sources as they are now.
EndWithSuccess(h) ==
  LET f == Top(h)  t == f.task IN
  /\ TeardownDone(h) /\ f.code = "ok" /\ f.post = "ok"
  /\ record' = IF t \in Sources THEN [record EXCEPT ![h][t] = source[t]] ELSE record
  /\ Complete(h, t, "ok")
  /\ Continue(h, [f EXCEPT !.task = None, !.phase = "next"])
  /\ fine' = fine \cup {t} /\ kept' = [kept EXCEPT ![t] = source[t]]
  /\ good' = [good EXCEPT ![t] = @ \cup {source[t]}]
  /\ UNCHANGED <<disk, plan, source, runs, starts, posts, bad>>

\* The sources cannot be read any more: the success is not recorded, and an Err.
RecordFails(h) ==
  LET f == Top(h)  t == f.task IN
  /\ TeardownDone(h) /\ f.code = "ok" /\ f.post = "ok"
  /\ t \in Sources /\ "sources" \in Errors
  /\ Return(h, "error") /\ bad' = bad \cup {t}
  /\ UNCHANGED <<memo, record, disk, plan, source, runs, starts, posts, fine, good, kept>>

-----------------------------------------------------------------------------
(* execute_group *)

\* Prerequisites run one after the other; their codes are not looked at.
GroupPrerequisite(h) ==
  LET f == Top(h)  g == [f EXCEPT !.todo = Tail(@)] IN
  /\ Ready(h, "deps") /\ f.todo # <<>>
  /\ IF Completed(h, Head(f.todo)) # None THEN Continue(h, g)
       ELSE Call(h, g, TaskFrame(f.order, Head(f.todo)))
  /\ UNCHANGED <<memo, record, disk, plan, source, runs, history>>

GroupPrerequisiteReturns(h) ==
  /\ Returned(h, "deps")
  /\ IF ret[h] \in Err THEN Return(h, ret[h]) ELSE Continue(h, Top(h))
  /\ UNCHANGED <<memo, record, disk, plan, source, runs, history>>

Groups(t) == {s \in ToSet(Body[t] \o Post[t]) : IsGroup(s)}
Refs(t) == ToSet(Prereqs[t]) \cup UNION {ToSet(s.tasks) : s \in Groups(t)}

\* What running t may run, through the tasks that are not completed yet.
Reachable(h, t) ==
  LET open == {u \in Task : Completed(h, u) = None} IN
  Within({t} \cap open, LAMBDA u : Refs(u) \cap open)

Independent(branches) ==
  /\ Len(branches) > 1 /\ ~Ordering
  /\ \A i, j \in DOMAIN branches : i < j => branches[i] \cap branches[j] = {}

StartGroup(h) ==
  LET f == Top(h)  branches == [i \in DOMAIN f.names |-> Reachable(h, f.names[i])] IN
  /\ Ready(h, "deps") /\ f.todo = <<>>
  /\ Continue(h, IF Independent(branches) THEN [f EXCEPT !.phase = "fork", !.branches = branches]
                 ELSE [f EXCEPT !.phase = "serial", !.todo = f.names])
  /\ UNCHANGED <<memo, record, disk, plan, source, runs, history>>

\* In order: the first failure is kept and the others still run, an Err returns.
SerialTask(h) ==
  LET f == Top(h)  t == Head(f.todo)  g == [f EXCEPT !.todo = Tail(@)] IN
  /\ Ready(h, "serial") /\ f.todo # <<>>
  /\ IF Completed(h, t) # None
       THEN Continue(h, [g EXCEPT !.code = FirstFailure(@, Completed(h, t))])
       ELSE Call(h, g, TaskFrame(f.order, t))
  /\ UNCHANGED <<memo, record, disk, plan, source, runs, history>>

SerialTaskReturns(h) ==
  LET f == Top(h) IN
  /\ Returned(h, "serial")
  /\ IF ret[h] \in Err THEN Return(h, ret[h])
       ELSE Continue(h, [f EXCEPT !.code = FirstFailure(@, ret[h])])
  /\ UNCHANGED <<memo, record, disk, plan, source, runs, history>>

EndSerial(h) ==
  /\ Ready(h, "serial") /\ Top(h).todo = <<>>
  /\ Return(h, Top(h).code)
  /\ UNCHANGED <<memo, record, disk, plan, source, runs, history>>

\* Mutant: the batch joined is forked again.
SameBatch(f) == f.at
NextBatch(f) == f.at + Batch

InBatch(f) == {i \in DOMAIN f.names : f.at <= i /\ i < f.at + Batch}

\* Each worker gets a copy of the memo and of the records; a task that is completed
\* already needs none.
Fork(h) ==
  LET f == Top(h)
      new == {Append(h, f.names[i]) : i \in {j \in InBatch(f) : Completed(h, f.names[j]) = None}}
  IN
  /\ Ready(h, "fork") /\ f.at <= Len(f.names)
  /\ stack' = [w \in Alive \cup new |->
                 IF w \in new THEN <<TaskFrame(f.order, Last(w))>>
                 ELSE IF w = h THEN Append(Front(stack[h]), [f EXCEPT !.phase = "join"])
                 ELSE stack[w]]
  /\ ret' = [w \in Alive \cup new |-> IF w \in new THEN None ELSE ret[w]]
  /\ memo' = [w \in Alive \cup new |-> memo[IF w \in new THEN h ELSE w]]
  /\ record' = [w \in Alive \cup new |-> record[IF w \in new THEN h ELSE w]]
  /\ UNCHANGED <<disk, plan, source, runs, history>>

\* Mutant: the last result counts.
MergeLast(first, results) == results[Max(DOMAIN results)]

\* An Err outranks a code, and the first of its kind in order is kept.
Merge(first, results) ==
  LET errors == {i \in DOMAIN results : results[i] \in Err} IN
  IF first \in Err THEN first
  ELSE IF errors # {} THEN results[Min(errors)]
  ELSE IF first = "failed" \/ "failed" \in Range(results) THEN "failed" ELSE "ok"

Workers(h) == {w \in Alive : w # Main /\ Front(w) = h}

\* The tasks whose outcome is w's to report.
Branch(w) ==
  LET f == Top(Front(w)) IN
  UNION {f.branches[i] : i \in {j \in InBatch(f) : f.names[j] = Last(w)}}

\* The thread that has the last word on t when the workers of h are joined.
Owner(h, t) ==
  IF \E w \in Workers(h) : t \in Branch(w) THEN CHOOSE w \in Workers(h) : t \in Branch(w) ELSE h

\* The threads are joined; what each did in its own branch is taken over.
Join(h) ==
  LET f == Top(h)
      rest == Alive \ Workers(h)
      result(i) == LET w == Append(h, f.names[i]) IN
                   IF w \in Alive THEN ret[w] ELSE Completed(h, f.names[i])
  IN
  /\ Ready(h, "join") /\ \A w \in Workers(h) : stack[w] = <<>> /\ ret[w] # None
  /\ stack' = [[w \in rest |-> stack[w]] EXCEPT ![h] = Append(Front(@),
       [f EXCEPT !.phase = "fork", !.at = NextBatch(f),
                 !.code = Merge(@, [i \in InBatch(f) |-> result(i)])])]
  /\ ret' = [w \in rest |-> ret[w]]
  /\ memo' = [[w \in rest |-> memo[w]] EXCEPT
                 ![h].completed = [t \in Task |-> Completed(Owner(h, t), t)]]
  /\ record' = [[w \in rest |-> record[w]] EXCEPT ![h] = [t \in Task |-> record[Owner(h, t)][t]]]
  /\ UNCHANGED <<disk, plan, source, runs, history>>

EndFork(h) ==
  /\ Ready(h, "fork") /\ Top(h).at > Len(Top(h).names)
  /\ Return(h, Top(h).code)
  /\ UNCHANGED <<memo, record, disk, plan, source, runs, history>>

-----------------------------------------------------------------------------
(* cmd_run: one invocation after another, and the sources between and during them *)

Idle == stack[Main] = <<>> /\ ret[Main] = None
Ended == stack[Main] = <<>> /\ ret[Main] # None

Invoke ==
  /\ Idle /\ runs < MaxRuns /\ runs' = runs + 1
  /\ record' = [record EXCEPT ![Main] = disk]
  /\ memo' = [memo EXCEPT ![Main] = NoMemo]
  /\ stack' = [stack EXCEPT ![Main] =
       <<RunFrame(Order, Among(Order, ToSet(Append(Prereqs[plan.root], plan.root))))>>]
  /\ starts' = [t \in Task |-> 0] /\ posts' = [t \in Task |-> 0] /\ fine' = {} /\ bad' = {}
  /\ UNCHANGED <<plan, ret, disk, source, good, kept>>

\* Mutant: the records are saved only when every task succeeded.
FinishSuccess ==
  /\ Ended
  /\ disk' = IF ret[Main] # "ok" THEN disk ELSE record[Main]
  /\ ret' = [ret EXCEPT ![Main] = None]
  /\ UNCHANGED <<stack, memo, record, plan, source, runs, history>>

\* The records are saved, unless the plan ended with an Err.
Finish ==
  /\ Ended
  /\ disk' = IF ret[Main] \in Err THEN disk ELSE record[Main]
  /\ ret' = [ret EXCEPT ![Main] = None]
  /\ UNCHANGED <<stack, memo, record, plan, source, runs, history>>

Edit(t) ==
  /\ t \in Sources /\ source[t] < MaxEdits
  /\ source' = [source EXCEPT ![t] = @ + 1]
  /\ UNCHANGED <<plan, threads, disk, runs, history>>

-----------------------------------------------------------------------------
TakeStep(h, t) ==
  ReferenceCycle(h, t) \/ ReturnCompleted(h, t) \/ SkipFresh(h, t) \/ DecideFails(h, t) \/ StartBody(h, t)

TaskStep(h) ==
  \/ EndOfList(h) \/ SkipCompleted(h) \/ \E t \in Task : TakeStep(h, t)
  \/ BodyCommand(h) \/ BodyGroup(h) \/ BodyGroupReturns(h) \/ EndOfBody(h)
  \/ PostCommand(h) \/ PostGroup(h) \/ PostGroupReturns(h)
  \/ EndWithError(h) \/ EndWithFailure(h) \/ EndWithSuccess(h) \/ RecordFails(h)

GroupStep(h) ==
  \/ GroupPrerequisite(h) \/ GroupPrerequisiteReturns(h) \/ StartGroup(h)
  \/ SerialTask(h) \/ SerialTaskReturns(h) \/ EndSerial(h) \/ Fork(h) \/ Join(h) \/ EndFork(h)

ThreadStep(h) == TaskStep(h) \/ GroupStep(h)

Next ==
  \/ \E h \in Alive : ThreadStep(h)
  \/ Invoke \/ Finish \/ \E t \in Task : Edit(t)

Spec == Init /\ [][Next]_vars

\* Some thread that can step does, and every command ends or is killed at its time limit.
FairSpec == Spec /\ WF_vars(Finish \/ \E h \in Alive : ThreadStep(h))

-----------------------------------------------------------------------------
(* Properties *)

\* "so that a task cannot be executed by two workers": whatever the threads copy and
\* merge, no task's body is started twice in an invocation.
OncePerRun == \A t \in Task : starts[t] <= 1

\* What planning makes of tasks that no hint moves: the plan, and what is listed for each
\* task, have every task after what is listed for it.
Ordered(p) ==
  \A s \in {p.order} \cup Range(p.prereqs) : \A i \in DOMAIN s :
    ToSet(p.prereqs[s[i]]) \subseteq {s[j] : j \in 1..(i - 1)}

\* No task has a body and a teardown that group what leads to the same tasks.
Grouped(steps) == UNION {ToSet(s.tasks) : s \in ToSet(steps)}
TeardownApart(p) ==
  LET Leads(t) == ToSet(p.prereqs[t]) \cup Grouped(p.body[t]) \cup Grouped(p.post[t])
  IN \A t \in Task : Within(Grouped(p.body[t]), Leads) \cap Within(Grouped(p.post[t]), Leads) = {}

\* A body is started only when every task it depends on has succeeded or is fresh.
PrerequisitesFirst ==
  [][\A h \in Alive, t \in Task : StartBody(h, t) => ToSet(Prereqs[t]) \subseteq fine]_vars

\* A task whose body was started gets its teardown on every way out, failures and
\* timeouts included, and one whose body was not started gets none.
TeardownFollowsBody ==
  Ended =>
    \A t \in Task : Post[t] # <<>> => (posts[t] > 0 <=> starts[t] > 0)

\* "Every teardown step gets its turn even after one fails".
EveryTeardownStep ==
  Ended => \A t \in Task : starts[t] > 0 => posts[t] >= Len(Post[t])

\* `osdk run` exits with zero exactly when no task it ran failed, however deep in groups
\* and in whichever thread; "cleaning up is not passing".
ExitCodeIsHonest == Ended => (ret[Main] = "ok" <=> bad = {})

\* "Inputs are unchanged since the recorded run": a task is skipped as fresh only if a run
\* of it succeeded, its teardown included, and its sources were then what they are now, in
\* whichever thread and invocation, and whenever they were edited.
SkippedIsCurrent ==
  [][\A h \in Alive, t \in Task : SkipFresh(h, t) => source[t] \in good[t]]_vars

SavesSuccesses == \A t \in fine \cap Sources : disk'[t] = kept[t]

\* "Persist even on failure": when a plan ends with an exit code, zero or not, the state
\* file has every task that succeeded or was skipped, in whichever thread, with the
\* version its sources had then.
FailureIsSaved == [][Finish /\ ret[Main] \in Code => SavesSuccesses]_vars

\* "the tasks that did succeed earlier in the plan recorded themselves": at the end of
\* every run the state file has every task that succeeded or was skipped.
SuccessIsSaved == [][Finish => SavesSuccesses]_vars

\* The plan of the run has no cycle, so none is discovered mid-run.
NoCycleMidRun == \A h \in Alive : ret[h] # "cycle"

\* Every invocation ends.
RunEnds == ~Idle ~> Idle

=============================================================================

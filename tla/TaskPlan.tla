------------------------------ MODULE TaskPlan ------------------------------
(***************************************************************************)
(* `runner::plan` (tasks/runner.rs, tasks/mod.rs): from the declared tasks *)
(* and the one the user named to the tasks to run, in order.  A depth-first*)
(* visit puts a task's dependencies before it; the tasks that its groups   *)
(* name are added, with theirs; then the `wait_for` hints move a task after*)
(* the ones it waits for.  A step is one turn of the innermost loop.       *)
(***************************************************************************)
EXTENDS Tasks

CONSTANT Sets   \* the configurations that may be planned, see TaskSet

Lists == [Task -> Seq(Task)]

\* The declared tasks; what each depends on, the tasks its groups name (those of `run`,
\* then those of `run_post`), and the tasks it waits for.
TaskSet == [tasks : SUBSET Task, depends : Lists, groups : Lists, waits : Lists]

ASSUME SetsAssumption == \A s \in Sets : s \in TaskSet

VARIABLES
  set,      \* the configuration
  root,     \* the task the user named
  phase,
  path,     \* the tasks being visited, each with the dependency it has come to
  done,     \* the tasks visited in this call of execution_order
  visited,  \* what this call returns
  order,    \* the plan's tasks
  pending,  \* planned tasks whose groups are still to be looked at
  refs,     \* the names left of the groups of the task being looked at
  passes,   \* moves made for the hints
  todo,     \* tasks whose prerequisites are still to be listed
  prereqs   \* the prerequisites of each task

planVars == <<set, root, phase, path, done, visited, order, pending, refs, passes, todo, prereqs>>

VisitFrame == [task : Task, at : Nat \ {0}]
Ends == {"unknown", "cycle", "planned"}
Visits == {"root", "group", "prereqs"}

WalkTypes ==
  /\ set \in TaskSet /\ root \in Task
  /\ phase \in Ends \cup Visits \cup {"check", "take", "add", "groups", "hints", "list"}
  /\ path \in Seq(VisitFrame) /\ done \in SUBSET Task /\ visited \in Seq(Task)
  /\ order \in Seq(Task) /\ pending \in Seq(Task) /\ refs \in Seq(Task)
  /\ passes \in 0..Len(order) /\ todo \in Seq(Task)

PlanTypeOK == WalkTypes /\ prereqs \in Lists

PlanInit ==
  /\ set \in Sets /\ root \in Task /\ phase = "check"
  /\ path = <<>> /\ done = {} /\ visited = <<>>
  /\ order = <<>> /\ pending = <<>> /\ refs = <<>> /\ passes = 0
  /\ todo = <<>> /\ prereqs = [t \in Task |-> <<>>]

Planned == ToSet(order)

\* Mutant: what another call has done counts as done.
VisitKeeping(t) == path' = <<[task |-> t, at |-> 1]>> /\ UNCHANGED done /\ visited' = <<>>

\* A call of execution_order for t.
Visit(t) == path' = <<[task |-> t, at |-> 1]>> /\ done' = {} /\ visited' = <<>>

-----------------------------------------------------------------------------
(* plan: references are checked before anything else *)

Resolves ==
  /\ root \in set.tasks
  /\ \A t \in set.tasks : ToSet(set.depends[t] \o set.groups[t]) \subseteq set.tasks

Refuse ==
  /\ phase = "check" /\ ~Resolves /\ phase' = "unknown"
  /\ UNCHANGED <<set, root, path, done, visited, order, pending, refs, passes, todo, prereqs>>

VisitRoot ==
  /\ phase = "check" /\ Resolves /\ phase' = "root" /\ Visit(root)
  /\ UNCHANGED <<set, root, order, pending, refs, passes, todo, prereqs>>

-----------------------------------------------------------------------------
(* visit *)

Current == Last(path)
OnPath == {path[i].task : i \in DOMAIN path}

\* The innermost call has come to dependency d.
ComesTo(d) ==
  /\ phase \in Visits /\ path # <<>>
  /\ Current.at <= Len(set.depends[Current.task]) /\ d = set.depends[Current.task][Current.at]

Past == Append(Front(path), [Current EXCEPT !.at = @ + 1])

\* Mutant: a task counts as done as soon as it is entered.
SkipEntered(d) ==
  /\ ComesTo(d) /\ d \in done \cup OnPath
  /\ path' = Past
  /\ UNCHANGED <<set, root, phase, done, visited, order, pending, refs, passes, todo, prereqs>>

SkipDone(d) ==
  /\ ComesTo(d) /\ d \in done
  /\ path' = Past
  /\ UNCHANGED <<set, root, phase, done, visited, order, pending, refs, passes, todo, prereqs>>

ReportCycle(d) ==
  /\ ComesTo(d) /\ d \notin done /\ d \in OnPath
  /\ phase' = "cycle"
  /\ UNCHANGED <<set, root, path, done, visited, order, pending, refs, passes, todo, prereqs>>

\* Mutant: a task that is done is visited again.
DescendAgain(d) ==
  /\ ComesTo(d) /\ d \notin OnPath
  /\ path' = Append(Past, [task |-> d, at |-> 1])
  /\ UNCHANGED <<set, root, phase, done, visited, order, pending, refs, passes, todo, prereqs>>

Descend(d) ==
  /\ ComesTo(d) /\ d \notin done /\ d \notin OnPath
  /\ path' = Append(Past, [task |-> d, at |-> 1])
  /\ UNCHANGED <<set, root, phase, done, visited, order, pending, refs, passes, todo, prereqs>>

\* Mutant: the task goes before its dependencies.
LeaveFirst ==
  /\ phase \in Visits /\ path # <<>> /\ Current.at > Len(set.depends[Current.task])
  /\ path' = Front(path) /\ done' = done \cup {Current.task} /\ visited' = <<Current.task>> \o visited
  /\ UNCHANGED <<set, root, phase, order, pending, refs, passes, todo, prereqs>>

Leave ==
  /\ phase \in Visits /\ path # <<>> /\ Current.at > Len(set.depends[Current.task])
  /\ path' = Front(path) /\ done' = done \cup {Current.task} /\ visited' = Append(visited, Current.task)
  /\ UNCHANGED <<set, root, phase, order, pending, refs, passes, todo, prereqs>>

VisitReturned(call) == phase = call /\ path = <<>>

-----------------------------------------------------------------------------
(* plan: the tasks that groups name *)

TakeOrder ==
  /\ VisitReturned("root") /\ phase' = "groups"
  /\ order' = visited /\ pending' = visited
  /\ UNCHANGED <<set, root, path, done, visited, refs, passes, todo, prereqs>>

LookAtGroups ==
  /\ phase = "groups" /\ refs = <<>> /\ pending # <<>>
  /\ pending' = Front(pending) /\ refs' = set.groups[Last(pending)]
  /\ UNCHANGED <<set, root, phase, path, done, visited, order, passes, todo, prereqs>>

SkipPlanned ==
  /\ phase = "groups" /\ refs # <<>> /\ Head(refs) \in Planned
  /\ refs' = Tail(refs)
  /\ UNCHANGED <<set, root, phase, path, done, visited, order, pending, passes, todo, prereqs>>

VisitGrouped ==
  /\ phase = "groups" /\ refs # <<>> /\ Head(refs) \notin Planned
  /\ phase' = "group" /\ Visit(Head(refs)) /\ refs' = Tail(refs)
  /\ UNCHANGED <<set, root, order, pending, passes, todo, prereqs>>

\* Mutant: what a grouped task needs is planned, but not looked at in turn.
AddUnseen ==
  /\ VisitReturned("group") /\ visited # <<>>
  /\ order' = IF Head(visited) \in Planned THEN order ELSE Append(order, Head(visited))
  /\ visited' = Tail(visited)
  /\ UNCHANGED <<set, root, phase, path, done, pending, refs, passes, todo, prereqs>>

\* What the grouped task needs follows, as far as it is not planned yet.
Add ==
  LET t == Head(visited) IN
  /\ VisitReturned("group") /\ visited # <<>>
  /\ IF t \in Planned THEN UNCHANGED <<order, pending>>
       ELSE order' = Append(order, t) /\ pending' = Append(pending, t)
  /\ visited' = Tail(visited)
  /\ UNCHANGED <<set, root, phase, path, done, refs, passes, todo, prereqs>>

EndAdd ==
  /\ VisitReturned("group") /\ visited = <<>> /\ phase' = "groups"
  /\ UNCHANGED <<set, root, path, done, visited, order, pending, refs, passes, todo, prereqs>>

EndGroups ==
  /\ phase = "groups" /\ refs = <<>> /\ pending = <<>> /\ phase' = "hints"
  /\ UNCHANGED <<set, root, path, done, visited, order, pending, refs, passes, todo, prereqs>>

-----------------------------------------------------------------------------
(* apply_wait_for *)

Place(t) == CHOOSE i \in DOMAIN order : order[i] = t

\* The k-th hint of the task at i names a task that comes later.
Late(i, k) ==
  LET t == set.waits[order[i]][k] IN t \in Planned /\ Place(t) > i
LateAt(i) == {k \in DOMAIN set.waits[order[i]] : Late(i, k)}
Early == {i \in DOMAIN order : LateAt(i) # {}}

\* Mutant: the task goes before the one it waits for.
MoveBefore(i, j) ==
  order' = [m \in DOMAIN order |->
              CASE m = j - 1 -> order[i] [] i <= m /\ m < j - 1 -> order[m + 1] [] OTHER -> order[m]]

\* The task at i goes to j; the ones between move up.
MoveAfter(i, j) ==
  order' = [m \in DOMAIN order |->
              CASE m = j -> order[i] [] i <= m /\ m < j -> order[m + 1] [] OTHER -> order[m]]

\* The first task with such a hint goes behind the task that the first one names.
Move ==
  /\ phase = "hints" /\ Early # {} /\ passes < Len(order)
  /\ LET i == Min(Early)  k == Min(LateAt(i)) IN MoveAfter(i, Place(set.waits[order[i]][k]))
  /\ passes' = passes + 1
  /\ UNCHANGED <<set, root, phase, path, done, visited, pending, refs, todo, prereqs>>

EndHints ==
  /\ phase = "hints" /\ (Early = {} \/ passes = Len(order))
  /\ phase' = "list" /\ todo' = order
  /\ UNCHANGED <<set, root, path, done, visited, order, pending, refs, passes, prereqs>>

-----------------------------------------------------------------------------
(* plan: the prerequisites of each task *)

VisitListed ==
  /\ phase = "list" /\ todo # <<>>
  /\ phase' = "prereqs" /\ Visit(Head(todo))
  /\ UNCHANGED <<set, root, order, pending, refs, passes, todo, prereqs>>

ListPrerequisites ==
  LET t == Head(todo) IN
  /\ VisitReturned("prereqs")
  /\ prereqs' = [prereqs EXCEPT ![t] = Among(visited, Task \ {t})]
  /\ phase' = "list" /\ todo' = Tail(todo)
  /\ UNCHANGED <<set, root, path, done, visited, order, pending, refs, passes>>

EndPlan ==
  /\ phase = "list" /\ todo = <<>> /\ phase' = "planned"
  /\ UNCHANGED <<set, root, path, done, visited, order, pending, refs, passes, todo, prereqs>>

-----------------------------------------------------------------------------
PlanNext ==
  \/ Refuse \/ VisitRoot
  \/ \E d \in Task : SkipDone(d) \/ ReportCycle(d) \/ Descend(d)
  \/ Leave \/ TakeOrder
  \/ LookAtGroups \/ SkipPlanned \/ VisitGrouped \/ Add \/ EndAdd \/ EndGroups
  \/ Move \/ EndHints
  \/ VisitListed \/ ListPrerequisites \/ EndPlan

PlanSpec == PlanInit /\ [][PlanNext]_planVars
-----------------------------------------------------------------------------
(* Reference definitions *)

Needs(t) == ToSet(set.depends[t])
Uses(t) == Needs(t) \cup ToSet(set.groups[t])

\* Each task of s comes after all it depends on.
InOrder(s) == \A i \in DOMAIN s : Needs(s[i]) \subseteq {s[j] : j \in 1..(i - 1)}

-----------------------------------------------------------------------------
(* Properties *)

\* "a shared one runs only once": however tasks depend on, group and wait for each
\* other, none is planned twice, at any time.
EachOnce == IsInjective(order)

\* "Prerequisites run first": every planned task follows those it depends on, until a
\* hint moves one.
DependenciesFirst == passes = 0 => InOrder(order)

\* "a lookup that misses would skip the whole parallel step without a word": the plan
\* has every task that the named one leads to, through dependencies and groups of
\* groups, and no other, also after the hints.
PlanIsClosed ==
  phase \in {"hints", "list", "prereqs", "planned"} => Planned = Within({root}, Uses)

\* The runner gives a grouped task exactly its dependencies, theirs included, in an
\* order that can be run.
PrerequisitesAreAll ==
  phase = "planned" => \A t \in Planned :
    /\ InOrder(prereqs[t]) /\ IsInjective(prereqs[t])
    /\ ToSet(prereqs[t]) = Within(Needs(t), Needs)

\* "unknown references and dependency cycles are reported as errors": there is a plan
\* exactly if no task it leads to depends on itself.
CyclesAreReported ==
  phase \in {"cycle", "planned"} =>
    (phase = "cycle" <=> \E t \in Within({root}, Uses) : t \in Within(Needs(t), Needs))

Hints(t) == ToSet(set.waits[t]) \cap Planned

\* "every `wait_for` target precedes the task naming it", when each task names one and
\* that one waits for none.
SimpleHintsHold ==
  phase = "planned" /\ (\A t \in Planned : Len(set.waits[t]) <= 1 /\ \A u \in Hints(t) : Hints(u) = {})
    => Early = {}

\* "`len` passes is enough to reach a fixed point or to conclude the constraints are
\* unsatisfiable": what is left out of order was contradictory.
HintsSettle ==
  phase = "planned" /\ (\A t \in Planned : t \notin Within(Hints(t), Hints)) => Early = {}

\* "`wait_for` only adjusts *when* among things already chosen" and "Prerequisites run
\* first": when hints and dependencies agree, a task still follows those it depends on.
DependenciesStayFirst ==
  LET Before(t) == Needs(t) \cup Hints(t) IN
  phase = "planned" /\ (\A t \in Planned : t \notin Within(Before(t), Before)) => InOrder(order)

=============================================================================

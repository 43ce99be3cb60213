----------------------------- MODULE MCTaskPlan -----------------------------
(* Every way for three tasks to depend on each other, a fourth that may not be *)
(* declared, groups of a few shapes, and every set of hints among the prerequi-*)
(* sites of one task.                                                          *)
EXTENDS TaskPlan

CONSTANTS a, b, c, d

Nothing == [t \in Task |-> <<>>]
Short == {<<>>, <<a>>, <<b>>, <<c>>, <<a, b>>, <<b, c>>, <<c, a>>, <<c, b>>}
Inner == {a, b, c}
Only(s) == [t \in Task |-> IF t \in Inner THEN s[t] ELSE <<>>]

Declared(tasks, depends, groups, waits) ==
  [tasks |-> tasks, depends |-> depends, groups |-> groups, waits |-> waits]

DependingSets ==
  {Declared(Task, Only(s), Nothing, Nothing) : s \in [Inner -> Short]}
GroupingSets ==
  {Declared(tasks, Only(s), [Nothing EXCEPT ![a] = g, ![b] = h, ![d] = <<c>>], Nothing) :
     tasks \in {Task, Inner}, s \in [Inner -> {<<>>, <<b>>, <<c>>}],
     g \in {<<b, c>>, <<d>>}, h \in {<<>>, <<a>>, <<d, c>>}}
Waits == {<<>>, <<a>>, <<b>>, <<c>>, <<b, c>>, <<d>>}
HintedSets ==
  {Declared(Task, [Nothing EXCEPT ![d] = <<a, b, c>>, ![b] = s], Nothing, Only(w)) :
     s \in {<<>>, <<a>>, <<c>>}, w \in [Inner -> Waits]}

SmallSets == DependingSets \cup GroupingSets \cup HintedSets
=============================================================================

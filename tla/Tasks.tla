------------------------------- MODULE Tasks -------------------------------
(* What planning and running tasks have in common: names, lists and reachability. *)
EXTENDS Integers, FiniteSets, SequencesExt

CONSTANT Task   \* names of tasks; an alias is the task it resolves to

\* The tasks of s that are in S, in the same order.
Among(s, S) ==
  LET kept[n \in 0..Len(s)] ==
        IF n = 0 THEN <<>>
        ELSE IF s[n] \in S THEN Append(kept[n - 1], s[n]) ELSE kept[n - 1]
  IN kept[Len(s)]

\* The tasks that start leads to: those in every set that has start and, with each of
\* its tasks, the steps of that task.
Within(start, Step(_)) ==
  {t \in Task : \A S \in SUBSET Task :
     start \subseteq S /\ (\A u \in S : Step(u) \subseteq S) => t \in S}
=============================================================================

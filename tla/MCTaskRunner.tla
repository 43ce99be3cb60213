---------------------------- MODULE MCTaskRunner ----------------------------
(* A plan of two grouped tasks with a shared prerequisite, a nested group and  *)
(* teardowns, and its variants: the grouped tasks share the nested one, or the *)
(* teardown names a task of the body.                                          *)
EXTENDS TaskRunner

CONSTANTS all, left, right, prep, nested, clean

Run == Command(FALSE)
Attempt == Command(TRUE)

PlanOrder == <<all, prep, left, right, nested, clean>>
PlanPrereqs == [t \in Task |-> IF t \in {left, right} THEN <<prep>> ELSE <<>>]

ApartBody ==
  [t \in Task |-> CASE t = all -> <<Group(<<left, right>>), Run>>
                    [] t = right -> <<Attempt, Group(<<nested>>)>>
                    [] OTHER -> <<Run>>]
SharedBody ==
  [t \in Task |-> CASE t = all -> <<Group(<<right, left>>)>>
                    [] t \in {left, right} -> <<Group(<<nested>>), Run>>
                    [] OTHER -> <<Run>>]
WideBody ==
  [t \in Task |-> IF t = all THEN <<Group(<<left, right, nested>>)>> ELSE <<Run>>]
CleanPost ==
  [t \in Task |-> CASE t = all -> <<Group(<<clean>>), Run>>
                    [] t = left -> <<Attempt>>
                    [] OTHER -> <<>>]
ReusePost == [t \in Task |-> IF t = all THEN <<Group(<<nested>>)>> ELSE <<>>]
LeftPost == [t \in Task |-> IF t = left THEN <<Run, Run>> ELSE <<>>]
Planned(body, post, ordering) ==
  [root |-> all, order |-> PlanOrder, prereqs |-> PlanPrereqs,
   body |-> body, post |-> post, ordering |-> ordering]

GroupedPlans ==
  {Planned(ApartBody, CleanPost, FALSE), Planned(SharedBody, CleanPost, FALSE),
   Planned(WideBody, LeftPost, FALSE), Planned(WideBody, LeftPost, TRUE)}
SimplePlan == {Planned(ApartBody, LeftPost, FALSE)}
ReusingPlan == {Planned(ApartBody, ReusePost, FALSE)}
SerialPlan == {Planned(ApartBody, LeftPost, TRUE)}

\* What the proofs about these plans suppose of them.
ASSUME PlansOrdered == \A p \in Plans : Ordered(p) /\ TeardownApart(p)
=============================================================================

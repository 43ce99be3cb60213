------------------------------ MODULE GlobalTool ------------------------------
(***************************************************************************)
(* What the global install and uninstall of npm tools promise when nothing  *)
(* fails but the process: a tree is replaced at once, a version is selected *)
(* only when its tree is there, and a removal takes the tree and whatever   *)
(* selects it in one step.                                                  *)
(***************************************************************************)
CONSTANTS
  Version, Tree, None

VARIABLES
  tree,    \* tree[v]: the installed tree of v, or "gone"
  pin,     \* the version the config selects, or None
  record   \* the version the lockfile records, or None

Init ==
  /\ tree \in [Version -> Tree \cup {"gone"}]
  /\ pin \in {v \in Version : tree[v] # "gone"} \cup {None} /\ record = pin

Replace(v) == \E t \in Tree : tree' = [tree EXCEPT ![v] = t] /\ UNCHANGED <<pin, record>>

Pin(v) == tree[v] # "gone" /\ pin' = v /\ UNCHANGED <<tree, record>>

Record(v) == pin = v /\ record' = v /\ UNCHANGED <<tree, pin>>

Remove(v) ==
  /\ tree[v] # "gone" /\ tree' = [tree EXCEPT ![v] = "gone"]
  /\ pin' = IF pin = v THEN None ELSE pin
  /\ record' = IF record = v THEN None ELSE record

Next == \E v \in Version : Replace(v) \/ Pin(v) \/ Record(v) \/ Remove(v)
Spec == Init /\ [][Next]_<<tree, pin, record>>
=============================================================================

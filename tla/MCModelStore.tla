---------------------------- MODULE MCModelStore ----------------------------
(* Two snapshots of one model; any of them is published, the model removed.   *)
EXTENDS ModelStore, TLC

CONSTANTS s1, s2

MCCommand == [op : {"publish"}, snapshot : {s1, s2}] \cup {[op |-> "remove", snapshot |-> s1]}
Alike == Permutations(Process)
=============================================================================

----------------------------- MODULE MCGlobalNpm -----------------------------
(* Two versions that share one command; the second has one of its own.        *)
EXTENDS GlobalNpm, TLC

CONSTANTS v1, v2, shared, only

MCBins == [v \in {v1, v2} |-> IF v = v1 THEN {shared} ELSE {shared, only}]

\* Both commands on one version.
OneVersion == [op : {"install", "uninstall"}, ver : {v1}]

Alike == Permutations(Process) \cup Permutations(Tree)
=============================================================================

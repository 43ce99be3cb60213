---------------------------- MODULE MCNativeTool ----------------------------
(* The processes run the same code, and one build is as good as another.      *)
EXTENDS NativeTool, TLC

Alike == Permutations(Process) \cup Permutations(Build)
=============================================================================

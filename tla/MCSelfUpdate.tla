---------------------------- MODULE MCSelfUpdate ----------------------------
(* The two programs of a release, and three releases.                         *)
EXTENDS SelfUpdate

CONSTANTS osdk, shim

MCBinaries == <<osdk, shim>>
MCRelease == 1..3
=============================================================================

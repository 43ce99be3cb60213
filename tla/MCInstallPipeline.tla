------------------------- MODULE MCInstallPipeline -------------------------
(* Two versions that share one file, so that one object serves both trees. *)
EXTENDS InstallPipeline, TLC

CONSTANTS v1, v2, h1, h2, p1, p2

\* The installers run the same code.
Installers == Permutations({p1, p2})

MCTree == (v1 :> {h1, h2}) @@ (v2 :> {h2})
=============================================================================

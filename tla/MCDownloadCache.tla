--------------------------- MODULE MCDownloadCache ---------------------------
(* Three artifacts of different sizes; two sessions that share one of them.   *)
EXTENDS DownloadCache

CONSTANTS a1, a2, a3, s1, s2

MCSize == (a1 :> 1) @@ (a2 :> 2) @@ (a3 :> 3)
MCRank == (a1 :> 2) @@ (a2 :> 1) @@ (a3 :> 3)
Sharing == (s1 :> {a1, a2}) @@ (s2 :> {a2, a3})
=============================================================================

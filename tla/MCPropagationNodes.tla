------------------------- MODULE MCPropagationNodes -------------------------
(***************************************************************************)
(* Three nodes compete for two slots, each as near or as far as it         *)
(* happens to be when it announces itself, over enough ticks for a node to *)
(* go stale and come back.                                                 *)
(***************************************************************************)
EXTENDS PropagationNodes, TLC

CONSTANTS n1, n2, n3

DirectoryNodes == {n1, n2, n3}
DirectoryHops == {1, 128}
DirectorySymmetry == Permutations(DirectoryNodes)
=============================================================================

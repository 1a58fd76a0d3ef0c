------------------------- MODULE MCPropagationSync -------------------------
(* Two or three messages at the node, more than the inbound queue holds.   *)
EXTENDS PropagationSync, TLC

CONSTANTS m1, m2, m3

TwoMsg == {m1, m2}
TwoOrder == <<m1, m2>>
OnlyOne == {m1}
ThreeMsg == {m1, m2, m3}
ThreeOrder == <<m1, m2, m3>>
=============================================================================

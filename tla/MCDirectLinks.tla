--------------------------- MODULE MCDirectLinks ---------------------------
(***************************************************************************)
(* Two direct messages to two peers, with room for one peer in the         *)
(* registry and for one link in the table.                                 *)
(***************************************************************************)
EXTENDS DirectLinks

CONSTANTS d, e,   \* two direct messages
          x, y    \* their peers

LinkMsg == {d, e}
LinkPeer == {x, y}
LinkMethod == [m \in LinkMsg |-> "DIRECT"]
LinkRepresentation == [m \in LinkMsg |-> IF m = d THEN "PACKET" ELSE "RESOURCE"]
LinkTo == [m \in LinkMsg |-> IF m = d THEN x ELSE y]

OneSlotEach == [v \in Kind |-> 1]
=============================================================================

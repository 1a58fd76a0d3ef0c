------------------------- MODULE MCPropagatedUpload -------------------------
(***************************************************************************)
(* Two propagated messages and up to two propagation nodes, with a stamp   *)
(* cost the application switches on and off.                               *)
(***************************************************************************)
EXTENDS PropagatedUpload

CONSTANTS p, r   \* two propagated messages

UploadMsg == {p, r}
UploadMethod == [m \in UploadMsg |-> "PROPAGATED"]
UploadRepresentation == [m \in UploadMsg |-> "RESOURCE"]

TwoSlotsEach == [v \in Kind |-> 2]
=============================================================================

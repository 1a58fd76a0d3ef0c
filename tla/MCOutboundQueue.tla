-------------------------- MODULE MCOutboundQueue --------------------------
(***************************************************************************)
(* Small instances of OutboundQueue: an opportunistic packet, a direct     *)
(* resource and a propagated message, with queues and pools so short that  *)
(* every limit is reached.                                                 *)
(***************************************************************************)
EXTENDS OutboundQueue, TLC

CONSTANTS o, d, p   \* an opportunistic, a direct and a propagated message

MixedMsg == {o, d, p}
MixedMethod == (o :> "OPPORTUNISTIC") @@ (d :> "DIRECT") @@ (p :> "PROPAGATED")
MixedRepresentation == (o :> "PACKET") @@ (d :> "RESOURCE") @@ (p :> "RESOURCE")

PairMsg == {o, d}
PairMethod == (o :> "OPPORTUNISTIC") @@ (d :> "DIRECT")
PairRepresentation == (o :> "PACKET") @@ (d :> "PACKET")

OneSlotEach == [v \in Kind |-> 1]
=============================================================================

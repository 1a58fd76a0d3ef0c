-------------------------- MODULE OutboundContract --------------------------
(***************************************************************************)
(* What LXMRouter promises the application about the messages it accepts,  *)
(* without queues, attempts, timers or pools.                              *)
(*                                                                         *)
(* A message is "new" until the router accepts it, then "queued" until     *)
(* exactly one processing step concludes it: transmitted ("sent"), handed  *)
(* to the propagation node ("uploading") or given up ("failed").  A failed *)
(* message may be queued again, an upload may be confirmed as sent, and a  *)
(* sent message never comes back.  Admission never displaces a message     *)
(* that is already queued.                                                 *)
(***************************************************************************)
EXTENDS Naturals, FiniteSets

CONSTANTS Msg,       \* the messages an application may submit
          Capacity   \* how many messages the router holds queued

VARIABLE phase

Phase == {"new", "queued", "sent", "uploading", "failed"}

Queued == {m \in Msg : phase[m] = "queued"}

TypeOK == phase \in [Msg -> Phase]

Init == phase = [m \in Msg |-> "new"]

Accept(m) ==
    /\ phase[m] = "new"
    /\ phase' = [phase EXCEPT ![m] = "queued"]

Conclude(m) ==
    /\ phase[m] = "queued"
    /\ \E p \in {"sent", "uploading", "failed"} :
           phase' = [phase EXCEPT ![m] = p]

Confirm(m) ==
    /\ phase[m] = "uploading"
    /\ phase' = [phase EXCEPT ![m] = "sent"]

Retry(S) ==
    /\ S # {}
    /\ \A m \in S : phase[m] = "failed"
    /\ phase' = [m \in Msg |-> IF m \in S THEN "queued" ELSE phase[m]]

(* A step changes a phase, and never so that too many messages are queued. *)
Next ==
    /\ phase' # phase
    /\ \/ \E m \in Msg : Accept(m) \/ Conclude(m) \/ Confirm(m)
       \/ \E S \in SUBSET Msg : Retry(S)
    /\ Cardinality(Queued') <= Capacity

SafeSpec == Init /\ [][Next]_phase

(* Every queued message is concluded in the end, whatever its peer does.   *)
Fairness == \A m \in Msg : WF_phase(Conclude(m))

Spec == SafeSpec /\ Fairness
=============================================================================

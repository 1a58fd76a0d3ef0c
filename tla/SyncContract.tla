---------------------------- MODULE SyncContract ----------------------------
(***************************************************************************)
(* What LXMRouter promises of one synchronisation with a propagation node  *)
(* (request_messages_from_propagation_node() and get_sync_state()): a sync *)
(* that is under way ends, and between two requests the sync-complete      *)
(* callback is called at most once, and only by a sync that completes.     *)
(***************************************************************************)
EXTENDS Naturals

VARIABLES
    phase,      \* the router's sync state, as far as a caller can tell
    heard       \* calls of the sync-complete callback since the last request

syncContractVars == <<phase, heard>>

Phase == {"idle", "busy", "complete", "failed"}

SyncContractInit == phase = "idle" /\ heard = 0

(* A request while a sync is under way changes nothing.                    *)
Begin ==
    /\ phase # "busy"
    /\ phase' \in {"busy", "failed"}
    /\ heard' = 0

Fail ==
    /\ phase = "busy"
    /\ phase' = "failed"
    /\ UNCHANGED heard

(* A failed sync may still complete, when its answer comes late.           *)
Complete ==
    /\ phase \in {"busy", "failed"}
    /\ heard = 0
    /\ phase' = "complete"
    /\ heard' = 1

(* The late answer to the list request of a failed sync takes it up again. *)
Resume ==
    /\ phase = "failed"
    /\ heard = 0
    /\ phase' = "busy"
    /\ UNCHANGED heard

SyncContractNext == Begin \/ Fail \/ Complete \/ Resume

SyncContractSpec ==
    /\ SyncContractInit
    /\ [][SyncContractNext]_syncContractVars
    /\ WF_syncContractVars(phase = "busy" /\ (Fail \/ Complete))
=============================================================================

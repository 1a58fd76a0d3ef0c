--------------------------- MODULE OutboundQueue ---------------------------
(***************************************************************************)
(* The outbound pipeline of LXMRouter (src/src/LXMF/LXMRouter.cpp): the    *)
(* pending and failed queues, admission, one process_outbound() pass at a  *)
(* time, the delivery-attempt counter and backoff timer, the fixed pools   *)
(* that match proofs and resources to messages, and the callbacks the      *)
(* application hears.                                                      *)
(*                                                                         *)
(* What the transport answers to a pass (path known, identity recalled,    *)
(* link active, propagation node ready, send accepted) is an input here;   *)
(* DirectLinks and PropagatedUpload compose this module with the state     *)
(* that decides those answers.                                             *)
(***************************************************************************)
EXTENDS Naturals, Sequences, FiniteSets

CONSTANTS
    Msg,                        \* messages, each submitted until accepted once
    PackedMethod,               \* method LXMessage::pack() settles on
    Representation,             \* "PACKET" or "RESOURCE", settled by pack()
    PENDING_OUTBOUND_SIZE,
    FAILED_OUTBOUND_SIZE,
    PoolSize,                   \* slots per kind of transmission, see Via
    MAX_DELIVERY_ATTEMPTS,
    OUTBOUND_RETRY_DELAY,
    PATH_REQUEST_WAIT,
    LINK_POLL_DELAY,            \* the 1.0 s backoff while a link is pending
    PropagationOnlyChoices,     \* what set_propagation_only() may be given
    SentCallbackMayThrow,       \* whether the application's sent callback,
    DeliveredCallbackMayThrow,  \* its delivered callback
    FailedCallbackMayThrow      \* or its failed callback may throw

Method == {"OPPORTUNISTIC", "DIRECT", "PROPAGATED"}
State == {"GENERATING", "OUTBOUND", "SENDING", "SENT", "FAILED"}
Kind == {"packet", "resource", "upload"}
Verdict == {"none", "ACCEPTED", "QUEUE_FULL", "GUARD_REJECTED", "THROWN"}
Report == {"sent", "delivered", "failed"}

ASSUME ConstantsAssumption ==
    /\ IsFiniteSet(Msg)
    /\ PackedMethod \in [Msg -> Method]
    /\ Representation \in [Msg -> {"PACKET", "RESOURCE"}]
    /\ PENDING_OUTBOUND_SIZE \in Nat \ {0}
    /\ FAILED_OUTBOUND_SIZE \in Nat \ {0}
    /\ PoolSize \in [Kind -> Nat]
    /\ MAX_DELIVERY_ATTEMPTS \in Nat \ {0}
    /\ OUTBOUND_RETRY_DELAY \in Nat \ {0}
    /\ PATH_REQUEST_WAIT \in Nat \ {0}
    /\ LINK_POLL_DELAY \in Nat \ {0}
    /\ PropagationOnlyChoices \subseteq BOOLEAN
    /\ SentCallbackMayThrow \in BOOLEAN
    /\ DeliveredCallbackMayThrow \in BOOLEAN
    /\ FailedCallbackMayThrow \in BOOLEAN

VARIABLES
    pending,          \* _pending_outbound_pool, oldest first
    failed,           \* _failed_outbound_pool, oldest first
    attempts,         \* LXMessage::_delivery_attempts of the router's copy
    method,           \* LXMessage::_method of the router's copy
    state,            \* LXMessage::_state of the router's copy
    propagationOnly,  \* _propagation_only
    backoff,          \* seconds left until _next_outbound_process_time
    tracked,          \* transmissions that occupy a slot of their pool
    air,              \* transmissions the network has not concluded yet
    verdict,          \* what try_handle_outbound() last answered, per message
    told,             \* callbacks the application has heard, per message
    confirmed         \* transmissions the receiver (or node) has confirmed

queueVars == <<pending, failed>>
trackVars == <<tracked, air, confirmed>>
vars == <<pending, failed, attempts, method, state, propagationOnly, backoff,
          tracked, air, verdict, told, confirmed>>

(* One transmission of a message.  A message is put on the air at most     *)
(* once per attempt, so the attempt number stands for the packet or        *)
(* resource hash, which is fresh each time.                                *)
Transmission == [msg : Msg, attempt : 1..MAX_DELIVERY_ATTEMPTS, via : Kind]

Elements(q) == {q[i] : i \in 1..Len(q)}

Distinct(q) == \A i, j \in 1..Len(q) : q[i] = q[j] => i = j

Queued(m) == m \in Elements(pending)

TypeOK ==
    /\ pending \in Seq(Msg) /\ Len(pending) <= PENDING_OUTBOUND_SIZE
    /\ failed \in Seq(Msg) /\ Len(failed) <= FAILED_OUTBOUND_SIZE
    /\ attempts \in [Msg -> 0..MAX_DELIVERY_ATTEMPTS]
    /\ method \in [Msg -> Method]
    /\ state \in [Msg -> State]
    /\ propagationOnly \in BOOLEAN
    /\ backoff \in Nat
    /\ tracked \subseteq Transmission
    /\ air \subseteq Transmission
    /\ verdict \in [Msg -> Verdict]
    /\ told \in [Msg -> SUBSET Report]
    /\ confirmed \subseteq Transmission

Init ==
    /\ pending = <<>>
    /\ failed = <<>>
    /\ attempts = [m \in Msg |-> 0]
    /\ method = PackedMethod
    /\ state = [m \in Msg |-> "GENERATING"]
    /\ propagationOnly = FALSE
    /\ backoff = 0
    /\ tracked = {}
    /\ air = {}
    /\ verdict = [m \in Msg |-> "none"]
    /\ told = [m \in Msg |-> {}]
    /\ confirmed = {}

-----------------------------------------------------------------------------
(* Admission: try_handle_outbound().                                       *)

HasRoom == Len(pending) < PENDING_OUTBOUND_SIZE

QueueFull(m) ==
    /\ verdict[m] # "ACCEPTED"
    /\ ~HasRoom
    /\ verdict' = [verdict EXCEPT ![m] = "QUEUE_FULL"]
    /\ UNCHANGED <<queueVars, attempts, method, state, propagationOnly,
                   backoff, trackVars, told>>

(* Packing, a too expensive advertised stamp cost or a failed stamp throw; *)
(* the caller's guard may veto.  Neither queues anything.                  *)
Refuse(m) ==
    /\ verdict[m] # "ACCEPTED"
    /\ HasRoom
    /\ \E v \in {"THROWN", "GUARD_REJECTED"} :
           verdict' = [verdict EXCEPT ![m] = v]
    /\ UNCHANGED <<queueVars, attempts, method, state, propagationOnly,
                   backoff, trackVars, told>>

Accept(m) ==
    /\ verdict[m] # "ACCEPTED"
    /\ HasRoom
    /\ verdict' = [verdict EXCEPT ![m] = "ACCEPTED"]
    /\ state' = [state EXCEPT ![m] = "OUTBOUND"]
    /\ pending' = Append(pending, m)
    /\ UNCHANGED <<failed, attempts, method, propagationOnly, backoff,
                   trackVars, told>>

TryHandleOutbound(m) == QueueFull(m) \/ Refuse(m) \/ Accept(m)

-----------------------------------------------------------------------------
(* process_outbound(): one pass looks at the oldest pending message only.  *)

Front == Head(pending)

AtFront(m) == pending # <<>> /\ backoff = 0 /\ m = Front

(* failed_outbound_push(): a full failed queue drops its oldest message.   *)
PushFailed(m) ==
    IF Len(failed) < FAILED_OUTBOUND_SIZE THEN Append(failed, m)
                                          ELSE Append(Tail(failed), m)

(* Mutant: the message is copied to the failed queue and never popped.     *)
FailFrontUnpopped(m, heard) ==
    /\ state' = [state EXCEPT ![m] = "FAILED"]
    /\ told' = [told EXCEPT ![m] = @ \cup heard \cup {"failed"}]
    /\ failed' = PushFailed(m)
    /\ UNCHANGED pending

(* The message is marked FAILED, the failed callback is called and the     *)
(* message moves to the failed queue.  A failed callback that throws is    *)
(* called once more by the exception handler; when it throws again the     *)
(* exception leaves process_outbound() before the message has moved.       *)
FailFront(m, heard) ==
    /\ state' = [state EXCEPT ![m] = "FAILED"]
    /\ told' = [told EXCEPT ![m] = @ \cup heard \cup {"failed"}]
    /\ \/ /\ pending' = Tail(pending)
          /\ failed' = PushFailed(m)
       \/ FailedCallbackMayThrow /\ UNCHANGED queueVars

UsesPropagation(m) == propagationOnly \/ method[m] = "PROPAGATED"

(* Which pool tracks the next transmission of m: proofs of single packets, *)
(* direct resources, or uploads to the propagation node.                   *)
Via(m) ==
    IF UsesPropagation(m) THEN "upload"
    ELSE IF method[m] = "OPPORTUNISTIC" \/ Representation[m] = "PACKET"
         THEN "packet" ELSE "resource"

SetMethod(m) ==
    method' = IF UsesPropagation(m)
              THEN [method EXCEPT ![m] = "PROPAGATED"] ELSE method

(* The attempt is counted before anything else is known about it.          *)
Attempt(m) ==
    /\ AtFront(m)
    /\ attempts[m] < MAX_DELIVERY_ATTEMPTS
    /\ attempts' = [attempts EXCEPT ![m] = @ + 1]
    /\ SetMethod(m)

GiveUp(m) ==
    /\ AtFront(m)
    /\ attempts[m] >= MAX_DELIVERY_ATTEMPTS
    /\ FailFront(m, {})
    /\ UNCHANGED <<attempts, method, propagationOnly, backoff, trackVars,
                   verdict>>

(* How long a pass that cannot send yet puts the whole queue to sleep.     *)
RetryDelays(m) ==
    IF UsesPropagation(m) THEN {OUTBOUND_RETRY_DELAY}
    ELSE IF method[m] = "OPPORTUNISTIC" THEN {PATH_REQUEST_WAIT}
    ELSE {PATH_REQUEST_WAIT, OUTBOUND_RETRY_DELAY, LINK_POLL_DELAY}

(* Mutant: the attempt is only counted once the message can be sent.       *)
RetryLaterUncounted(m, delay) ==
    /\ AtFront(m)
    /\ attempts[m] < MAX_DELIVERY_ATTEMPTS
    /\ SetMethod(m)
    /\ delay \in RetryDelays(m)
    /\ backoff' = delay
    /\ UNCHANGED <<queueVars, attempts, state, propagationOnly, trackVars,
                   verdict, told>>

(* No path, no identity, no link yet, or the node is not ready.            *)
RetryLater(m, delay) ==
    /\ Attempt(m)
    /\ delay \in RetryDelays(m)
    /\ backoff' = delay
    /\ UNCHANGED <<queueVars, state, propagationOnly, trackVars, verdict, told>>

(* Mutant: a failed send drops the message without calling back.           *)
SendFailsUnreported(m) ==
    /\ Attempt(m)
    /\ state' = [state EXCEPT ![m] = "FAILED"]
    /\ pending' = Tail(pending)
    /\ UNCHANGED <<failed, propagationOnly, backoff, trackVars, verdict, told>>

(* send_opportunistic() or send_via_link() returned false, or something    *)
(* threw on the way.                                                       *)
SendFails(m) ==
    /\ Attempt(m)
    /\ FailFront(m, {})
    /\ UNCHANGED <<propagationOnly, backoff, trackVars, verdict>>

FreeSlot(via) == Cardinality({t \in tracked : t.via = via}) < PoolSize[via]

(* A full pool leaves the transmission untracked.                          *)
PutOnAir(m) ==
    LET t == [msg |-> m, attempt |-> attempts[m] + 1, via |-> Via(m)]
    IN  /\ air' = air \cup {t}
        /\ tracked' = IF FreeSlot(t.via) THEN tracked \cup {t} ELSE tracked

(* A packet whose send produced no receipt is neither tracked nor on the   *)
(* air, and still counts as sent.                                          *)
Transmit(m) ==
    \/ PutOnAir(m)
    \/ Via(m) = "packet" /\ UNCHANGED <<air, tracked>>

Send(m) ==
    /\ Attempt(m)
    /\ ~UsesPropagation(m)
    /\ Transmit(m)
    /\ state' = [state EXCEPT ![m] = "SENT"]
    /\ told' = [told EXCEPT ![m] = @ \cup {"sent"}]
    /\ pending' = Tail(pending)
    /\ UNCHANGED <<failed, propagationOnly, backoff, confirmed, verdict>>

(* The sent callback threw: the handler fails a message that has left.     *)
SendAndThrow(m) ==
    /\ SentCallbackMayThrow
    /\ Attempt(m)
    /\ ~UsesPropagation(m)
    /\ Transmit(m)
    /\ FailFront(m, {"sent"})
    /\ UNCHANGED <<propagationOnly, backoff, confirmed, verdict>>

(* The message leaves the queue as soon as its upload starts; the sent     *)
(* callback waits for the node to confirm it.                              *)
StartUpload(m) ==
    /\ Attempt(m)
    /\ UsesPropagation(m)
    /\ PutOnAir(m)
    /\ state' = [state EXCEPT ![m] = "SENDING"]
    /\ pending' = Tail(pending)
    /\ UNCHANGED <<failed, propagationOnly, backoff, confirmed, verdict, told>>

ProcessOutbound(m) ==
    \/ GiveUp(m)
    \/ \E delay \in RetryDelays(m) : RetryLater(m, delay)
    \/ SendFails(m)
    \/ Send(m)
    \/ SendAndThrow(m)
    \/ StartUpload(m)

-----------------------------------------------------------------------------
(* The callbacks of the transport.                                         *)

(* What the application is told of a transmission that was confirmed, and  *)
(* whether the callback that tells it may throw.                           *)
ReportOf(t) == IF t.via = "upload" THEN "sent" ELSE "delivered"

ReportMayThrow(t) ==
    IF t.via = "upload" THEN SentCallbackMayThrow
                        ELSE DeliveredCallbackMayThrow

(* Mutant: a confirmed upload is reported as a delivery.                   *)
ConfirmedAsDelivered(t) ==
    /\ t \in air
    /\ air' = air \ {t}
    /\ confirmed' = confirmed \cup {t}
    /\ tracked' = tracked \ {t}
    /\ told' = IF t \notin tracked THEN told
               ELSE [told EXCEPT ![t.msg] = @ \cup {"delivered"}]
    /\ UNCHANGED <<queueVars, attempts, method, state, propagationOnly,
                   backoff, verdict>>

(* static_proof_callback(), static_outbound_resource_concluded() and       *)
(* static_propagation_resource_concluded(): the slot is looked up by hash, *)
(* the application hears of a success, and then the slot is cleared.       *)
(* Nothing catches what its callback throws, so the slot stays taken then. *)
(* Neither a failed resource nor a lost upload reaches the application.    *)
Confirmed(t) ==
    /\ t \in air
    /\ air' = air \ {t}
    /\ confirmed' = confirmed \cup {t}
    /\ \/ tracked' = tracked \ {t}
       \/ ReportMayThrow(t) /\ UNCHANGED tracked
    /\ told' = IF t \notin tracked THEN told
               ELSE [told EXCEPT ![t.msg] = @ \cup {ReportOf(t)}]
    /\ UNCHANGED <<queueVars, attempts, method, state, propagationOnly,
                   backoff, verdict>>

(* Mutant: the slot of a failed resource is only cleared on success.       *)
LostKeepsSlot(t) ==
    /\ t \in air
    /\ air' = air \ {t}
    /\ UNCHANGED <<queueVars, attempts, method, state, propagationOnly,
                   backoff, tracked, confirmed, verdict, told>>

(* A resource that failed frees its slot.  A packet whose proof is lost    *)
(* keeps its slot: no timeout is registered with the receipt.              *)
Lost(t) ==
    /\ t \in air
    /\ air' = air \ {t}
    /\ tracked' = IF t.via = "packet" THEN tracked ELSE tracked \ {t}
    /\ UNCHANGED <<queueVars, attempts, method, state, propagationOnly,
                   backoff, confirmed, verdict, told>>

-----------------------------------------------------------------------------
(* The rest of the application's interface, and time.                      *)

LesserOf(a, b) == IF a <= b THEN a ELSE b

(* retry_failed_outbound(): as many of the oldest failed messages as fit.  *)
RetryFailedOutbound ==
    LET room  == PENDING_OUTBOUND_SIZE - Len(pending)
        n     == LesserOf(Len(failed), room)
        moved == SubSeq(failed, 1, n)
    IN  /\ n > 0
        /\ pending' = pending \o moved
        /\ failed' = SubSeq(failed, n + 1, Len(failed))
        /\ state' = [m \in Msg |-> IF m \in Elements(moved) THEN "OUTBOUND"
                                   ELSE state[m]]
        /\ UNCHANGED <<attempts, method, propagationOnly, backoff, trackVars,
                       verdict, told>>

ClearFailedOutbound ==
    /\ failed # <<>>
    /\ failed' = <<>>
    /\ UNCHANGED <<pending, attempts, method, state, propagationOnly, backoff,
                   trackVars, verdict, told>>

SetPropagationOnly ==
    /\ propagationOnly' \in PropagationOnlyChoices
    /\ UNCHANGED <<queueVars, attempts, method, state, backoff, trackVars,
                   verdict, told>>

Tick ==
    /\ backoff > 0
    /\ backoff' = backoff - 1
    /\ UNCHANGED <<queueVars, attempts, method, state, propagationOnly,
                   trackVars, verdict, told>>

Next ==
    \/ \E m \in Msg : TryHandleOutbound(m) \/ ProcessOutbound(m)
    \/ \E t \in air : Confirmed(t) \/ Lost(t)
    \/ RetryFailedOutbound
    \/ ClearFailedOutbound
    \/ SetPropagationOnly
    \/ Tick

(* The main loop calls process_outbound() forever and the clock advances;  *)
(* nothing is assumed of the network or of the application.                *)
Fairness == WF_vars(\E m \in Msg : ProcessOutbound(m)) /\ WF_vars(Tick)

SafeSpec == Init /\ [][Next]_vars

Spec == SafeSpec /\ Fairness

-----------------------------------------------------------------------------
(* Properties.                                                             *)

(* No message is held twice: process_outbound() and retry_failed_outbound()*)
(* move copies between two queues, on paths that a throwing callback can   *)
(* leave half way, and a message held twice would be transmitted twice.    *)
NoMessageTwice ==
    /\ Distinct(pending)
    /\ Distinct(failed)
    /\ Elements(pending) \cap Elements(failed) = {}

(* An accepted message that the router no longer holds has been reported   *)
(* to the application, or its upload has been started: no eviction, retry, *)
(* exception or give-up path of the queues loses a message in silence.     *)
NothingLostInSilence ==
    \A m \in Msg :
        /\ verdict[m] = "ACCEPTED"
        /\ m \notin Elements(pending) \cup Elements(failed)
        => told[m] # {} \/ state[m] = "SENDING"

(* The delivered callback is only heard for a message whose sent callback  *)
(* was heard before: the bridge's outbound states and the message store    *)
(* overwrite SENT with DELIVERED, in the order of the callbacks.           *)
DeliveredOnlyAfterSent ==
    \A m \in Msg : "delivered" \in told[m] => "sent" \in told[m]

(* What the three invariants above rest on: only accepted messages are     *)
(* queued, whatever sits in the failed queue has been reported as failed,  *)
(* and a slot that will report a delivery belongs to a message whose sent  *)
(* callback has been heard.                                                *)
OnlyAcceptedAreQueued ==
    \A m \in Elements(pending) \cup Elements(failed) : verdict[m] = "ACCEPTED"

ReportedFailed(m) == "failed" \in told[m] /\ state[m] = "FAILED"

FailedAreReported == \A m \in Elements(failed) : ReportedFailed(m)

TrackedAreReported ==
    \A t \in tracked : t.via # "upload" => "sent" \in told[t.msg]

(* A slot outlives its transmission in two ways only: the proof of a       *)
(* packet is lost, or the callback that reported the success threw.  A     *)
(* resource or an upload that has failed never keeps its slot, nor does    *)
(* one whose success the application has not heard of.                     *)
LeakedSlotsHaveACause ==
    \A t \in tracked \ air :
        IF t \in confirmed
        THEN ReportMayThrow(t) /\ ReportOf(t) \in told[t.msg]
        ELSE t.via = "packet"

(* The inductive invariant.                                                *)
IInv ==
    /\ TypeOK
    /\ NoMessageTwice
    /\ NothingLostInSilence
    /\ DeliveredOnlyAfterSent
    /\ OnlyAcceptedAreQueued
    /\ FailedAreReported
    /\ TrackedAreReported

(* What LeakedSlotsHaveACause rests on: a transmission is concluded once,  *)
(* since the next one of its message counts another attempt.               *)
ConcludedOnce ==
    /\ air \cap confirmed = {}
    /\ \A t \in air \cup confirmed : t.attempt <= attempts[t.msg]

SlotInv == TypeOK /\ ConcludedOnce /\ LeakedSlotsHaveACause

QueueStep ==
    \/ pending' = pending
    \/ /\ Len(pending') > Len(pending)
       /\ SubSeq(pending', 1, Len(pending)) = pending
    \/ /\ pending # <<>>
       /\ pending' = Tail(pending)
       /\ state'[Front] \in {"SENT", "SENDING", "FAILED"}

(* A queued message is only ever removed from the front, by the pass that  *)
(* concludes it, and the others keep their order: admission, retries and   *)
(* the callbacks of the transport neither evict nor overtake it.           *)
OnlyTheFrontLeaves == [][QueueStep]_vars

(* The pipeline implements OutboundContract.                               *)
phase ==
    [m \in Msg |->
        IF verdict[m] # "ACCEPTED" THEN "new"
        ELSE IF Queued(m) THEN "queued"
        ELSE IF state[m] = "FAILED" THEN "failed"
        ELSE IF state[m] = "SENDING" /\ "sent" \notin told[m] THEN "uploading"
        ELSE "sent"]

Contract == INSTANCE OutboundContract WITH Capacity <- PENDING_OUTBOUND_SIZE

ContractSpec == Contract!Spec

(* Documented expectations the code does not meet.                         *)

(* "Retry failed outbound messages": a message moved back to the pending   *)
(* queue is going to be attempted.                                         *)
RetriedIsAttempted ==
    [][\A m \in Msg : m \in Elements(failed) /\ Queued(m)'
                         => attempts[m] < MAX_DELIVERY_ATTEMPTS]_vars

(* "Failed callback: Called when message sending fails (link timeout,      *)
(* etc)": an upload the network has given up on is reported as failed.     *)
LostUploadIsReported ==
    \A m \in Msg :
        state[m] = "SENDING"
            => \/ \E t \in air \cup confirmed : t.msg = m
               \/ "failed" \in told[m]

(* "Called when remote confirms message delivery": a proof that arrives is *)
(* passed on to the application.                                           *)
ConfirmedIsReported ==
    \A t \in confirmed :
        state[t.msg] = "SENT" => "delivered" \in told[t.msg]

(* "Messages that fail DIRECT/OPPORTUNISTIC delivery will automatically be *)
(* retried via a propagation node", which is the default.                  *)
FailedFallsBack ==
    \A m \in Elements(failed) : method[m] = "PROPAGATED"
=============================================================================

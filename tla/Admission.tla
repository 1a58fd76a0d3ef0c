------------------------------ MODULE Admission ------------------------------
(***************************************************************************)
(* How a message enters the outbound queue: the message object with its    *)
(* cached bytes, hash and stamp (src/src/LXMF/LXMessage.cpp), the router's *)
(* try_handle_outbound() with the stamp costs peers have announced         *)
(* (LXMRouter.cpp), and the guard with which the bridge saves the message  *)
(* before the router owns it (conformance-bridge/src/runtime/Runtime.cpp). *)
(*                                                                         *)
(* Every step holds _router_mutex: a call that submits a message, a        *)
(* dispatch or callback of the worker's pass.  The queue's own passes are  *)
(* OutboundQueue's; here an entry just leaves with an outcome.             *)
(*                                                                         *)
(* The program is the bridge, or an application that uses the library: it  *)
(* holds on to its messages, may prepare them itself, and may submit one   *)
(* again, also after a guard of its own has refused it.                    *)
(***************************************************************************)
EXTENDS StampCosts, Sequences

CONSTANTS
    Msg,                            \* message objects
    TextOf,                         \* what each is built from: destination,
                                    \* source, time, title, content, fields
    PeerOf,                         \* its destination
    Propagated,                     \* messages for the propagation node
    Sourceless,                     \* messages built from hashes only, as the
                                    \* bridge does for an unknown recipient
    Guarded,                        \* messages of the bridge, submitted with
                                    \* its guard, each built for one submission
    NoHash, NoBytes, NoStamp,
    MAX_AUTO_OUTBOUND_STAMP_COST,
    PENDING_OUTBOUND_SIZE,
    MaxVersion                      \* bound: edits of a message object

(* Two messages have one hash exactly when they have the same text and the *)
(* same edits.                                                             *)
Hash == {TextOf[m] : m \in Msg} \X (0..MaxVersion)

Stamp == [over : Hash, cost : 1..MAX_STAMP_COST]

ASSUME AdmissionAssumption ==
    /\ DOMAIN TextOf = Msg
    /\ NoHash \notin Hash
    /\ NoStamp \notin Stamp
    /\ PeerOf \in [Msg -> Peer]
    /\ Propagated \subseteq Msg
    /\ Sourceless \subseteq Msg
    /\ Guarded \subseteq Msg
    /\ MAX_AUTO_OUTBOUND_STAMP_COST \in 0..MAX_STAMP_COST
    /\ PENDING_OUTBOUND_SIZE \in Nat \ {0}
    /\ MaxVersion \in Nat

Bytes == [hash : Hash, stamp : Stamp \cup {NoStamp}]

State == {"GENERATING", "OUTBOUND", "SENT", "DELIVERED", "FAILED"}

Object == [version    : 0..MaxVersion,
           hash       : Hash \cup {NoHash},
           packed     : Bytes \cup {NoBytes},
           packedValid : BOOLEAN,
           stamp      : Stamp \cup {NoStamp},
           stampValid : BOOLEAN,
           stampCost  : 0..MAX_STAMP_COST,
           state      : State]

Result == {"none", "ACCEPTED", "QUEUE_FULL", "GUARD_REJECTED", "THROWN"}

(* A queued copy, with what held when it was admitted: the edits made so   *)
(* far, whether the caller had asked for a stamp of its own, and the cost  *)
(* the peer had last announced to this router.                             *)
Entry == [msg : Msg, bytes : Bytes, version : 0..MaxVersion,
          requested : BOOLEAN, announced : 0..MAX_STAMP_COST]

VARIABLES
    bridge,     \* which of the two programs runs
    object,     \* the LXMessage objects their callers hold
    requested,  \* messages whose caller has set a stamp cost or made a stamp
    queue,      \* _pending_outbound_pool, oldest first
    awaiting,   \* hashes sent and not yet proved delivered
    states,     \* _outbound_states
    store,      \* the bridge's message store
    result,     \* what the last submission of a message returned
    admitted,   \* history: guarded hashes the router has accepted
    owed        \* history: the stamp the router had made for a message, by
                \* itself, when a guard refused it

admissionVars == <<costVars, bridge, object, requested, queue, awaiting, states,
                   store, result, admitted, owed>>

AdmissionTypeOK ==
    /\ CostsTypeOK
    /\ bridge \in BOOLEAN
    /\ object \in [Msg -> Object]
    /\ requested \subseteq Msg
    /\ queue \in Seq(Entry) /\ Len(queue) <= PENDING_OUTBOUND_SIZE
    /\ awaiting \subseteq Hash
    /\ states \in [Hash -> State \cup {"unknown"}]
    /\ store \in [Hash -> State \cup {"absent"}]
    /\ result \in [Msg -> Result]
    /\ admitted \subseteq Hash
    /\ owed \in [Msg -> Stamp \cup {NoStamp}]

NewObject == [version |-> 0, hash |-> NoHash, packed |-> NoBytes,
              packedValid |-> FALSE, stamp |-> NoStamp, stampValid |-> FALSE,
              stampCost |-> 0, state |-> "GENERATING"]

AdmissionInit ==
    /\ CostsInit
    /\ bridge \in BOOLEAN
    /\ object = [m \in Msg |-> NewObject]
    /\ requested = {}
    /\ queue = <<>>
    /\ awaiting = {}
    /\ states = [h \in Hash |-> "unknown"]
    /\ store = [h \in Hash |-> "absent"]
    /\ result = [m \in Msg |-> "none"]
    /\ admitted = {}
    /\ owed = [m \in Msg |-> NoStamp]

-----------------------------------------------------------------------------
(* The message object.                                                     *)

(* title(), content(), fields_set(), fields_clear(): the cached bytes are  *)
(* no longer valid; the hash and the stamp stay.                           *)
Edited(o) == [o EXCEPT !.version = @ + 1, !.packedValid = FALSE]

(* pack(): valid bytes are kept, and the stamp goes into the bytes but not *)
(* into the hash.                                                          *)
Packed(m, o) ==
    IF o.packedValid THEN o
    ELSE LET hash == <<TextOf[m], o.version>>
         IN  [o EXCEPT !.hash = hash,
                       !.packed = [hash |-> hash, stamp |-> o.stamp],
                       !.packedValid = TRUE,
                       !.state = "OUTBOUND"]

(* pack() of a message without a source throws when it should sign, and    *)
(* has computed the hash by then.                                          *)
PackThrew(m, o) == [o EXCEPT !.hash = <<TextOf[m], o.version>>]

(* generate_stamp(): the search ends with a stamp over the hash the object *)
(* has, and packs only an object that has none.                            *)
WithStamp(m, o) ==
    LET base == IF o.hash = NoHash THEN Packed(m, o) ELSE o
    IN  [base EXCEPT !.stamp = [over |-> base.hash, cost |-> base.stampCost],
                     !.stampValid = TRUE,
                     !.packedValid = FALSE]

Changes(m, o) ==
    /\ object' = [object EXCEPT ![m] = o]
    /\ UNCHANGED <<costVars, bridge, queue, awaiting, states, store,
                   result, admitted, owed>>

(* An application works on a message it has not handed over; the bridge    *)
(* only builds its messages and submits them.                              *)
Held(m) == ~bridge /\ m \notin Guarded /\ result[m] # "ACCEPTED"

Edit(m) ==
    /\ Held(m)
    /\ object[m].version < MaxVersion
    /\ Changes(m, Edited(object[m]))
    /\ UNCHANGED requested

PackEarly(m) ==
    /\ Held(m)
    /\ m \notin Sourceless
    /\ Changes(m, Packed(m, object[m]))
    /\ UNCHANGED requested

RequestStamp(m) ==
    /\ Held(m)
    /\ \E c \in 1..MAX_STAMP_COST :
           Changes(m, [object[m] EXCEPT !.stampCost = c])
    /\ requested' = requested \cup {m}

(* A message without a cost is given no stamp.                             *)
GenerateStamp(m) ==
    /\ Held(m)
    /\ m \notin Sourceless
    /\ object[m].stampCost > 0
    /\ Changes(m, WithStamp(m, object[m]))
    /\ requested' = requested \cup {m}

-----------------------------------------------------------------------------
(* try_handle_outbound().                                                  *)

AnnouncedCost(m) == GetOutboundStampCost(PeerOf[m])

(* The announced cost matters when the caller has asked for no stamp.      *)
CostIsAutomatic(m) == m \notin Propagated /\ object[m].stampCost = 0

TooCostly(m) ==
    /\ CostIsAutomatic(m)
    /\ AnnouncedCost(m) > MAX_AUTO_OUTBOUND_STAMP_COST

WithCost(m) ==
    IF CostIsAutomatic(m)
    THEN [object[m] EXCEPT !.stampCost = AnnouncedCost(m)]
    ELSE object[m]

StampIsAutomatic(m) == CostIsAutomatic(m) /\ AnnouncedCost(m) > 0

(* Mutant: the message is not packed before its stamp is made.             *)
PreparedUnpacked(m) ==
    LET o == WithCost(m)
    IN  IF StampIsAutomatic(m) /\ ~o.stampValid
        THEN Packed(m, WithStamp(m, o))
        ELSE Packed(m, o)

(* The object when it is ready to be queued.                               *)
Prepared(m) ==
    LET o == WithCost(m)
    IN  IF StampIsAutomatic(m) /\ ~o.stampValid
        THEN Packed(m, WithStamp(m, Packed(m, o)))
        ELSE Packed(m, o)

Full == Len(queue) >= PENDING_OUTBOUND_SIZE

Returns(m, r) == result' = [result EXCEPT ![m] = r]

NothingElse == UNCHANGED <<costVars, bridge, requested, queue, awaiting,
                           states, store, admitted>>

(* A full queue is found before the caller's message is touched; the       *)
(* bridge turns the result into an exception.                              *)
RefuseFull(m) ==
    /\ Full
    /\ Returns(m, "QUEUE_FULL")
    /\ UNCHANGED <<object, owed>>
    /\ NothingElse

RefuseTooCostly(m) ==
    /\ ~Full
    /\ TooCostly(m)
    /\ Returns(m, "THROWN")
    /\ UNCHANGED <<object, owed>>
    /\ NothingElse

FailToSign(m) ==
    /\ ~Full
    /\ m \in Sourceless /\ ~TooCostly(m)
    /\ object' = [object EXCEPT ![m] = PackThrew(m, WithCost(m))]
    /\ Returns(m, "THROWN")
    /\ UNCHANGED owed
    /\ NothingElse

(* The guard of an application refuses, as it likes: the message has been  *)
(* prepared by then.  The bridge's is persist_prepared_outbound(), when    *)
(* save_message() fails or throws: the state it had put into the map is    *)
(* put back, or taken out again, before it lets go of _outbound_mutex.     *)
GuardRejects(m) ==
    /\ ~Full
    /\ m \notin Sourceless /\ ~TooCostly(m)
    /\ object' = [object EXCEPT ![m] = Prepared(m)]
    /\ owed' = IF StampIsAutomatic(m)
               THEN [owed EXCEPT ![m] = [over |-> Prepared(m).hash,
                                         cost |-> AnnouncedCost(m)]]
               ELSE owed
    /\ Returns(m, "GUARD_REJECTED")
    /\ NothingElse

EntryOf(m) == [msg |-> m, bytes |-> Prepared(m).packed,
               version |-> object[m].version,
               requested |-> m \in requested,
               announced |-> AnnouncedCost(m)]

(* Mutant: the map keeps the state the message had when it was built.      *)
GuardSavesGenerating(m) ==
    IF m \in Guarded
    THEN LET hash == Prepared(m).hash
         IN  /\ states' = [states EXCEPT ![hash] = "GENERATING"]
             /\ store' = [store EXCEPT ![hash] = "OUTBOUND"]
             /\ admitted' = admitted \cup {hash}
    ELSE UNCHANGED <<states, store, admitted>>

(* persist_prepared_outbound() when the message is saved.                  *)
GuardSaves(m) ==
    IF m \in Guarded
    THEN LET hash == Prepared(m).hash
         IN  /\ states' = [states EXCEPT ![hash] = "OUTBOUND"]
             /\ store' = [store EXCEPT ![hash] = "OUTBOUND"]
             /\ admitted' = admitted \cup {hash}
    ELSE UNCHANGED <<states, store, admitted>>

Accept(m) ==
    /\ ~Full
    /\ m \notin Sourceless /\ ~TooCostly(m)
    /\ object' = [object EXCEPT ![m] = [Prepared(m) EXCEPT !.state = "OUTBOUND"]]
    /\ GuardSaves(m)
    /\ queue' = Append(queue, EntryOf(m))
    /\ Returns(m, "ACCEPTED")
    /\ UNCHANGED <<costVars, bridge, requested, awaiting, owed>>

TryHandleOutbound(m) ==
    /\ \/ bridge /\ m \in Guarded /\ result[m] = "none"
       \/ Held(m)
    /\ \/ RefuseFull(m)
       \/ RefuseTooCostly(m)
       \/ FailToSign(m)
       \/ GuardRejects(m)
       \/ Accept(m)

-----------------------------------------------------------------------------
(* The worker's pass.                                                      *)

Announce(p, d) ==
    /\ OnDeliveryAnnounce(p, d)
    /\ UNCHANGED <<bridge, object, requested, queue, awaiting, states, store,
                   result, admitted, owed>>

(* A callback of the bridge puts the state into the map, and into the      *)
(* store unless that fails, which it does not notice.                      *)
Report(hash, state) ==
    IF bridge
    THEN /\ states' = [states EXCEPT ![hash] = state]
         /\ \/ UNCHANGED store
            \/ /\ store[hash] # "absent"
               /\ store' = [store EXCEPT ![hash] = state]
    ELSE UNCHANGED <<states, store>>

(* The message at the front is sent or given up.                           *)
Conclude(state) ==
    /\ queue # <<>>
    /\ queue' = Tail(queue)
    /\ LET hash == Head(queue).bytes.hash
       IN  /\ awaiting' = IF state = "SENT" THEN awaiting \cup {hash}
                                            ELSE awaiting
           /\ Report(hash, state)
    /\ UNCHANGED <<costVars, bridge, object, requested, result, admitted, owed>>

(* The proof of a sent message arrives.                                    *)
Delivered(hash) ==
    /\ hash \in awaiting
    /\ awaiting' = awaiting \ {hash}
    /\ Report(hash, "DELIVERED")
    /\ UNCHANGED <<costVars, bridge, object, requested, queue, result,
                   admitted, owed>>

AdmissionNext ==
    \/ \E m \in Msg : \/ Edit(m) \/ PackEarly(m) \/ RequestStamp(m)
                      \/ GenerateStamp(m) \/ TryHandleOutbound(m)
    \/ \E p \in Peer, d \in AppData : Announce(p, d)
    \/ \E state \in {"SENT", "FAILED"} : Conclude(state)
    \/ \E hash \in awaiting : Delivered(hash)

AdmissionSpec == AdmissionInit /\ [][AdmissionNext]_admissionVars

-----------------------------------------------------------------------------
(* What admission promises.                                                *)

LeftToRouter(e) == ~e.requested /\ e.msg \notin Propagated

(* A message whose caller left the stamp to the router is queued with a    *)
(* stamp over the hash it is sent under, worth at least what its peer last *)
(* announced, however often it was packed, edited and refused before; but  *)
(* one that a guard refused once the router had made its stamp is queued   *)
(* with that stamp, worth what the peer had announced by then              *)
(* (try_handle_outbound(), generate_stamp(), pack()).                      *)
AutomaticStampsHold ==
    \A i \in 1..Len(queue) :
        LET e == queue[i]
            due == IF owed[e.msg] # NoStamp THEN owed[e.msg]
                   ELSE [over |-> e.bytes.hash, cost |-> e.announced]
        IN  LeftToRouter(e) /\ due.cost > 0 =>
                /\ e.bytes.stamp # NoStamp
                /\ e.bytes.stamp.over = due.over
                /\ e.bytes.stamp.cost >= due.cost

(* What is queued are the bytes of the message as its caller last edited   *)
(* it, not those of an earlier pack() (_packed_valid and the setters).     *)
AcceptedIsCurrent ==
    \A i \in 1..Len(queue) :
        LET e == queue[i] IN e.bytes.hash = <<TextOf[e.msg], e.version>>

(* A message the bridge has accepted is in its store under the hash the    *)
(* call returned, and its state can be asked for (send_message_internal()  *)
(* and persist_prepared_outbound()).                                       *)
AcceptedIsDurable ==
    \A hash \in admitted : store[hash] # "absent" /\ states[hash] # "unknown"

(* While the only accepted message of a hash waits in the queue the bridge *)
(* reports it as outbound, whatever became of refused twins of it          *)
(* (get_message_state()).                                                  *)
WaitingIsOutbound ==
    \A i \in 1..Len(queue) :
        LET e == queue[i]
            twins == {m \in Msg : /\ TextOf[m] = TextOf[e.msg]
                                  /\ result[m] = "ACCEPTED"}
        IN  e.msg \in Guarded /\ twins = {e.msg} =>
                states[e.bytes.hash] = "OUTBOUND"

(* A refused submission leaves the queue, the reported states and the      *)
(* store as they were, and a message that found the queue full leaves the  *)
(* call unchanged, so that it can be submitted again as it is              *)
(* (QUEUE_FULL and GUARD_REJECTED of try_handle_outbound()).               *)
RefusalLeavesNoTrace ==
    [][\A m \in Msg :
           result'[m] # result[m] /\ result'[m] # "ACCEPTED" =>
               /\ UNCHANGED <<queue, states, store>>
               /\ result'[m] = "QUEUE_FULL" => object'[m] = object[m]]_admissionVars

(* Documented expectations the code does not meet.                         *)

(* "Apply the latest cost advertised by the destination unless the caller  *)
(* already requested a stamp explicitly": also to a message that a guard   *)
(* has refused before.                                                     *)
LatestCostIsMet ==
    \A i \in 1..Len(queue) :
        LET e == queue[i]
        IN  LeftToRouter(e) /\ e.announced > 0 =>
                /\ e.bytes.stamp # NoStamp
                /\ e.bytes.stamp.over = e.bytes.hash
                /\ e.bytes.stamp.cost >= e.announced

(* has_valid_stamp() of a packed message means that the stamp in its bytes *)
(* is one for the hash it is sent under.                                   *)
ValidStampIsOwn ==
    \A m \in Msg :
        LET o == object[m]
        IN  o.packedValid /\ o.stampValid /\ o.packed.stamp # NoStamp =>
                o.packed.stamp.over = o.hash
=============================================================================

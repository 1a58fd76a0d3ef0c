-------------------------- MODULE PropagatedUpload --------------------------
(***************************************************************************)
(* Uploads to the propagation node: what send_propagated() of LXMRouter    *)
(* answers to a pass over a propagated message, the link to the node, and  *)
(* the one background slot of LXStamper that computes propagation stamps.  *)
(*                                                                         *)
(* A stamp is computed over one ciphertext.  Encryption is randomised, so  *)
(* a ciphertext is named by the message and the attempt that produced it.  *)
(***************************************************************************)
EXTENDS OutboundQueue

CONSTANTS
    Node,        \* propagation nodes the application may choose
    NoNode,      \* the empty _outbound_propagation_node
    NoStamp,     \* the empty _propagation_stamp, and an unused slot
    StampCost,   \* stamp costs the application may set, 0 for none
    SearchMayFail   \* whether the worker may end without a stamp

Ciphertext == [msg : Msg, attempt : 1..MAX_DELIVERY_ATTEMPTS]
Stamp == [of : Ciphertext, cost : StampCost]
NodeLinkStatus == {"NONE", "PENDING", "ACTIVE", "STALE", "CLOSED"}
AsyncState == {"IDLE", "RUNNING", "DONE_SUCCESS", "DONE_FAIL"}

ASSUME UploadAssumption ==
    /\ NoNode \notin Node
    /\ NoStamp \notin Stamp
    /\ StampCost \subseteq Nat /\ 0 \in StampCost
    /\ SearchMayFail \in BOOLEAN

VARIABLES
    node,      \* _outbound_propagation_node
    link,      \* _outbound_propagation_link: its peer and its status
    cost,      \* _outbound_propagation_stamp_cost
    stamper,   \* g_async_stamp: its state and the stamp ordered from it
    cipher,    \* attempt that filled _propagation_encrypted, 0 when empty
    stamp,     \* LXMessage::_propagation_stamp of the router's copy
    uploads,   \* uploads started so far (history)
    refused    \* ciphertexts cached for an order that was refused (history)

nodeVars == <<node, link, cost>>
stampVars == <<stamper, cipher, stamp>>
pastVars == <<uploads, refused>>
uploadVars == <<nodeVars, stampVars, pastVars>>
allUploadVars == <<vars, uploadVars>>

Idle == [status |-> "IDLE", stamp |-> NoStamp]

Slot == [status : AsyncState, stamp : Stamp \cup {NoStamp}]

(* took is the slot whose result the starting pass has taken, if any.      *)
Upload ==
    [msg : Msg, cipher : Ciphertext, stamp : Stamp \cup {NoStamp},
     took : Slot, cost : StampCost]

UploadTypeOK ==
    /\ TypeOK
    /\ node \in Node \cup {NoNode}
    /\ link \in [to : Node \cup {NoNode}, status : NodeLinkStatus]
    /\ cost \in StampCost
    /\ stamper \in Slot
    /\ cipher \in [Msg -> 0..MAX_DELIVERY_ATTEMPTS]
    /\ stamp \in [Msg -> Stamp \cup {NoStamp}]
    /\ uploads \subseteq Upload
    /\ refused \subseteq Ciphertext

NoLink == [to |-> NoNode, status |-> "NONE"]

UploadInit ==
    /\ Init
    /\ node = NoNode
    /\ link = NoLink
    /\ cost = 0
    /\ stamper = Idle
    /\ cipher = [m \in Msg |-> 0]
    /\ stamp = [m \in Msg |-> NoStamp]
    /\ uploads = {}
    /\ refused = {}

-----------------------------------------------------------------------------
(* send_propagated(), one action per answer.  "false" makes the pass wait  *)
(* OUTBOUND_RETRY_DELAY; every wait costs the message an attempt.          *)

NotReady(m) == UsesPropagation(m) /\ RetryLater(m, OUTBOUND_RETRY_DELAY)

(* Mutant: waiting for the stamp is not counted as an attempt.             *)
NotReadyUncounted(m) ==
    UsesPropagation(m) /\ RetryLaterUncounted(m, OUTBOUND_RETRY_DELAY)

WaitForNode(m) ==
    /\ node = NoNode
    /\ NotReady(m)
    /\ UNCHANGED uploadVars

(* Without a path or the node's identity no link is opened.                *)
OpenNodeLink(m) ==
    /\ node # NoNode
    /\ link.status \in {"NONE", "CLOSED"}
    /\ NotReady(m)
    /\ link' \in {link, [to |-> node, status |-> "PENDING"]}
    /\ UNCHANGED <<node, cost, stampVars, pastVars>>

AwaitNodeLink(m) ==
    /\ link.status \in {"PENDING", "STALE"}
    /\ NotReady(m)
    /\ UNCHANGED uploadVars

NodeReady == node # NoNode /\ link.status = "ACTIVE"

NeedsStamp(m) == cost > 0 /\ stamp[m] = NoStamp

Running == stamper.status = "RUNNING"
Done == stamper.status \in {"DONE_SUCCESS", "DONE_FAIL"}

(* The worker puts its result into the slot.  A search that nothing        *)
(* cancels ends with a stamp; the code provides for one that does not.     *)
Finished ==
    {[stamper EXCEPT !.status = s] :
         s \in IF SearchMayFail THEN {"DONE_SUCCESS", "DONE_FAIL"}
                                ELSE {"DONE_SUCCESS"}}

(* A pass reads the stamper's state up to three times: whether a result is *)
(* there, whether the worker runs and, in start_async(), whether the slot  *)
(* is free.  Only the worker can move it meanwhile, from running to done.  *)
(* What a pass sees is therefore one of                                    *)
(*      done                          TakeStamp                            *)
(*      idle, idle, idle              KickStamp                            *)
(*      running, running              AwaitStamp                           *)
(*      running, done, done           KickStampTooLate                     *)

(* Mutant: a stamp that is not running counts as ready.                    *)
StampReadyUnlessRunning(m) == NeedsStamp(m) => ~Running

StampReady(m) == NeedsStamp(m) => Done

(* Mutant: the ciphertext the stamp is computed over is not cached.        *)
KickStampUncached(m) ==
    /\ NodeReady
    /\ NeedsStamp(m)
    /\ stamper.status = "IDLE"
    /\ NotReady(m)
    /\ LET ordered == [of |-> [msg |-> m, attempt |-> attempts[m] + 1],
                       cost |-> cost]
       IN  stamper' \in {stamper, [status |-> "RUNNING", stamp |-> ordered]}
    /\ UNCHANGED <<nodeVars, cipher, stamp, pastVars>>

(* start_propagation_stamp_async(): the ciphertext is cached before the    *)
(* worker is started, and the worker may fail to start.  With the          *)
(* recipient's identity unknown nothing is cached.                         *)
KickStamp(m) ==
    /\ NodeReady
    /\ NeedsStamp(m)
    /\ stamper.status = "IDLE"
    /\ NotReady(m)
    /\ \/ UNCHANGED <<cipher, stamper>>
       \/ /\ cipher' = [cipher EXCEPT ![m] = attempts[m] + 1]
          /\ LET ordered == [of |-> [msg |-> m, attempt |-> attempts[m] + 1],
                             cost |-> cost]
             IN  stamper' \in {stamper,
                               [status |-> "RUNNING", stamp |-> ordered]}
    /\ UNCHANGED <<nodeVars, stamp, pastVars>>

(* The worker finishes after the pass has found no result and before it    *)
(* asks whether one is computed: the message is encrypted anew and its     *)
(* order refused, because the result still occupies the slot.              *)
KickStampTooLate(m) ==
    /\ NodeReady
    /\ NeedsStamp(m)
    /\ Running
    /\ NotReady(m)
    /\ stamper' \in Finished
    /\ \/ UNCHANGED <<cipher, refused>>
       \/ /\ cipher' = [cipher EXCEPT ![m] = attempts[m] + 1]
          /\ refused' = refused \cup {[msg |-> m, attempt |-> cipher'[m]]}
    /\ UNCHANGED <<nodeVars, stamp, uploads>>

(* Mutant: waiting for the stamp is not counted as an attempt.             *)
AwaitStampUncounted(m) ==
    /\ NodeReady
    /\ NeedsStamp(m)
    /\ Running
    /\ NotReadyUncounted(m)
    /\ UNCHANGED uploadVars

(* The slot does not say whose stamp it computes.                          *)
AwaitStamp(m) ==
    /\ NodeReady
    /\ NeedsStamp(m)
    /\ Running
    /\ NotReady(m)
    /\ UNCHANGED uploadVars

Result == IF stamper.status = "DONE_SUCCESS" THEN stamper.stamp ELSE NoStamp

(* take_propagation_stamp_result(): whatever the slot holds.  After a      *)
(* search that failed the message is sent without a stamp.                 *)
TakeStamp(m) ==
    IF NeedsStamp(m)
    THEN /\ stamp' = [stamp EXCEPT ![m] = Result]
         /\ stamper' = Idle
    ELSE UNCHANGED <<stamp, stamper>>

(* pack_propagated() encrypts anew when no ciphertext is cached.           *)
Packed(m) ==
    [msg |-> m, attempt |-> IF cipher[m] > 0 THEN cipher[m]
                                             ELSE attempts[m] + 1]

(* The link is up and the stamp at hand: the upload starts, cannot be      *)
(* packed because the recipient's identity is unknown, or throws.          *)
PackAndUpload(m) ==
    /\ NodeReady
    /\ StampReady(m)
    /\ TakeStamp(m)
    /\ \/ /\ StartUpload(m)
          /\ uploads' = uploads \cup
                 {[msg |-> m, cipher |-> Packed(m), stamp |-> stamp'[m],
                   took |-> IF NeedsStamp(m) THEN stamper ELSE Idle,
                   cost |-> cost]}
       \/ /\ NotReady(m) \/ (UsesPropagation(m) /\ SendFails(m))
          /\ UNCHANGED uploads
    /\ UNCHANGED <<nodeVars, cipher, refused>>

(* Opening the link or encrypting may throw, the latter also when the      *)
(* worker has just finished.                                               *)
NotReadyThrows(m) ==
    /\ UsesPropagation(m) /\ SendFails(m)
    /\ node # NoNode
    /\ \/ /\ \/ link.status \in {"NONE", "CLOSED"}
             \/ NodeReady /\ NeedsStamp(m) /\ stamper.status = "IDLE"
          /\ UNCHANGED stamper
       \/ /\ NodeReady /\ NeedsStamp(m) /\ Running
          /\ stamper' \in Finished
    /\ UNCHANGED <<nodeVars, cipher, stamp, pastVars>>

SendPropagated(m) ==
    \/ WaitForNode(m)
    \/ OpenNodeLink(m)
    \/ AwaitNodeLink(m)
    \/ KickStamp(m)
    \/ KickStampTooLate(m)
    \/ AwaitStamp(m)
    \/ PackAndUpload(m)
    \/ NotReadyThrows(m)

(* A pass over a message that is given up or sent some other way.          *)
OtherUploadPass(m) ==
    /\ \/ GiveUp(m)
       \/ ~UsesPropagation(m) /\ ProcessOutbound(m)
    /\ UNCHANGED uploadVars

UploadPass(m) == SendPropagated(m) \/ OtherUploadPass(m)

-----------------------------------------------------------------------------
(* The worker task, the link and the application.                          *)

StampDone ==
    /\ Running
    /\ stamper' \in Finished
    /\ UNCHANGED <<vars, nodeVars, cipher, stamp, pastVars>>

LinkMoves ==
    {<<"PENDING", "ACTIVE">>, <<"PENDING", "CLOSED">>, <<"ACTIVE", "STALE">>,
     <<"STALE", "ACTIVE">>, <<"ACTIVE", "CLOSED">>, <<"STALE", "CLOSED">>}

LinkChanges ==
    /\ \E status \in NodeLinkStatus :
           /\ <<link.status, status>> \in LinkMoves
           /\ link' = [link EXCEPT !.status = status]
    /\ UNCHANGED <<vars, node, cost, stampVars, pastVars>>

(* Mutant: the link to the previous node is kept.                          *)
SetNodeKeepingLink(n) ==
    /\ node' = n
    /\ UNCHANGED <<vars, link, cost, stampVars, pastVars>>

(* set_outbound_propagation_node() with a node.                            *)
SetNode(n) ==
    /\ node' = n
    /\ link' = IF n = node THEN link ELSE NoLink
    /\ UNCHANGED <<vars, cost, stampVars, pastVars>>

(* set_outbound_propagation_node() with an empty hash.                     *)
ClearNode ==
    /\ node' = NoNode
    /\ link' = NoLink
    /\ UNCHANGED <<vars, cost, stampVars, pastVars>>

SetStampCost(c) ==
    /\ cost' = c
    /\ UNCHANGED <<vars, node, link, stampVars, pastVars>>

(* Everything else the router does.                                        *)
UploadRouterStep ==
    /\ \/ \E m \in Msg : TryHandleOutbound(m)
       \/ \E t \in air : Confirmed(t) \/ Lost(t)
       \/ RetryFailedOutbound
       \/ ClearFailedOutbound
       \/ SetPropagationOnly
    /\ UNCHANGED uploadVars

UploadTick == Tick /\ UNCHANGED uploadVars

UploadNext ==
    \/ \E m \in Msg : UploadPass(m)
    \/ StampDone
    \/ LinkChanges
    \/ \E n \in Node : SetNode(n)
    \/ ClearNode
    \/ \E c \in StampCost : SetStampCost(c)
    \/ UploadRouterStep
    \/ UploadTick

(* As in OutboundQueue: the main loop runs and the clock advances.  The    *)
(* worker, the link and the application owe nothing.                       *)
UploadFairness ==
    /\ WF_allUploadVars(\E m \in Msg : UploadPass(m))
    /\ WF_allUploadVars(UploadTick)

UploadSafeSpec == UploadInit /\ [][UploadNext]_allUploadVars

UploadSpec == UploadSafeSpec /\ UploadFairness

-----------------------------------------------------------------------------
(* Properties.                                                             *)

(* A message is only uploaded to the node that is chosen when its upload   *)
(* starts, over an active link: a change of node between two attempts      *)
(* never sends it to the previous one.                                     *)
UploadsGoToTheChosenNode ==
    [][uploads' # uploads =>
           link.to = node /\ link.status = "ACTIVE"]_allUploadVars

(* "When set to a non-zero value, stamps will be generated before sending  *)
(* messages through the propagation node" (LXMRouter.h): no interleaving   *)
(* of the worker, the timer and the cost setter lets an upload start       *)
(* without one, unless its pass was told that a search had failed; and one *)
(* failed search excuses no second upload.                                 *)
Unstamped == {u \in uploads : u.cost > 0 /\ u.stamp = NoStamp}

StampedUnlessSearchFailed ==
    /\ \A u \in Unstamped : u.took.status = "DONE_FAIL"
    /\ \A u, v \in Unstamped : u.took = v.took => u = v

(* Where every search finds a stamp, every upload that needs one has one.  *)
StampedWhenRequired == Unstamped = {}

OwnStamp(u) == u.stamp # NoStamp => u.stamp.of = u.cipher

(* A message is only uploaded with a stamp that does not fit its           *)
(* ciphertext when the stamp was ordered by another message, which has     *)
(* been given up or uploaded without waiting for it, or when the message   *)
(* was encrypted anew for an order that was refused.                       *)
MisfitsHaveACause ==
    \A u \in uploads :
        \/ OwnStamp(u)
        \/ u.stamp.of.msg = u.msg /\ u.cipher \in refused
        \/ LET owner == u.stamp.of.msg
           IN  /\ owner # u.msg
               /\ \/ "failed" \in told[owner]
                  \/ \E v \in uploads : v.msg = owner

(* Documented expectations the code does not meet.                         *)

(* "Use cached encrypted data if available.  This ensures the stamp        *)
(* matches the encrypted content" (LXMessage.cpp).                         *)
StampMatchesContent == \A u \in uploads : OwnStamp(u)

(* "next process_outbound iteration polls and either retries or proceeds   *)
(* when the stamp lands" (LXMRouter.cpp): a message is not given up while  *)
(* its own stamp is being computed.                                        *)
StampIsAwaited ==
    [][\A m \in Msg :
           GiveUp(m) => ~(Running /\ stamper.stamp.of.msg = m)]_allUploadVars
=============================================================================

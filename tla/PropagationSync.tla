-------------------------- MODULE PropagationSync --------------------------
(***************************************************************************)
(* Fetching messages from a propagation node: the state machine of         *)
(* request_messages_from_propagation_node() and process_sync(), the        *)
(* response callbacks, which find their router through the global          *)
(* _active_sync_router, and the messages they push into InboundQueue.      *)
(*                                                                         *)
(* The node and the transport are external: a request is answered or fails *)
(* at any later time, also after the sync that sent it has ended, unless   *)
(* its link has closed, when it can only fail.                             *)
(***************************************************************************)
EXTENDS InboundQueue

CONSTANTS
    Readable,               \* messages this router can decrypt and unpack
    NodeOrder,              \* every message once, as the node returns them
    TRANSIENT_IDS_SIZE,
    SYNC_TIMEOUT,           \* the 60 seconds of process_sync()
    MaxSyncs                \* bound: requests the application makes

ASSUME SyncAssumption ==
    /\ Readable \subseteq Msg
    /\ NodeOrder \in Seq(Msg)
    /\ TRANSIENT_IDS_SIZE \in Nat \ {0}
    /\ SYNC_TIMEOUT \in Nat
    /\ MaxSyncs \in Nat

SyncState == {"PR_IDLE", "PR_PATH_REQUESTED", "PR_LINK_ESTABLISHING",
              "PR_LINK_ESTABLISHED", "PR_REQUEST_SENT", "PR_RECEIVING",
              "PR_COMPLETE", "PR_FAILED"}
Ended == {"PR_IDLE", "PR_COMPLETE", "PR_FAILED"}
Waiting == {"PR_LINK_ESTABLISHED", "PR_REQUEST_SENT", "PR_RECEIVING"}
LinkStatus == {"NONE", "PENDING", "ACTIVE", "CLOSED"}

VARIABLES
    sync,         \* _sync_state
    elapsed,      \* seconds since _sync_start_time
    configured,   \* whether _outbound_propagation_node is set
    link,         \* status of _outbound_propagation_link
    active,       \* whether _active_sync_router is set
    requests,     \* requests that may still be answered or fail
    seen,         \* _transient_ids_buffer, oldest first
    stored,       \* messages the node holds for this router
    acked,        \* history: messages the node was told it may delete
    started,      \* history: number of requests of the application
    heard         \* history: completion callbacks since the last of them

nodeVars == <<configured, link>>
fetchVars == <<seen, stored, acked>>
syncVars == <<sync, elapsed, configured, link, active, requests, seen, stored,
              acked, started, heard>>
allVars == <<inboundVars, syncVars>>

(* over tells what became of the link a request was sent on: it is still   *)
(* the router's, the router has dropped it without closing it, or closed.  *)
Request == [kind : {"list", "get"}, wants : SUBSET Msg, no : 1..MaxSyncs,
            over : {"current", "dropped", "closed"}]

Elements(q) == {q[i] : i \in 1..Len(q)}

SyncTypeOK ==
    /\ sync \in SyncState
    /\ elapsed \in 0..(SYNC_TIMEOUT + 1)
    /\ configured \in BOOLEAN
    /\ link \in LinkStatus
    /\ active \in BOOLEAN
    /\ requests \subseteq Request
    /\ seen \in Seq(Msg) /\ Len(seen) <= TRANSIENT_IDS_SIZE
    /\ stored \subseteq Msg
    /\ acked \subseteq Msg
    /\ started \in 0..MaxSyncs
    /\ heard \in Nat

SyncInit ==
    /\ Init
    /\ sync = "PR_IDLE"
    /\ elapsed = 0
    /\ configured = FALSE
    /\ link = "NONE"
    /\ active = FALSE
    /\ requests = {}
    /\ seen = <<>>
    /\ stored = Msg
    /\ acked = {}
    /\ started = 0
    /\ heard = 0

-----------------------------------------------------------------------------
(* The state machine.                                                      *)

(* on_sync_failed(): the completion callback is not called.                *)
OnSyncFailed ==
    /\ sync' = "PR_FAILED"
    /\ active' = FALSE

(* The paths that fail without touching _active_sync_router.               *)
FailOnly == sync' = "PR_FAILED" /\ UNCHANGED active

Stay(st) == sync' = st /\ UNCHANGED active

Send(request) == requests' = requests \cup {request}

SendListRequest(n) ==
    Send([kind |-> "list", wants |-> {}, no |-> n, over |-> "current"])

(* process_sync() for a sync that is in state st after t seconds, and is   *)
(* the n-th of the application.                                            *)
TimeOut(t) ==
    /\ t > SYNC_TIMEOUT
    /\ OnSyncFailed
    /\ UNCHANGED <<link, requests>>

NodeCleared(t) ==
    /\ t <= SYNC_TIMEOUT
    /\ ~configured
    /\ FailOnly
    /\ UNCHANGED <<link, requests>>

(* Waiting for an answer: only the health of the link is looked at.        *)
AwaitAnswer(st) ==
    /\ st \in Waiting
    /\ IF link \in {"NONE", "CLOSED"} THEN OnSyncFailed ELSE Stay(st)
    /\ UNCHANGED <<link, requests>>

(* An active link is used whoever opened it.  request() may fail to send;  *)
(* an exception on the way leaves the sync in PR_LINK_ESTABLISHED.         *)
AskForList(st, n) ==
    /\ st \notin Waiting
    /\ link = "ACTIVE"
    /\ \/ sync' = "PR_REQUEST_SENT" /\ active' = TRUE /\ SendListRequest(n)
       \/ OnSyncFailed /\ UNCHANGED requests
       \/ /\ sync' = "PR_LINK_ESTABLISHED"
          /\ active' = TRUE
          /\ UNCHANGED requests
    /\ UNCHANGED link

(* The node's path is awaited; once it is known, so should its identity be.*)
AwaitPath(st) ==
    /\ st = "PR_PATH_REQUESTED"
    /\ link # "ACTIVE"
    /\ \/ Stay(st) /\ UNCHANGED link
       \/ FailOnly /\ UNCHANGED link
       \/ Stay("PR_LINK_ESTABLISHING") /\ link' = "PENDING"
    /\ UNCHANGED requests

AwaitLink(st) ==
    /\ st = "PR_LINK_ESTABLISHING"
    /\ link # "ACTIVE"
    /\ IF link = "CLOSED" THEN FailOnly ELSE Stay(st)
    /\ UNCHANGED <<link, requests>>

Advance(st, t, n) ==
    \/ TimeOut(t)
    \/ NodeCleared(t)
    \/ /\ t <= SYNC_TIMEOUT
       /\ configured
       /\ AwaitAnswer(st) \/ AskForList(st, n) \/ AwaitPath(st) \/ AwaitLink(st)

ProcessSync ==
    /\ sync \notin Ended
    /\ Advance(sync, elapsed, started)
    /\ UNCHANGED <<inboundVars, elapsed, configured, fetchVars, started, heard>>

(* A request advances the state machine at once.                           *)
RequestMessages ==
    /\ started < MaxSyncs
    /\ sync \in Ended
    /\ started' = started + 1
    /\ heard' = 0
    /\ IF configured
       THEN elapsed' = 0 /\ Advance("PR_PATH_REQUESTED", 0, started + 1)
       ELSE FailOnly /\ UNCHANGED <<elapsed, link, requests>>
    /\ UNCHANGED <<inboundVars, configured, fetchVars>>

-----------------------------------------------------------------------------
(* The answers.  One that finds no active router is only logged.           *)

Answerable(r, kind) == r \in requests /\ r.kind = kind /\ r.over # "closed"

(* Mutant: a completed sync does not give up _active_sync_router.          *)
FinishKeepingRouter ==
    /\ sync' = "PR_COMPLETE"
    /\ heard' = heard + 1
    /\ UNCHANGED active

Finish ==
    /\ sync' = "PR_COMPLETE"
    /\ active' = FALSE
    /\ heard' = heard + 1

Ignore(r) ==
    /\ r \in requests
    /\ ~active
    /\ requests' = requests \ {r}
    /\ UNCHANGED <<inboundVars, sync, elapsed, nodeVars, active, fetchVars,
                   started, heard>>

NothingWanted(r) ==
    /\ active
    /\ Answerable(r, "list")
    /\ stored \ Elements(seen) = {}
    /\ Finish
    /\ requests' = requests \ {r}
    /\ UNCHANGED <<inboundVars, elapsed, nodeVars, fetchVars, started>>

(* Mutant: the router is forgotten between the two requests of a sync.     *)
AskForMessagesForgetting(r) ==
    /\ active
    /\ Answerable(r, "list")
    /\ stored \ Elements(seen) # {}
    /\ sync' = "PR_RECEIVING"
    /\ active' = FALSE
    /\ requests' = (requests \ {r}) \cup
           {[kind |-> "get", wants |-> stored \ Elements(seen),
             no |-> r.no, over |-> "current"]}
    /\ UNCHANGED <<inboundVars, elapsed, nodeVars, fetchVars, started, heard>>

(* The messages that were not seen yet are asked for.  Whether request()   *)
(* sent anything is not looked at; without an active link it did not.      *)
AskForMessages(r) ==
    /\ active
    /\ Answerable(r, "list")
    /\ stored \ Elements(seen) # {}
    /\ sync' = "PR_RECEIVING"
    /\ UNCHANGED active
    /\ requests' = (requests \ {r}) \cup
           (IF link = "ACTIVE"
            THEN {[kind |-> "get", wants |-> stored \ Elements(seen),
                   no |-> r.no, over |-> "current"]}
            ELSE {})
    /\ UNCHANGED <<inboundVars, elapsed, nodeVars, fetchVars, started, heard>>

(* The list cannot be parsed, or the request throws.                       *)
ListFails(r) ==
    /\ active
    /\ Answerable(r, "list")
    /\ OnSyncFailed
    /\ requests' = requests \ {r}
    /\ UNCHANGED <<inboundVars, elapsed, nodeVars, fetchVars, started, heard>>

(* The last n elements of q.                                               *)
LastOf(q, n) == IF Len(q) <= n THEN q ELSE SubSeq(q, Len(q) - n + 1, Len(q))

(* pending_inbound_push() and transient_ids_add() for each of s in turn.   *)
PushAll(s) ==
    LET copies == [i \in 1..Len(s) |-> Unpacked(s[i], "propagated")]
        kept   == LastOf(inbound \o copies, PENDING_INBOUND_SIZE)
        over   == Len(inbound) + Len(s) - Len(kept)
    IN  /\ inbound' = kept
        /\ evicted' = evicted \cup Msgs(SubSeq(inbound \o copies, 1, over))
        /\ accepted' = accepted \cup Elements(s)
        /\ seen' = LastOf(seen \o s, TRANSIENT_IDS_SIZE)
        /\ UNCHANGED <<recent, recentNext, known, enforcing, arrivals, proved,
                       dispatched>>

(* The elements of s that are in S, in the order of s.                     *)
Selected(s, S) ==
    LET upTo[i \in 0..Len(s)] ==
            IF i = 0 THEN <<>>
            ELSE IF s[i] \in S THEN Append(upTo[i - 1], s[i]) ELSE upTo[i - 1]
    IN  upTo[Len(s)]

Returned(r) == Selected(NodeOrder, r.wants \cap stored)

(* Mutant: what the response held is acknowledged though it was not        *)
(* processed to its end.                                                   *)
ReceiveMessagesAckingAll(r) ==
    /\ active
    /\ Answerable(r, "get")
    /\ \E n \in 0..Len(Returned(r)) :
           PushAll(Selected(SubSeq(Returned(r), 1, n), Readable))
    /\ LET all == Elements(Returned(r))
       IN  IF link = "ACTIVE"
           THEN acked' = acked \cup all /\ stored' = stored \ all
           ELSE UNCHANGED <<stored, acked>>
    /\ Finish
    /\ requests' = requests \ {r}
    /\ UNCHANGED <<elapsed, nodeVars, started>>

(* on_message_get_response(): every message that can be read is queued.    *)
(* All of them are acknowledged, unless an exception stopped the loop or   *)
(* the link is gone; the acknowledgement itself may get lost.              *)
ReceiveMessages(r) ==
    /\ active
    /\ Answerable(r, "get")
    /\ \E n \in 0..Len(Returned(r)) :
           LET done  == SubSeq(Returned(r), 1, n)
               whole == n > 0 /\ n = Len(Returned(r)) /\ link = "ACTIVE"
           IN  /\ PushAll(Selected(done, Readable))
               /\ acked' = IF whole THEN acked \cup Elements(done) ELSE acked
               /\ \/ UNCHANGED stored
                  \/ whole /\ stored' = stored \ Elements(done)
    /\ Finish
    /\ requests' = requests \ {r}
    /\ UNCHANGED <<elapsed, nodeVars, started>>

(* static_list_failed_cb() and static_get_failed_cb().                     *)
RequestFails(r) ==
    /\ active
    /\ r \in requests
    /\ OnSyncFailed
    /\ requests' = requests \ {r}
    /\ UNCHANGED <<inboundVars, elapsed, nodeVars, fetchVars, started, heard>>

Answer(r) ==
    \/ Ignore(r)
    \/ NothingWanted(r)
    \/ AskForMessages(r)
    \/ ListFails(r)
    \/ ReceiveMessages(r)
    \/ RequestFails(r)

-----------------------------------------------------------------------------
(* The link, the configured node, and time.                                *)

SentOver(was, now) ==
    requests' = {IF r.over = was THEN [r EXCEPT !.over = now] ELSE r
                     : r \in requests}

NodeStep ==
    UNCHANGED <<inboundVars, sync, elapsed, active, fetchVars, started, heard>>

(* send_propagated() opens the same link for its uploads.                  *)
UploadOpensLink ==
    /\ configured
    /\ link \in {"NONE", "CLOSED"}
    /\ link' = "PENDING"
    /\ UNCHANGED <<configured, requests>>
    /\ NodeStep

LinkEstablished ==
    /\ link = "PENDING"
    /\ link' = "ACTIVE"
    /\ UNCHANGED <<configured, requests>>
    /\ NodeStep

LinkCloses ==
    /\ link \in {"PENDING", "ACTIVE"}
    /\ link' = "CLOSED"
    /\ SentOver("current", "closed")
    /\ UNCHANGED configured
    /\ NodeStep

(* set_outbound_propagation_node() with a node: another one, or the first. *)
SetNode ==
    /\ configured' = TRUE
    /\ link' = "NONE"
    /\ SentOver("current", "closed")
    /\ NodeStep

(* ... and without one: the link is dropped but not torn down.             *)
ClearNode ==
    /\ configured
    /\ configured' = FALSE
    /\ link' = "NONE"
    /\ SentOver("current", "dropped")
    /\ NodeStep

Tick ==
    /\ sync \notin Ended
    /\ elapsed <= SYNC_TIMEOUT
    /\ elapsed' = elapsed + 1
    /\ UNCHANGED <<inboundVars, sync, nodeVars, active, requests, fetchVars,
                   started, heard>>

Receive ==
    /\ ProcessInbound \/ \E m \in Msg : OnPacket(m)
    /\ UNCHANGED syncVars

SyncNext ==
    \/ RequestMessages
    \/ ProcessSync
    \/ \E r \in requests : Answer(r)
    \/ UploadOpensLink \/ LinkEstablished \/ LinkCloses
    \/ SetNode \/ ClearNode
    \/ Tick
    \/ Receive

SyncSafeSpec == SyncInit /\ [][SyncNext]_allVars

(* The main loop calls process_sync() forever and the clock advances;      *)
(* nothing is assumed of the node, the links or the application.           *)
SyncSpec == SyncSafeSpec /\ WF_allVars(ProcessSync) /\ WF_allVars(Tick)

-----------------------------------------------------------------------------
(* Properties.                                                             *)

(* A sync that waits for an answer can hear it: of all the paths that set  *)
(* and clear _active_sync_router, none leaves a waiting sync deaf, and an  *)
(* answer to an earlier sync does not either.                              *)
WaitingCanHear == sync \in Waiting => active

(* What the node was told it may delete has been queued, whatever became   *)
(* of it there, or cannot be read: an exception half way through a         *)
(* response never acknowledges what was not processed.                     *)
AckedWasProcessed == acked \cap Readable \subseteq accepted

(* A sync implements SyncContract: it ends within its timeout, and calls   *)
(* back at most once per request although late answers can revive it.      *)
phase ==
    CASE sync = "PR_IDLE" -> "idle"
      [] sync = "PR_COMPLETE" -> "complete"
      [] sync = "PR_FAILED" -> "failed"
      [] OTHER -> "busy"

Contract == INSTANCE SyncContract

ContractSpec == Contract!SyncContractSpec

(* Documented expectations the code does not meet.                         *)

(* "Initiates a sync ... to retrieve any pending messages": what the node  *)
(* was told it may delete, and can be read, reaches the application.       *)
AckedIsDelivered ==
    \A m \in acked \cap Readable : m \in Msgs(inbound) \cup Msgs(dispatched)

(* "Otherwise still waiting for link to become ACTIVE": while the sync is  *)
(* establishing a link and it has not closed, there is a link to wait for. *)
EstablishingHasALink == sync = "PR_LINK_ESTABLISHING" => link # "NONE"

(* "Track transient ID to avoid re-downloading": a message whose id is     *)
(* among those remembered is not queued from the node once more.           *)
TrackedIsNotFetchedAgain ==
    [][seen' # seen => \E n \in 0..Len(seen) :
           /\ SubSeq(seen', 1, Len(seen) - n) = SubSeq(seen, n + 1, Len(seen))
           /\ \A i \in (Len(seen) - n + 1)..Len(seen') :
                  seen'[i] \notin Elements(seen)]_allVars
=============================================================================

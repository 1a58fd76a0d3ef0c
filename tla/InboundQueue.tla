---------------------------- MODULE InboundQueue ----------------------------
(***************************************************************************)
(* The inbound pipeline of LXMRouter (src/src/LXMF/LXMRouter.cpp): the     *)
(* checks a copy of a message passes on each of its three ways in, the     *)
(* bounded queue that drops its oldest entry, and one process_inbound()    *)
(* pass at a time with the ring of recently delivered hashes.              *)
(*                                                                         *)
(* A message stands for its hash.  Copies of it arrive over any route, any *)
(* number of times; PropagationSync composes this module with the          *)
(* conversation that fetches copies from a propagation node.               *)
(***************************************************************************)
EXTENDS Naturals, Sequences

CONSTANTS
    Msg,                    \* message hashes
    NoMsg,                  \* the content of a free slot of the ring
    Genuine,                \* messages whose signature their source made
    Stamped,                \* messages that carry a stamp of the required cost
    PENDING_INBOUND_SIZE,
    RECENT_INBOUND_SIZE,
    MaxArrivals             \* bound: copies that reach the router

ASSUME InboundAssumption ==
    /\ NoMsg \notin Msg
    /\ Genuine \subseteq Msg
    /\ Stamped \subseteq Msg
    /\ PENDING_INBOUND_SIZE \in Nat \ {0}
    /\ RECENT_INBOUND_SIZE \in Nat \ {0}
    /\ MaxArrivals \in Nat

Route == {"packet", "resource", "propagated"}
Signature == {"VALIDATED", "SIGNATURE_INVALID", "SOURCE_UNKNOWN"}

(* One unpacked copy: signature is what unpack_from_bytes() found when the *)
(* copy arrived.                                                           *)
Copy == [msg : Msg, route : Route, signature : Signature]

Slot == 0..(RECENT_INBOUND_SIZE - 1)

VARIABLES
    inbound,      \* _pending_inbound_pool, oldest first
    recent,       \* _recent_inbound_pool
    recentNext,   \* _recent_inbound_next
    known,        \* messages whose source identity can be recalled
    enforcing,    \* _stamp_cost > 0 and _enforce_stamps
    arrivals,     \* copies that have reached the router
    accepted,     \* history: messages that have entered the queue
    evicted,      \* history: messages a full queue has dropped
    proved,       \* history: messages a delivery proof was sent for
    dispatched    \* history: the copies given to the delivery callback

historyVars == <<accepted, evicted, proved>>
inboundVars == <<inbound, recent, recentNext, known, enforcing, arrivals,
                 accepted, evicted, proved, dispatched>>

Msgs(q) == {q[i].msg : i \in 1..Len(q)}

TypeOK ==
    /\ inbound \in Seq(Copy) /\ Len(inbound) <= PENDING_INBOUND_SIZE
    /\ recent \in [Slot -> Msg \cup {NoMsg}]
    /\ recentNext \in Slot
    /\ known \subseteq Msg
    /\ enforcing \in BOOLEAN
    /\ arrivals \in Nat
    /\ accepted \subseteq Msg
    /\ evicted \subseteq Msg
    /\ proved \subseteq Msg
    /\ dispatched \in Seq(Copy)

Init ==
    /\ inbound = <<>>
    /\ recent = [s \in Slot |-> NoMsg]
    /\ recentNext = 0
    /\ known = {}
    /\ enforcing = FALSE
    /\ arrivals = 0
    /\ accepted = {}
    /\ evicted = {}
    /\ proved = {}
    /\ dispatched = <<>>

-----------------------------------------------------------------------------
(* Arrival.                                                                *)

SignatureOf(m) ==
    IF m \notin known THEN "SOURCE_UNKNOWN"
    ELSE IF m \in Genuine THEN "VALIDATED" ELSE "SIGNATURE_INVALID"

Unpacked(m, route) == [msg |-> m, route |-> route, signature |-> SignatureOf(m)]

Full == Len(inbound) = PENDING_INBOUND_SIZE

(* Mutant: a full queue refuses the newest copy in silence.                *)
EnqueueRefusing(c) ==
    /\ accepted' = accepted \cup {c.msg}
    /\ inbound' = IF Full THEN inbound ELSE Append(inbound, c)
    /\ UNCHANGED evicted

(* pending_inbound_push(): a full queue drops its oldest copy.             *)
Enqueue(c) ==
    /\ accepted' = accepted \cup {c.msg}
    /\ IF Full
       THEN /\ inbound' = Append(Tail(inbound), c)
            /\ evicted' = evicted \cup {Head(inbound).msg}
       ELSE /\ inbound' = Append(inbound, c)
            /\ UNCHANGED evicted

(* A copy that fails these checks is dropped and changes nothing.          *)
Passes(c) ==
    /\ c.signature # "SIGNATURE_INVALID"
    /\ enforcing => c.msg \in Stamped

Arrive == arrivals < MaxArrivals /\ arrivals' = arrivals + 1

(* on_packet(): the sender gets its proof before the copy is queued.       *)
OnPacket(m) ==
    LET c == Unpacked(m, "packet")
    IN  /\ Arrive
        /\ Passes(c)
        /\ proved' = proved \cup {m}
        /\ Enqueue(c)
        /\ UNCHANGED <<recent, recentNext, known, enforcing, dispatched>>

(* on_resource_concluded(): the transport has already told the sender that *)
(* the resource is complete.                                               *)
OnResourceConcluded(m) ==
    LET c == Unpacked(m, "resource")
    IN  /\ Arrive
        /\ Passes(c)
        /\ Enqueue(c)
        /\ UNCHANGED <<recent, recentNext, known, enforcing, proved, dispatched>>

(* process_propagated_lxmf(): any copy that could be unpacked is queued.   *)
ProcessPropagated(m) ==
    /\ Arrive
    /\ Enqueue(Unpacked(m, "propagated"))
    /\ UNCHANGED <<recent, recentNext, known, enforcing, proved, dispatched>>

-----------------------------------------------------------------------------
(* process_inbound(): one pass looks at the oldest copy only.              *)

IsRecentlyDelivered(m) == \E s \in Slot : recent[s] = m

(* Mutant: the last slot of the ring is never used.                        *)
NextSlotShort(s) == IF s + 2 >= RECENT_INBOUND_SIZE THEN 0 ELSE s + 1

(* (s + 1) % RECENT_INBOUND_SIZE, for a slot s.                            *)
NextSlot(s) == IF s + 1 = RECENT_INBOUND_SIZE THEN 0 ELSE s + 1

MarkRecentlyDelivered(m) ==
    /\ recent' = [recent EXCEPT ![recentNext] = m]
    /\ recentNext' = NextSlot(recentNext)

(* Mutant: a duplicate is left at the front of the queue.                  *)
DropDuplicateUnpopped ==
    /\ inbound # <<>>
    /\ IsRecentlyDelivered(Head(inbound).msg)
    /\ UNCHANGED inboundVars

DropDuplicate ==
    /\ inbound # <<>>
    /\ IsRecentlyDelivered(Head(inbound).msg)
    /\ inbound' = Tail(inbound)
    /\ UNCHANGED <<recent, recentNext, known, enforcing, arrivals, historyVars,
                   dispatched>>

(* The hash is marked, then the delivery callback is called.  Whether the  *)
(* callback returns or throws, the copy is popped.                         *)
Dispatch ==
    /\ inbound # <<>>
    /\ ~IsRecentlyDelivered(Head(inbound).msg)
    /\ MarkRecentlyDelivered(Head(inbound).msg)
    /\ dispatched' = Append(dispatched, Head(inbound))
    /\ inbound' = Tail(inbound)
    /\ UNCHANGED <<known, enforcing, arrivals, historyVars>>

ProcessInbound == DropDuplicate \/ Dispatch

-----------------------------------------------------------------------------
(* An announce makes the source of m known; the application changes what   *)
(* it requires of stamps.                                                  *)

LearnSource(m) ==
    /\ m \notin known
    /\ known' = known \cup {m}
    /\ UNCHANGED <<inbound, recent, recentNext, enforcing, arrivals,
                   historyVars, dispatched>>

SetStampEnforcement ==
    /\ enforcing' = ~enforcing
    /\ UNCHANGED <<inbound, recent, recentNext, known, arrivals, historyVars,
                   dispatched>>

Next ==
    \/ \E m \in Msg :
           OnPacket(m) \/ OnResourceConcluded(m) \/ ProcessPropagated(m)
    \/ ProcessInbound
    \/ \E m \in Msg : LearnSource(m)
    \/ SetStampEnforcement

SafeSpec == Init /\ [][Next]_inboundVars

(* The main loop calls process_inbound() forever.                          *)
Spec == SafeSpec /\ WF_inboundVars(ProcessInbound)

-----------------------------------------------------------------------------
(* Properties.                                                             *)

(* Two dispatches of one message are more than RECENT_INBOUND_SIZE         *)
(* dispatches apart, however many copies arrive over whichever routes and  *)
(* whatever was evicted in between: process_inbound() drops duplicates.    *)
DispatchedOncePerWindow ==
    \A i, j \in 1..Len(dispatched) :
        i < j /\ dispatched[i].msg = dispatched[j].msg
            => j - i > RECENT_INBOUND_SIZE

(* A message the router has queued is still queued, or has been given to   *)
(* the application, or was dropped by a full queue: a pass that pops a     *)
(* copy as a duplicate never takes the only copy with it.                  *)
NothingVanishes ==
    accepted \subseteq Msgs(inbound) \cup Msgs(dispatched) \cup evicted

(* A delivery proof is only sent for a message that enters the queue: the  *)
(* checks of on_packet() all come before prove().                          *)
ProvedIsAccepted == proved \subseteq accepted

(* Every queued copy reaches the application or is dropped: neither a      *)
(* duplicate nor a callback that throws can wedge the queue.               *)
QueueDrains ==
    \A m \in Msg : m \in Msgs(inbound) ~> m \in Msgs(dispatched) \cup evicted

(* What the invariants rest on: read backwards from recentNext, the ring   *)
(* is the end of the dispatch history, and its other slots are free.       *)
SlotOfLast(k) ==
    IF k <= recentNext THEN recentNext - k
    ELSE recentNext + RECENT_INBOUND_SIZE - k

RingIsEndOfHistory ==
    \A k \in 1..RECENT_INBOUND_SIZE :
        recent[SlotOfLast(k)] =
            IF k <= Len(dispatched) THEN dispatched[Len(dispatched) - k + 1].msg
                                    ELSE NoMsg

IInv ==
    /\ TypeOK
    /\ RingIsEndOfHistory
    /\ DispatchedOncePerWindow
    /\ NothingVanishes
    /\ ProvedIsAccepted

(* Documented expectations the code does not meet.                         *)

(* "Called when remote confirms message delivery": a message the router    *)
(* has proved to its sender is delivered, or still waits for it.           *)
ProvedIsDelivered == proved \subseteq Msgs(inbound) \cup Msgs(dispatched)

(* "Called when a message is received and validated", of the delivery      *)
(* callback.                                                               *)
DispatchedIsValidated ==
    \A i \in 1..Len(dispatched) : dispatched[i].signature # "SIGNATURE_INVALID"

(* "When enabled, incoming messages must have a valid stamp meeting the    *)
(* configured cost or they will be dropped".                               *)
EnforcedOnArrival ==
    [][\A m \in Msg \ Stamped :
           enforcing /\ m \notin accepted => m \notin accepted']_inboundVars

(* "Signature will be validated later if the source identity is learned    *)
(* via announce".                                                          *)
ValidatedOnceLearned ==
    [][\A i \in DOMAIN dispatched' \ DOMAIN dispatched :
           LET c == dispatched'[i]
           IN  c.route # "propagated" /\ c.msg \in known
                   => c.msg \in Genuine]_inboundVars
=============================================================================

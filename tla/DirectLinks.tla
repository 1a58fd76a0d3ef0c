---------------------------- MODULE DirectLinks ----------------------------
(***************************************************************************)
(* The link table behind DIRECT delivery: get_link_for_destination() and   *)
(* the link callbacks of LXMRouter, composed with OutboundQueue.           *)
(*                                                                         *)
(* A link belongs to Reticulum, which establishes and closes it on its     *)
(* own; the router keeps at most one link per peer in a fixed table, and   *)
(* hears of a closed link only when the peer has a slot in the global      *)
(* router registry.                                                        *)
(***************************************************************************)
EXTENDS OutboundQueue

CONSTANTS
    Peer,                        \* destinations of the messages
    To,                          \* the destination of each message
    DIRECT_LINKS_SIZE,           \* slots of the link table
    RegistryRoom,                \* registry slots the router itself leaves
    LINK_ESTABLISHMENT_TIMEOUT,  \* age at which a pending link is dropped
    MaxLinks                     \* bound on the links ever opened

ASSUME LinkAssumption ==
    /\ To \in [Msg -> Peer]
    /\ DIRECT_LINKS_SIZE \in Nat \ {0}
    /\ RegistryRoom \in Nat
    /\ LINK_ESTABLISHMENT_TIMEOUT \in Nat
    /\ MaxLinks \in Nat

VARIABLES
    links,       \* every link opened so far, by its number
    table,       \* _direct_links_pool: number of the peer's link, 0 for none
    age,         \* seconds since the peer's slot was filled, up to TooOld
    registered   \* peers with a slot in _router_registry_pool

linkVars == <<links, table, age, registered>>
allVars == <<vars, linkVars>>

LinkStatus == {"PENDING", "ACTIVE", "STALE", "CLOSED"}

TooOld == LINK_ESTABLISHMENT_TIMEOUT + 1

LinkTypeOK ==
    /\ TypeOK
    /\ links \in Seq([peer : Peer, status : LinkStatus])
    /\ Len(links) <= MaxLinks
    /\ table \in [Peer -> 0..Len(links)]
    /\ age \in [Peer -> 0..TooOld]
    /\ registered \subseteq Peer

LinkInit ==
    /\ Init
    /\ links = <<>>
    /\ table = [p \in Peer |-> 0]
    /\ age = [p \in Peer |-> 0]
    /\ registered = {}

Held(p) == table[p] # 0

HeldStatus(p) == IF Held(p) THEN links[table[p]].status ELSE "CLOSED"

-----------------------------------------------------------------------------
(* get_link_for_destination() and what the pass makes of its answer.       *)

ByLink(m) == ~UsesPropagation(m) /\ method[m] = "DIRECT"

NoPath(m) ==
    /\ ByLink(m)
    /\ RetryLater(m, PATH_REQUEST_WAIT)
    /\ UNCHANGED linkVars

(* Mutant: the establishment timeout applies to active links too.          *)
UsableWhileYoung(p) == HeldStatus(p) = "ACTIVE" /\ age[p] < TooOld

Usable(p) == HeldStatus(p) = "ACTIVE"

Awaited(p) == HeldStatus(p) = "PENDING" /\ age[p] < TooOld

SendByLink(m) ==
    /\ ByLink(m)
    /\ Usable(To[m])
    /\ Send(m) \/ SendAndThrow(m) \/ SendFails(m)
    /\ UNCHANGED linkVars

AwaitLink(m) ==
    /\ ByLink(m)
    /\ Awaited(To[m])
    /\ RetryLater(m, LINK_POLL_DELAY)
    /\ UNCHANGED linkVars

MustReopen(p) == ~Usable(p) /\ ~Awaited(p)

Dropped(p) == [table EXCEPT ![p] = 0]

(* Mutant: a pass that cannot open a link is not counted as an attempt.    *)
CannotOpenUncounted(m) ==
    /\ ByLink(m)
    /\ MustReopen(To[m])
    /\ RetryLaterUncounted(m, OUTBOUND_RETRY_DELAY)
    /\ table' = Dropped(To[m])
    /\ UNCHANGED <<links, age, registered>>

(* The old link is forgotten, not torn down, and the peer's identity is    *)
(* unknown or opening the new link throws.                                 *)
CannotOpen(m) ==
    /\ ByLink(m)
    /\ MustReopen(To[m])
    /\ RetryLater(m, OUTBOUND_RETRY_DELAY)
    /\ table' = Dropped(To[m])
    /\ UNCHANGED <<links, age, registered>>

(* A full registry leaves the peer unregistered, and a full table leaves   *)
(* the new link unrecorded.                                                *)
OpenLink(m) ==
    LET p    == To[m]
        room == Cardinality({q \in Peer : Dropped(p)[q] # 0})
                    < DIRECT_LINKS_SIZE
    IN  /\ ByLink(m)
        /\ MustReopen(p)
        /\ Len(links) < MaxLinks
        /\ RetryLater(m, LINK_POLL_DELAY)
        /\ links' = Append(links, [peer |-> p, status |-> "PENDING"])
        /\ registered' = IF Cardinality(registered) < RegistryRoom
                         THEN registered \cup {p} ELSE registered
        /\ table' = IF room THEN [table EXCEPT ![p] = Len(links) + 1]
                            ELSE Dropped(p)
        /\ age' = IF room THEN [age EXCEPT ![p] = 0] ELSE age

(* A message that is given up, or does not travel over a link.             *)
OtherPass(m) ==
    /\ \/ GiveUp(m)
       \/ ~ByLink(m) /\ ProcessOutbound(m)
    /\ UNCHANGED linkVars

Pass(m) ==
    \/ NoPath(m)
    \/ SendByLink(m)
    \/ AwaitLink(m)
    \/ CannotOpen(m)
    \/ OpenLink(m)
    \/ OtherPass(m)

-----------------------------------------------------------------------------
(* Reticulum and the callbacks.                                            *)

SetStatus(i, status) == links' = [links EXCEPT ![i].status = status]

(* on_link_established() only logs: the next pass finds the link.          *)
LinkEstablished(i) ==
    /\ links[i].status \in {"PENDING", "STALE"}
    /\ SetStatus(i, "ACTIVE")
    /\ UNCHANGED <<vars, table, age, registered>>

LinkStale(i) ==
    /\ links[i].status = "ACTIVE"
    /\ SetStatus(i, "STALE")
    /\ UNCHANGED <<vars, table, age, registered>>

(* Mutant: a link that closes before it was established is not removed.    *)
LinkClosedOnceActive(i) ==
    /\ links[i].status # "CLOSED"
    /\ SetStatus(i, "CLOSED")
    /\ table' = IF /\ links[i].peer \in registered
                   /\ links[i].status # "PENDING"
                THEN Dropped(links[i].peer) ELSE table
    /\ UNCHANGED <<vars, age, registered>>

(* static_link_closed_callback() and on_link_closed(): the slot is looked  *)
(* up by the peer, whichever link it holds.                                *)
LinkClosed(i) ==
    /\ links[i].status # "CLOSED"
    /\ SetStatus(i, "CLOSED")
    /\ table' = IF links[i].peer \in registered
                THEN Dropped(links[i].peer) ELSE table
    /\ UNCHANGED <<vars, age, registered>>

(* A second passes for the backoff timer and for every slot.               *)
Second ==
    /\ Tick \/ (backoff = 0 /\ UNCHANGED vars)
    /\ age' = [p \in Peer |-> LesserOf(age[p] + 1, TooOld)]
    /\ UNCHANGED <<links, table, registered>>

RouterStep ==
    /\ \/ \E m \in Msg : TryHandleOutbound(m)
       \/ \E t \in air : Confirmed(t) \/ Lost(t)
       \/ RetryFailedOutbound
       \/ ClearFailedOutbound
       \/ SetPropagationOnly
    /\ UNCHANGED linkVars

LinkNext ==
    \/ \E m \in Msg : Pass(m)
    \/ \E i \in 1..Len(links) :
           LinkEstablished(i) \/ LinkStale(i) \/ LinkClosed(i)
    \/ Second
    \/ RouterStep

(* The main loop runs and the clock advances; no link owes anything.       *)
LinkFairness == WF_allVars(\E m \in Msg : Pass(m)) /\ WF_allVars(Second)

LinkSafeSpec == LinkInit /\ [][LinkNext]_allVars

LinkSpec == LinkSafeSpec /\ LinkFairness

-----------------------------------------------------------------------------
(* Properties.                                                             *)

(* A closed link only stays in the table when its peer found no room in    *)
(* the registry: get_link_for_destination() and the callbacks never leave  *)
(* one behind for a registered peer, in whatever order links to the same   *)
(* peer are opened, forgotten and closed.                                  *)
ClosedLinksLeaveTheTable ==
    \A p \in registered : Held(p) => HeldStatus(p) # "CLOSED"

(* An active link is only taken from the table when it, or a link to the   *)
(* same peer that the table had forgotten, closes.                         *)
ActiveLinksStay ==
    [][\A p \in Peer :
           HeldStatus(p) = "ACTIVE" =>
               \/ table'[p] = table[p]
               \/ \E i \in 1..Len(links) :
                      /\ links[i].peer = p
                      /\ links[i].status # "CLOSED"
                      /\ links'[i].status = "CLOSED"]_allVars

(* Documented expectations the code does not meet.                         *)

(* "Seconds to wait for pending links": a message is not given up while    *)
(* the link it waits for is younger than the establishment timeout.        *)
PendingLinkIsAwaited ==
    [][\A m \in Msg : GiveUp(m) => ~(ByLink(m) /\ Awaited(To[m]))]_allVars

(* "Link is now active, process_outbound() will pick it up".               *)
EstablishedIsPickedUp ==
    \A i \in 1..Len(links) :
        links[i].status = "ACTIVE" => table[links[i].peer] = i

(* "Remove from active links", of the link that closed.                    *)
OnlyTheClosedLinkIsRemoved ==
    [][\A p \in Peer :
           HeldStatus(p) = "ACTIVE" /\ table'[p] # table[p]
               => links'[table[p]].status = "CLOSED"]_allVars
=============================================================================

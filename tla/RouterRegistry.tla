--------------------------- MODULE RouterRegistry ---------------------------
(***************************************************************************)
(* The static registry through which callbacks of the transport find a     *)
(* router (_router_registry_pool of LXMRouter.cpp), over the lives of      *)
(* several routers of one process: the constructor and the destructor, the *)
(* slot get_link_for_destination() takes for a peer, the link and resource *)
(* callbacks, and the proofs that are reported to every router found.      *)
(*                                                                         *)
(* Reticulum lets no two living routers have one destination.  A link is   *)
(* forgotten by its router only through its closing here; what else may    *)
(* become of links is DirectLinks'.                                        *)
(***************************************************************************)
EXTENDS Integers, Sequences, FiniteSets, Functions

CONSTANTS
    Router,                     \* LXMRouter objects, each built once
    NoRouter,
    Dest,                       \* delivery destinations, of peers too
    NoDest,                     \* the content of a free slot
    DestOf,                     \* the destination of each router
    Msg,                        \* messages sent by routers
    ROUTER_REGISTRY_SIZE

ASSUME RegistryAssumption ==
    /\ NoRouter \notin Router
    /\ NoDest \notin Dest
    /\ DestOf \in [Router -> Dest]
    /\ ROUTER_REGISTRY_SIZE \in Nat \ {0}

Slot == 1..ROUTER_REGISTRY_SIZE

FreeSlot == [dest |-> NoDest, router |-> NoRouter]

VARIABLES
    pool,       \* _router_registry_pool
    born,       \* routers that have been constructed
    alive,      \* those that have not been destroyed
    listening,  \* those with a _delivered_callback
    held,       \* the peers in each router's _direct_links_pool
    open,       \* links of Reticulum: the router that opened it, and its peer
    sender,     \* the router that sent each message
    flight,     \* messages whose packet is in _pending_proofs_pool
    told,       \* how often each router's callback heard of each message
    welcome,    \* history: routers whose constructor found a slot
    solo        \* history: no two routers have been alive at one time

lifeVars == <<born, alive, listening, welcome, solo>>
linkVars == <<held, open>>
proofVars == <<sender, flight, told>>
registryVars == <<pool, lifeVars, linkVars, proofVars>>

(* The counts in told are bounded by ProofsAreHeardOnce.                   *)
RegistryTypeOK ==
    /\ pool \in [Slot -> [dest : Dest, router : Router] \cup {FreeSlot}]
    /\ born \subseteq Router
    /\ alive \subseteq born
    /\ listening \subseteq born
    /\ held \in [Router -> SUBSET Dest]
    /\ open \subseteq Router \X Dest
    /\ sender \in [Msg -> Router \cup {NoRouter}]
    /\ flight \subseteq Msg
    /\ welcome \subseteq born
    /\ solo \in BOOLEAN

RegistryInit ==
    /\ pool = [i \in Slot |-> FreeSlot]
    /\ born = {} /\ alive = {} /\ listening = {} /\ welcome = {}
    /\ solo = TRUE
    /\ held = [r \in Router |-> {}]
    /\ open = {}
    /\ sender = [m \in Msg |-> NoRouter]
    /\ flight = {}
    /\ told = [m \in Msg |-> [r \in Router |-> 0]]

-----------------------------------------------------------------------------
(* Looking into the pool.                                                  *)

InUse(i) == pool[i] # FreeSlot

SlotsOf(d) == {i \in Slot : pool[i].dest = d}

FreeSlots == {i \in Slot : ~InUse(i)}

FirstOf(S) == CHOOSE i \in S : \A j \in S : i <= j

(* Mutant: the pool is searched from its end.                              *)
EmptySlotLast == CHOOSE i \in FreeSlots : \A j \in FreeSlots : i >= j

(* find_empty_router_registry_slot()                                       *)
EmptySlot == FirstOf(FreeSlots)

(* find_router_registry_slot(): the router that packets and links to a     *)
(* destination are handed to.                                              *)
Lookup(d) ==
    IF SlotsOf(d) = {} THEN NoRouter ELSE pool[FirstOf(SlotsOf(d))].router

(* The router that concluded incoming resources are handed to.             *)
FirstRegistered ==
    IF \A i \in Slot : ~InUse(i) THEN NoRouter
    ELSE pool[FirstOf(Slot \ FreeSlots)].router

Filled(d, r) ==
    IF FreeSlots = {} THEN pool
    ELSE [pool EXCEPT ![EmptySlot] = [dest |-> d, router |-> r]]

(* Mutant: every slot of a router is called.                               *)
CallsAlways(i, called) == InUse(i) /\ pool[i].router \in listening

(* Whether the loop over the pool calls the router of slot i: one that has *)
(* a callback and has not been met in an earlier slot.                     *)
Calls(i, called) ==
    /\ InUse(i)
    /\ pool[i].router \in listening
    /\ pool[i].router \notin Range(called)

(* The routers called when the loop over the pool has passed slot i.       *)
Notified[i \in 0..ROUTER_REGISTRY_SIZE] ==
    IF i = 0 THEN <<>>
    ELSE IF Calls(i, Notified[i - 1])
         THEN Append(Notified[i - 1], pool[i].router)
         ELSE Notified[i - 1]

-----------------------------------------------------------------------------
(* The lives of routers.                                                   *)

Construct(r) ==
    /\ r \notin born
    /\ \A q \in alive : DestOf[q] # DestOf[r]
    /\ pool' = Filled(DestOf[r], r)
    /\ welcome' = IF FreeSlots = {} THEN welcome ELSE welcome \cup {r}
    /\ born' = born \cup {r}
    /\ alive' = alive \cup {r}
    /\ solo' = (solo /\ alive = {})
    /\ UNCHANGED <<listening, linkVars, proofVars>>

RegisterDeliveredCallback(r) ==
    /\ r \in alive \ listening
    /\ listening' = listening \cup {r}
    /\ UNCHANGED <<pool, born, alive, welcome, solo, linkVars, proofVars>>

(* Mutant: the router stays in the registry.                               *)
DestroyRegistered(r) ==
    /\ r \in alive
    /\ alive' = alive \ {r}
    /\ UNCHANGED <<pool, born, listening, welcome, solo, linkVars, proofVars>>

(* One slot is cleared, the first with the router's own destination; slots *)
(* the router took for its peers stay.                                     *)
Destroy(r) ==
    /\ r \in alive
    /\ alive' = alive \ {r}
    /\ pool' = IF SlotsOf(DestOf[r]) = {} THEN pool
               ELSE [pool EXCEPT ![FirstOf(SlotsOf(DestOf[r]))] = FreeSlot]
    /\ UNCHANGED <<born, listening, welcome, solo, linkVars, proofVars>>

-----------------------------------------------------------------------------
(* Links and proofs.                                                       *)

(* get_link_for_destination(): a peer that nobody has a slot for gets one  *)
(* while there is room.                                                    *)
OpenLink(r, d) ==
    /\ r \in alive
    /\ d # DestOf[r] /\ d \notin held[r] /\ <<r, d>> \notin open
    /\ pool' = IF SlotsOf(d) = {} THEN Filled(d, r) ELSE pool
    /\ held' = [held EXCEPT ![r] = @ \cup {d}]
    /\ open' = open \cup {<<r, d>>}
    /\ UNCHANGED <<lifeVars, proofVars>>

(* static_link_closed_callback(): what a destroyed router does with the    *)
(* call is undefined, and no living router notices.                        *)
LinkCloses(r, d) ==
    /\ <<r, d>> \in open
    /\ open' = open \ {<<r, d>>}
    /\ held' = [q \in Router |-> IF q = Lookup(d) THEN held[q] \ {d}
                                                  ELSE held[q]]
    /\ UNCHANGED <<pool, lifeVars, proofVars>>

Send(r, m) ==
    /\ r \in alive
    /\ sender[m] = NoRouter
    /\ sender' = [sender EXCEPT ![m] = r]
    /\ flight' = flight \cup {m}
    /\ UNCHANGED <<pool, lifeVars, linkVars, told>>

(* static_proof_callback(), and handle_direct_proof() after a resource:    *)
(* the message does not say who sent it.  A call of a destroyed router's   *)
(* callback is undefined; only what the living hear is counted.            *)
Proof(m) ==
    /\ m \in flight
    /\ flight' = flight \ {m}
    /\ LET called == Notified[ROUTER_REGISTRY_SIZE]
           times(r) == Cardinality({j \in DOMAIN called : called[j] = r})
       IN  told' = [told EXCEPT ![m] =
                        [r \in Router |-> IF r \in alive
                                         THEN told[m][r] + times(r)
                                         ELSE told[m][r]]]
    /\ UNCHANGED <<pool, lifeVars, linkVars, sender>>

RegistryNext ==
    \/ \E r \in Router : \/ Construct(r) \/ Destroy(r)
                         \/ RegisterDeliveredCallback(r)
                         \/ \E d \in Dest : OpenLink(r, d) \/ LinkCloses(r, d)
                         \/ \E m \in Msg : Send(r, m)
    \/ \E m \in Msg : Proof(m)

RegistrySpec == RegistryInit /\ [][RegistryNext]_registryVars

-----------------------------------------------------------------------------
(* What the registry promises.                                             *)

(* When routers live one after another, as in the bridge, packets and      *)
(* links to the living one reach it, and so do concluded resources, which  *)
(* go to whoever is first in the pool, whatever slots its predecessors     *)
(* have left behind (the constructor, ~LXMRouter(), the static callbacks). *)
SoleRouterIsFirst ==
    solo => \A r \in alive : Lookup(DestOf[r]) = r /\ FirstRegistered = r

(* A router that found a slot keeps one for as long as it lives, whichever *)
(* routers are built and destroyed and whichever peers meanwhile, and when *)
(* the last one is gone there is room for another.                         *)
RoomIsKept ==
    /\ \A r \in alive \cap welcome :
           \E i \in Slot : pool[i] = [dest |-> DestOf[r], router |-> r]
    /\ alive = {} /\ born \subseteq welcome => FreeSlots # {}

(* A proof is told to each router at most once, although one may have      *)
(* taken every slot, and to the sender if it lives, listens and found a    *)
(* slot when it was built (static_proof_callback(),                        *)
(* handle_direct_proof()).                                                 *)
ProofsAreHeardOnce ==
    [][\A m \in flight \ flight', r \in Router :
           /\ told'[m][r] <= 1
           /\ r = sender[m] /\ r \in alive \cap listening \cap welcome =>
                  told'[m][r] = 1]_registryVars

(* Documented expectations the code does not meet.                         *)

(* "Unregister from global registry".                                      *)
RegisteredAreAlive ==
    \A i \in Slot : InUse(i) => pool[i].router \in alive

(* "Find the router that sent this message and call its delivered          *)
(* callback".                                                              *)
OnlyTheSenderIsTold ==
    \A m \in Msg, r \in Router : told[m][r] > 0 => r = sender[m]

(* "Find router that owns this link destination".                          *)
HeldLinksAreOpen == \A r \in alive : \A d \in held[r] : <<r, d>> \in open
=============================================================================

-------------------------- MODULE PropagationNodes --------------------------
(***************************************************************************)
(* The directory of propagation nodes (PropagationNodeManager.cpp): a pool *)
(* of slots that announces fill and refresh, a manual selection, and the   *)
(* choice of the node to use.  Limits, stamp costs and names announced     *)
(* with a node are not kept here, only whether it serves, how far away it  *)
(* is and when it was heard.                                               *)
(***************************************************************************)
EXTENDS Integers

CONSTANTS
    Node,                   \* destinations that announce as lxmf.propagation
    NoNode,                 \* the content of a free slot, and no selection
    HopCounts,              \* what Transport::hops_to() may answer
    MAX_PROPAGATION_NODES,
    NODE_STALE_TIMEOUT,
    MaxTime                 \* bound: ticks of the clock

ASSUME NodesAssumption ==
    /\ NoNode \notin Node
    /\ HopCounts \subseteq 0..254
    /\ MAX_PROPAGATION_NODES \in Nat \ {0}
    /\ NODE_STALE_TIMEOUT \in Nat \ {0}
    /\ MaxTime \in Nat \ {0}

Slot == 1..MAX_PROPAGATION_NODES

(* What an announce carries: nothing, an array of less than seven elements *)
(* or one that cannot be parsed, a node that serves, or one that does not. *)
(* An element of another type than expected is stepped over, which leaves  *)
(* the flag of a node that serves at false.                                *)
AppData == {"empty", "short", "enabled", "disabled"}

Info == [node : Node, enabled : BOOLEAN, hops : HopCounts, lastSeen : 1..MaxTime]

FreeSlot == [node |-> NoNode, enabled |-> FALSE, hops |-> 255, lastSeen |-> 0]

VARIABLES
    pool,       \* _nodes_pool; a slot is in use when it has a node
    selected,   \* _selected_node
    listener,   \* whether _update_callback is set
    shown,      \* what its owner read of the directory when last called
    now,        \* the clock, from 1 on
    latest,     \* history: what each node last announced, FreeSlot for never
    crowdedOut  \* history: nodes whose last announce met a full pool

nodesVars == <<pool, selected, listener, shown, now, latest, crowdedOut>>

NodesTypeOK ==
    /\ pool \in [Slot -> Info \cup {FreeSlot}]
    /\ selected \in Node \cup {NoNode}
    /\ listener \in BOOLEAN
    /\ shown \subseteq Info
    /\ now \in 1..MaxTime
    /\ latest \in [Node -> Info \cup {FreeSlot}]
    /\ crowdedOut \subseteq Node

NodesInit ==
    /\ pool = [i \in Slot |-> FreeSlot]
    /\ selected = NoNode
    /\ listener = FALSE
    /\ shown = {}
    /\ now = 1
    /\ latest = [n \in Node |-> FreeSlot]
    /\ crowdedOut = {}

-----------------------------------------------------------------------------
(* Looking into the pool.                                                  *)

InUse(i) == pool[i].node # NoNode

SlotsOf(n) == {i \in Slot : pool[i].node = n}

HasNode(n) == SlotsOf(n) # {}

(* Mutant: the scan stops before the last slot.                            *)
FreeSlotsShort == {i \in Slot : i < MAX_PROPAGATION_NODES /\ ~InUse(i)}

FreeSlots == {i \in Slot : ~InUse(i)}

FirstOf(S) == CHOOSE i \in S : \A j \in S : i <= j

(* What get_nodes() returns, in no particular order.                       *)
NodesIn(p) == {p[i] : i \in Slot} \ {FreeSlot}

GetNodes == NodesIn(pool)

(* The order in which get_nodes() sorts them.                              *)
ListedBefore(a, b) ==
    \/ a.hops < b.hops
    \/ a.hops = b.hops /\ a.lastSeen > b.lastSeen

(* The test get_best_node() puts to each slot.                             *)
Better(a, b) ==
    \/ a.hops < b.hops
    \/ a.hops = b.hops /\ a.lastSeen > b.lastSeen

(* get_best_node() after the first i slots of its scan, which starts from  *)
(* an info that no announced node fails to beat.                           *)
BestUpTo[i \in 0..MAX_PROPAGATION_NODES] ==
    IF i = 0 THEN FreeSlot
    ELSE IF InUse(i) /\ pool[i].enabled /\ Better(pool[i], BestUpTo[i - 1])
         THEN pool[i]
         ELSE BestUpTo[i - 1]

GetBestNode == BestUpTo[MAX_PROPAGATION_NODES].node

(* Mutant: the selection is taken without looking whether it serves.       *)
GetEffectiveNodeUnchecked == IF selected # NoNode THEN selected ELSE GetBestNode

(* get_effective_node()                                                    *)
GetEffectiveNode ==
    IF selected # NoNode /\ \E i \in SlotsOf(selected) : pool[i].enabled
    THEN selected
    ELSE GetBestNode

-----------------------------------------------------------------------------
(* Changes.  The listener reads the directory inside the callback.         *)

Notify == shown' = IF listener THEN NodesIn(pool') ELSE shown

(* Mutant: a free slot is preferred to the one the node has.               *)
SlotForFresh(n) == IF FreeSlots # {} THEN FirstOf(FreeSlots)
                                     ELSE FirstOf(SlotsOf(n))

SlotFor(n) == IF HasNode(n) THEN FirstOf(SlotsOf(n)) ELSE FirstOf(FreeSlots)

Record(n, info) ==
    /\ pool' = [pool EXCEPT ![SlotFor(n)] = info]
    /\ Notify

(* received_announce(): without usable data, or without room for a node    *)
(* that has no slot, nothing changes and no one is told.                   *)
ReceivedAnnounce(n, data, hops) ==
    LET info == [node |-> n, enabled |-> data = "enabled", hops |-> hops,
                 lastSeen |-> now]
        room == HasNode(n) \/ FreeSlots # {}
    IN  /\ data \in {"enabled", "disabled"}
        /\ IF room THEN Record(n, info) ELSE UNCHANGED <<pool, shown>>
        /\ latest' = [latest EXCEPT ![n] = info]
        /\ crowdedOut' = IF (\A i \in Slot : InUse(i)) /\ ~HasNode(n)
                         THEN crowdedOut \cup {n} ELSE crowdedOut \ {n}
        /\ UNCHANGED <<selected, listener, now>>

IsStale(info) == now - info.lastSeen > NODE_STALE_TIMEOUT

Clean ==
    /\ pool' = [i \in Slot |-> IF InUse(i) /\ IsStale(pool[i])
                               THEN FreeSlot ELSE pool[i]]
    /\ Notify

(* clean_stale_nodes(): the selection stays, and so does the listener's    *)
(* view when nothing is removed.                                           *)
CleanStaleNodes ==
    /\ \E i \in Slot : InUse(i) /\ IsStale(pool[i])
    /\ Clean
    /\ UNCHANGED <<selected, listener, now, latest, crowdedOut>>

(* set_selected_node(), which refuses a node it does not know.             *)
SetSelectedNode(n) ==
    /\ n = NoNode \/ HasNode(n)
    /\ selected' = n
    /\ UNCHANGED <<pool, listener, shown, now, latest, crowdedOut>>

(* set_update_callback() by an owner who reads the directory then.         *)
SetUpdateCallback ==
    /\ ~listener
    /\ listener' = TRUE
    /\ shown' = GetNodes
    /\ UNCHANGED <<pool, selected, now, latest, crowdedOut>>

Tick ==
    /\ now < MaxTime
    /\ now' = now + 1
    /\ UNCHANGED <<pool, selected, listener, shown, latest, crowdedOut>>

NodesNext ==
    \/ \E n \in Node, data \in AppData, hops \in HopCounts :
           ReceivedAnnounce(n, data, hops)
    \/ CleanStaleNodes
    \/ \E n \in Node \cup {NoNode} : SetSelectedNode(n)
    \/ SetUpdateCallback
    \/ Tick

NodesSpec == NodesInit /\ [][NodesNext]_nodesVars

-----------------------------------------------------------------------------
(* What the directory promises.                                            *)

(* The directory shows each node once and as it last announced itself,     *)
(* through any sequence of refreshes, removals and returns                 *)
(* (received_announce(), clean_stale_nodes()).                             *)
ListedIsLatest ==
    \A i \in Slot : InUse(i) =>
        /\ pool[i] = latest[pool[i].node]
        /\ SlotsOf(pool[i].node) = {i}

(* A node heard within the timeout is listed, unless the pool was full     *)
(* when it announced itself (find_empty_node_slot()).                      *)
FreshIsListed ==
    \A n \in Node : latest[n] # FreeSlot /\ n \notin crowdedOut =>
        HasNode(n) \/ now - latest[n].lastSeen > NODE_STALE_TIMEOUT

(* A listener that reads the directory when it is called, and only then,   *)
(* always has the directory as it is (_update_callback).                   *)
ListenerIsCurrent == listener => shown = GetNodes

(* The automatic choice is a first serving node of the sorted list, and    *)
(* there is one whenever a node serves (get_best_node(), get_nodes()).     *)
BestIsFirstListed ==
    LET serving == {info \in GetNodes : info.enabled}
    IN  IF serving = {}
        THEN GetBestNode = NoNode
        ELSE \E info \in serving :
                 /\ GetBestNode = info.node
                 /\ \A other \in serving : ~ListedBefore(other, info)

(* The node to use is listed and serves as long as one does, and is the    *)
(* manual selection or else a first serving node of the sorted list: a     *)
(* selection that has gone stale or stopped serving never hides the others *)
(* (get_effective_node(), get_best_node(), get_nodes()).                   *)
EffectiveIsBest ==
    LET serving == {info \in GetNodes : info.enabled}
    IN  IF serving = {}
        THEN GetEffectiveNode = NoNode
        ELSE \E info \in serving :
                 /\ GetEffectiveNode = info.node
                 /\ \/ info.node = selected
                    \/ \A other \in serving : ~ListedBefore(other, info)
=============================================================================

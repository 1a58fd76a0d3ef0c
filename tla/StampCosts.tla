----------------------------- MODULE StampCosts -----------------------------
(***************************************************************************)
(* What LXMRouter remembers of the stamp costs its peers announce          *)
(* (src/src/LXMF/LXMRouter.cpp, update_stamp_cost() and its callers): a    *)
(* fixed table of slots, each stamped with a growing sequence number, in   *)
(* which a peer that stops asking for stamps leaves a hole and a new peer  *)
(* takes the first hole or the slot with the lowest number.                *)
(***************************************************************************)
EXTENDS Integers, FiniteSets

CONSTANTS
    Peer,                       \* delivery destinations that announce
    NoPeer,                     \* the content of a free slot
    OUTBOUND_STAMP_COSTS_SIZE,
    MAX_STAMP_COST,             \* the highest cost an announce may ask for
    ANNOUNCED_COSTS,            \* integers found in announces, legal or not
    MaxUpdates                  \* bound: updates that take a sequence number;
                                \* the counter is 32 bits wide and the model
                                \* stops long before it wraps

ASSUME StampCostsAssumption ==
    /\ NoPeer \notin Peer
    /\ OUTBOUND_STAMP_COSTS_SIZE \in Nat \ {0}
    /\ MAX_STAMP_COST \in Nat
    /\ ANNOUNCED_COSTS \subseteq Int
    /\ MaxUpdates \in Nat

CostSlot == 1..OUTBOUND_STAMP_COSTS_SIZE

EmptySlot == [peer |-> NoPeer, cost |-> 0, sequence |-> 0]

VARIABLES
    slots,      \* _outbound_stamp_costs
    sequence,   \* _outbound_stamp_costs_sequence
    heard       \* history: the cost each peer last announced, 0 for none,
                \* and the sequence number it was recorded under

costVars == <<slots, sequence, heard>>

CostsTypeOK ==
    /\ slots \in [CostSlot -> [peer : Peer \cup {NoPeer},
                               cost : 0..MAX_STAMP_COST, sequence : Nat]]
    /\ sequence \in Nat
    /\ heard \in [Peer -> [cost : 0..MAX_STAMP_COST, at : Nat]]

CostsInit ==
    /\ slots = [i \in CostSlot |-> EmptySlot]
    /\ sequence = 0
    /\ heard = [p \in Peer |-> [cost |-> 0, at |-> 0]]

-----------------------------------------------------------------------------
(* The table.                                                              *)

SlotsOf(p) == {i \in CostSlot : slots[i].peer = p}

First(S) == CHOOSE i \in S : \A j \in S : i <= j

(* Mutant: the slot with the highest number is taken for the oldest.       *)
OldestNewest == CHOOSE i \in CostSlot :
                    \A j \in CostSlot : slots[j].sequence <= slots[i].sequence

(* The first of the slots with the lowest number.                          *)
Oldest == CHOOSE i \in CostSlot :
              \A j \in CostSlot : \/ slots[i].sequence < slots[j].sequence
                                  \/ /\ slots[i].sequence = slots[j].sequence
                                     /\ i <= j

Known(p) == SlotsOf(p) # {}

(* Mutant: the table is searched for a hole before the peer's own slot.    *)
SlotForFresh(p) ==
    IF SlotsOf(NoPeer) # {} THEN First(SlotsOf(NoPeer))
    ELSE IF Known(p) THEN First(SlotsOf(p)) ELSE Oldest

(* Where a cost of p goes.                                                 *)
SlotFor(p) ==
    IF Known(p) THEN First(SlotsOf(p))
    ELSE IF SlotsOf(NoPeer) # {} THEN First(SlotsOf(NoPeer))
    ELSE Oldest

Record(p, c) ==
    /\ sequence < MaxUpdates
    /\ sequence' = sequence + 1
    /\ slots' = [slots EXCEPT ![SlotFor(p)] =
                     [peer |-> p, cost |-> c, sequence |-> sequence + 1]]

(* slot.clear(); an unknown peer that asks for nothing changes nothing.    *)
Forget(p) ==
    /\ slots' = IF Known(p)
                THEN [slots EXCEPT ![First(SlotsOf(p))] = EmptySlot]
                ELSE slots
    /\ UNCHANGED sequence

UpdateStampCost(p, c) ==
    /\ IF c = 0 THEN Forget(p) ELSE Record(p, c)
    /\ heard' = [heard EXCEPT ![p] = [cost |-> c, at |-> sequence']]

GetOutboundStampCost(p) ==
    IF Known(p) THEN slots[First(SlotsOf(p))].cost ELSE 0

-----------------------------------------------------------------------------
(* Announces.                                                              *)

(* The second element of an announce's application data.  Data that is no  *)
(* array of two well-formed elements is "unreadable".                      *)
AppData == [form : {"unreadable", "nil"}, cost : {0}]
           \cup [form : {"integer"}, cost : ANNOUNCED_COSTS]

(* The cost the data ask for, if it can be decoded: nil asks for none, and *)
(* an integer out of range is no answer at all.                            *)
Decode(d) ==
    IF d.form = "nil" THEN {0}
    ELSE IF d.form = "integer" THEN {d.cost} \cap (1..MAX_STAMP_COST)
    ELSE {}

OnDeliveryAnnounce(p, d) == \E c \in Decode(d) : UpdateStampCost(p, c)

CostsNext == \E p \in Peer, d \in AppData : OnDeliveryAnnounce(p, d)

CostsSpec == CostsInit /\ [][CostsNext]_costVars

-----------------------------------------------------------------------------
(* What a sender relies on.                                                *)

(* A remembered cost is the one its peer announced last, and each peer is  *)
(* remembered once: a cost left behind in a second slot, or kept after the *)
(* peer stopped asking, would make the router mint stamps nobody wants or  *)
(* too weak ones (update_stamp_cost(), get_outbound_stamp_cost()).         *)
CostsAreLatest ==
    \A i \in CostSlot :
        slots[i].peer # NoPeer =>
            /\ slots[i].cost = heard[slots[i].peer].cost
            /\ slots[i].cost > 0
            /\ \A j \in CostSlot : slots[j].peer = slots[i].peer => i = j

(* A full table forgets the peer that has been silent longest: whoever     *)
(* asks for stamps and is not remembered was heard before every peer that  *)
(* is (the sequence numbers and the search for the oldest slot).           *)
SilentAreForgottenFirst ==
    \A p \in Peer :
        heard[p].cost > 0 /\ ~Known(p) =>
            \A i \in CostSlot :
                slots[i].peer # NoPeer =>
                    heard[p].at < heard[slots[i].peer].at
=============================================================================

--------------------------- MODULE AdmissionProofs ---------------------------
(***************************************************************************)
(* Proofs about Admission, for any messages, peers, tables and queues.     *)
(*                                                                         *)
(* The invariant says of a message object that its valid bytes are those   *)
(* of its last edit with the stamp it holds, and that the router finds no  *)
(* cost on a message whose caller has set none; of the queue, that an      *)
(* accepted message is in it once at most; and of a hash that awaits its   *)
(* proof, that an accepted message which has left the queue bears it.      *)
(*                                                                         *)
(* The table of costs comes first, on its own.  Its invariant ties each    *)
(* slot's sequence number to the moment its peer was heard, and says that  *)
(* no two peers that ask for stamps were heard at the same moment; only    *)
(* then is the slot with the lowest number that of the peer that has been  *)
(* silent longest.                                                         *)
(***************************************************************************)
EXTENDS Admission, SequenceTheorems, WellFoundedInduction, TLAPS

-----------------------------------------------------------------------------
(* The table of stamp costs.                                               *)

(* A non-empty set of naturals has a least element.                        *)
LEMMA LeastNatural ==
    ASSUME NEW T, T \subseteq Nat, T # {}
    PROVE  \E x \in T : \A y \in T : x <= y
<1>1. \E x \in T : \A y \in T : ~(<<y, x>> \in OpToRel(<, Nat))
  BY NatLessThanWellFounded, WFMin, Zenon
<1>2. PICK x \in T : \A y \in T : ~(<<y, x>> \in OpToRel(<, Nat))
  BY <1>1, Zenon
<1>3. OpToRel(<, Nat) = {ss \in Nat \X Nat : ss[1] < ss[2]}
  BY Zenon DEF OpToRel
<1>4. \A y \in T : ~(y < x)
  BY <1>2, <1>3
<1> QED
  BY <1>4

(* First() finds a slot in a non-empty set of slots.                       *)
LEMMA FirstIsIn ==
    ASSUME NEW S, S \subseteq CostSlot, S # {}
    PROVE  First(S) \in S
<1>1. S \subseteq Nat
  BY StampCostsAssumption DEF CostSlot
<1>2. \E i \in S : \A j \in S : i <= j
  BY <1>1, LeastNatural, Zenon
<1> QED
  BY <1>2 DEF First

-----------------------------------------------------------------------------
(* The strengthening.                                                      *)

(* Slots carry the moment their peer was heard, and two peers that ask for *)
(* stamps were heard at different moments.                                 *)
Numbered ==
    /\ \A p \in Peer : heard[p].at <= sequence
    /\ \A i \in CostSlot :
           slots[i].peer # NoPeer =>
               slots[i].sequence = heard[slots[i].peer].at
    /\ \A p, q \in Peer :
           heard[p].cost > 0 /\ heard[q].cost > 0 /\ heard[p].at = heard[q].at
               => p = q

CostsInv ==
    /\ CostsTypeOK
    /\ CostsAreLatest
    /\ SilentAreForgottenFirst
    /\ Numbered

(* slots and heard have types a prover can use one slot at a time.         *)
LEMMA SlotTypes ==
    ASSUME CostsTypeOK
    PROVE  /\ \A i \in CostSlot : /\ slots[i].peer \in Peer \cup {NoPeer}
                                  /\ slots[i].cost \in Nat
                                  /\ slots[i].sequence \in Nat
           /\ \A p \in Peer : heard[p].cost \in Nat /\ heard[p].at \in Nat
  BY StampCostsAssumption DEF CostsTypeOK

(* Oldest is a slot with the lowest number.                                *)
LEMMA OldestIsLowest ==
    ASSUME CostsTypeOK
    PROVE  /\ Oldest \in CostSlot
           /\ \A j \in CostSlot : slots[Oldest].sequence <= slots[j].sequence
<1> DEFINE T == {slots[i].sequence : i \in CostSlot}
<1>1. 1 \in CostSlot
  BY StampCostsAssumption DEF CostSlot
<1>2. T \subseteq Nat /\ T # {}
  BY <1>1, SlotTypes
<1>3. PICK n \in T : \A k \in T : n <= k
  BY <1>2, LeastNatural, Zenon
<1> DEFINE S == {i \in CostSlot : slots[i].sequence = n}
<1>4. S \subseteq Nat /\ S # {}
  BY <1>3, StampCostsAssumption DEF CostSlot
<1>5. PICK i \in S : \A j \in S : i <= j
  BY <1>4, LeastNatural, Zenon
<1>6. \A j \in CostSlot : \/ slots[i].sequence < slots[j].sequence
                          \/ slots[i].sequence = slots[j].sequence /\ i <= j
  <2> SUFFICES ASSUME NEW j \in CostSlot
               PROVE  \/ slots[i].sequence < slots[j].sequence
                      \/ slots[i].sequence = slots[j].sequence /\ i <= j
    OBVIOUS
  <2>1. slots[i].sequence = n /\ n <= slots[j].sequence
    BY <1>3, <1>5
  <2>2. slots[j].sequence = n => i <= j
    BY <1>5
  <2>3. n \in Nat /\ slots[j].sequence \in Nat
    BY <2>1, SlotTypes
  <2> HIDE DEF T, S
  <2> QED
    BY <2>1, <2>2, <2>3
<1>7. \E k \in CostSlot :
          \A j \in CostSlot :
              \/ slots[k].sequence < slots[j].sequence
              \/ slots[k].sequence = slots[j].sequence /\ k <= j
  BY <1>5, <1>6
<1>8. /\ Oldest \in CostSlot
      /\ \A j \in CostSlot :
             \/ slots[Oldest].sequence < slots[j].sequence
             \/ slots[Oldest].sequence = slots[j].sequence /\ Oldest <= j
  BY <1>7, Zenon DEF Oldest
<1> QED
  BY <1>8, SlotTypes

(* The slot a cost of p goes to: its own, else a hole, else the oldest of  *)
(* a full table.                                                           *)
LEMMA SlotForFacts ==
    ASSUME CostsTypeOK, NEW p \in Peer
    PROVE  /\ SlotFor(p) \in CostSlot
           /\ Known(p) => slots[SlotFor(p)].peer = p
           /\ ~Known(p) /\ slots[SlotFor(p)].peer # NoPeer =>
                  \A j \in CostSlot :
                      slots[SlotFor(p)].sequence <= slots[j].sequence
<1>1. CASE Known(p)
  <2>1. First(SlotsOf(p)) \in SlotsOf(p)
    BY <1>1, FirstIsIn DEF Known, SlotsOf
  <2> QED
    BY <1>1, <2>1 DEF SlotFor, SlotsOf
<1>2. CASE ~Known(p) /\ SlotsOf(NoPeer) # {}
  <2>1. First(SlotsOf(NoPeer)) \in SlotsOf(NoPeer)
    BY <1>2, FirstIsIn DEF SlotsOf
  <2> QED
    BY <1>2, <2>1 DEF SlotFor, SlotsOf
<1>3. CASE ~Known(p) /\ SlotsOf(NoPeer) = {}
  BY <1>3, OldestIsLowest DEF SlotFor
<1> QED
  BY <1>1, <1>2, <1>3

-----------------------------------------------------------------------------
(* A recorded cost keeps the invariant.                                    *)
LEMMA RecordKeepsInv ==
    ASSUME CostsInv, NEW p \in Peer, NEW c \in 1..MAX_STAMP_COST,
           Record(p, c),
           heard' = [heard EXCEPT ![p] = [cost |-> c, at |-> sequence']]
    PROVE  CostsInv'
<1> DEFINE s == SlotFor(p)
<1> USE StampCostsAssumption
<1>1. CostsTypeOK /\ CostsAreLatest /\ SilentAreForgottenFirst /\ Numbered
  BY DEF CostsInv
<1>2. /\ \A i \in CostSlot : /\ slots[i].peer \in Peer \cup {NoPeer}
                             /\ slots[i].cost \in Nat
                             /\ slots[i].sequence \in Nat
      /\ \A q \in Peer : heard[q].cost \in Nat /\ heard[q].at \in Nat
      /\ sequence \in Nat
  BY <1>1, SlotTypes DEF CostsTypeOK
<1>3. /\ s \in CostSlot
      /\ Known(p) => slots[s].peer = p
      /\ ~Known(p) /\ slots[s].peer # NoPeer =>
             \A j \in CostSlot : slots[s].sequence <= slots[j].sequence
  BY <1>1, SlotForFacts
<1>4. /\ sequence' = sequence + 1
      /\ slots'[s] = [peer |-> p, cost |-> c, sequence |-> sequence + 1]
      /\ \A i \in CostSlot \ {s} : slots'[i] = slots[i]
      /\ heard'[p] = [cost |-> c, at |-> sequence + 1]
      /\ \A q \in Peer \ {p} : heard'[q] = heard[q]
  BY <1>1, <1>3 DEF Record, CostsTypeOK
<1>5. CostsTypeOK'
  BY <1>1, <1>2, <1>3 DEF Record, CostsTypeOK
<1>6. \A i \in CostSlot \ {s} : slots[i].peer # p
  <2>1. ASSUME NEW i \in CostSlot \ {s}, slots[i].peer = p PROVE FALSE
    <3>1. Known(p)
      BY <2>1 DEF Known, SlotsOf
    <3> QED
      BY <1>1, <1>3, <2>1, <3>1 DEF CostsAreLatest
  <2> QED
    BY <2>1
<1>7. CostsAreLatest'
  BY <1>1, <1>2, <1>3, <1>4, <1>6 DEF CostsAreLatest
<1>8. Numbered'
  <2>1. \A q \in Peer : heard'[q].at <= sequence'
    BY <1>1, <1>2, <1>4 DEF Numbered
  <2>2. ASSUME NEW i \in CostSlot, slots'[i].peer # NoPeer
        PROVE  slots'[i].sequence = heard'[slots'[i].peer].at
    BY <1>1, <1>2, <1>3, <1>4, <1>6, <2>2 DEF Numbered
  <2>3. ASSUME NEW q \in Peer, NEW r \in Peer, heard'[q].cost > 0,
               heard'[r].cost > 0, heard'[q].at = heard'[r].at
        PROVE  q = r
    BY <1>1, <1>2, <1>4, <2>3 DEF Numbered
  <2> QED
    BY <2>1, <2>2, <2>3 DEF Numbered
<1>9. SilentAreForgottenFirst'
  <2> SUFFICES ASSUME NEW q \in Peer, heard'[q].cost > 0, ~Known(q)',
                      NEW i \in CostSlot, slots'[i].peer # NoPeer
               PROVE  heard'[q].at < heard'[slots'[i].peer].at
    BY DEF SilentAreForgottenFirst
  <2>1. q # p
    BY <1>3, <1>4 DEF Known, SlotsOf
  <2>2. heard'[q] = heard[q] /\ heard[q].at <= sequence
    BY <1>1, <1>4, <2>1 DEF Numbered
  <2>3. CASE i = s
    BY <1>2, <1>4, <2>2, <2>3
  <2>4. CASE i # s /\ ~Known(q)
    <3>1. heard[q].at < heard[slots[i].peer].at
      BY <1>1, <1>4, <2>2, <2>4 DEF SilentAreForgottenFirst
    <3> QED
      BY <1>2, <1>4, <1>6, <2>2, <2>4, <3>1
  <2>5. CASE i # s /\ Known(q)
    <3>1. slots[s].peer = q
      BY <1>4, <2>5 DEF Known, SlotsOf
    <3>2. ~Known(p) /\ q # NoPeer
      BY <1>3, <2>1, <3>1
    <3>3. slots[s].sequence <= slots[i].sequence
      BY <1>3, <3>1, <3>2
    <3>4. slots[i].peer # NoPeer /\ slots[i].peer # q
      BY <1>1, <1>3, <1>4, <2>5, <3>1, <3>2 DEF CostsAreLatest
    <3>5. heard[q].at <= heard[slots[i].peer].at
      BY <1>1, <1>3, <3>1, <3>2, <3>3, <3>4 DEF Numbered
    <3>6. heard[q].at # heard[slots[i].peer].at
      BY <1>1, <1>2, <2>2, <3>4 DEF Numbered, CostsAreLatest
    <3> QED
      BY <1>2, <1>4, <1>6, <2>2, <2>5, <3>4, <3>5, <3>6
  <2> QED
    BY <2>3, <2>4, <2>5
<1> QED
  BY <1>5, <1>7, <1>8, <1>9 DEF CostsInv

(* A peer that stops asking for stamps keeps the invariant.                *)
LEMMA ForgetKeepsInv ==
    ASSUME CostsInv, NEW p \in Peer, Forget(p),
           heard' = [heard EXCEPT ![p] = [cost |-> 0, at |-> sequence']]
    PROVE  CostsInv'
<1> USE StampCostsAssumption
<1>1. CostsTypeOK /\ CostsAreLatest /\ SilentAreForgottenFirst /\ Numbered
  BY DEF CostsInv
<1>2. /\ \A i \in CostSlot : /\ slots[i].peer \in Peer \cup {NoPeer}
                             /\ slots[i].cost \in Nat
                             /\ slots[i].sequence \in Nat
      /\ \A q \in Peer : heard[q].cost \in Nat /\ heard[q].at \in Nat
      /\ sequence \in Nat
  BY <1>1, SlotTypes DEF CostsTypeOK
<1>3. /\ sequence' = sequence
      /\ heard'[p] = [cost |-> 0, at |-> sequence]
      /\ \A q \in Peer \ {p} : heard'[q] = heard[q]
  BY <1>1 DEF Forget, CostsTypeOK
<1>4. \A i \in CostSlot : IF slots[i].peer = p THEN slots'[i] = EmptySlot
                                               ELSE slots'[i] = slots[i]
  <2>1. CASE Known(p)
    <3>1. First(SlotsOf(p)) \in SlotsOf(p)
      BY <2>1, FirstIsIn DEF Known, SlotsOf
    <3>2. \A i \in CostSlot : slots[i].peer = p => i = First(SlotsOf(p))
      BY <1>1, <3>1 DEF CostsAreLatest, SlotsOf
    <3> QED
      BY <1>1, <2>1, <3>1, <3>2 DEF Forget, CostsTypeOK, SlotsOf
  <2>2. CASE ~Known(p)
    BY <2>2 DEF Forget, Known, SlotsOf
  <2> QED
    BY <2>1, <2>2
<1>5. CostsTypeOK'
  <2>1. EmptySlot \in [peer : Peer \cup {NoPeer}, cost : 0..MAX_STAMP_COST,
                       sequence : Nat]
    BY DEF EmptySlot
  <2>2. slots' \in [CostSlot -> [peer : Peer \cup {NoPeer},
                                cost : 0..MAX_STAMP_COST, sequence : Nat]]
    BY <1>1, <2>1 DEF Forget, CostsTypeOK
  <2> QED
    BY <1>1, <1>3, <2>2 DEF CostsTypeOK
<1>6. \A i \in CostSlot : slots'[i].peer # NoPeer =>
          slots[i].peer # p /\ slots'[i] = slots[i]
  BY <1>4 DEF EmptySlot
<1>7. CostsAreLatest'
  BY <1>1, <1>2, <1>3, <1>6 DEF CostsAreLatest
<1>8. Numbered'
  <2>1. \A q \in Peer : heard'[q].at <= sequence'
    BY <1>1, <1>2, <1>3 DEF Numbered
  <2>2. ASSUME NEW i \in CostSlot, slots'[i].peer # NoPeer
        PROVE  slots'[i].sequence = heard'[slots'[i].peer].at
    BY <1>1, <1>2, <1>3, <1>6, <2>2 DEF Numbered
  <2>3. ASSUME NEW q \in Peer, NEW r \in Peer, heard'[q].cost > 0,
               heard'[r].cost > 0, heard'[q].at = heard'[r].at
        PROVE  q = r
    BY <1>1, <1>2, <1>3, <2>3 DEF Numbered
  <2> QED
    BY <2>1, <2>2, <2>3 DEF Numbered
<1>9. SilentAreForgottenFirst'
  <2> SUFFICES ASSUME NEW q \in Peer, heard'[q].cost > 0, ~Known(q)',
                      NEW i \in CostSlot, slots'[i].peer # NoPeer
               PROVE  heard'[q].at < heard'[slots'[i].peer].at
    BY DEF SilentAreForgottenFirst
  <2>1. q # p /\ heard'[q] = heard[q]
    BY <1>3
  <2>2. ~Known(q)
    BY <1>4, <2>1 DEF Known, SlotsOf
  <2>3. heard[q].at < heard[slots[i].peer].at
    BY <1>1, <1>6, <2>1, <2>2 DEF SilentAreForgottenFirst
  <2> QED
    BY <1>2, <1>3, <1>6, <2>1, <2>3
<1> QED
  BY <1>5, <1>7, <1>8, <1>9 DEF CostsInv

-----------------------------------------------------------------------------
(* The empty table satisfies the invariant.                                *)
LEMMA CostsInitInv == CostsInit => CostsInv
  BY StampCostsAssumption
  DEF CostsInit, CostsInv, CostsTypeOK, CostsAreLatest,
      SilentAreForgottenFirst, Numbered, EmptySlot, Known, SlotsOf

(* An announce keeps the invariant; modules that add to this one cite it.  *)
LEMMA AnnounceKeepsInv ==
    ASSUME CostsInv, NEW p \in Peer, NEW d \in AppData,
           OnDeliveryAnnounce(p, d)
    PROVE  CostsInv'
<1>1. PICK c \in Decode(d) : UpdateStampCost(p, c)
  BY DEF OnDeliveryAnnounce
<1>2. c = 0 \/ c \in 1..MAX_STAMP_COST
  BY <1>1 DEF Decode
<1>3. CASE c = 0
  BY <1>1, <1>3, ForgetKeepsInv DEF UpdateStampCost
<1>4. CASE c # 0
  BY <1>1, <1>2, <1>4, RecordKeepsInv DEF UpdateStampCost
<1> QED
  BY <1>3, <1>4

(* The invariant depends on the module's own variables only.               *)
LEMMA CostsStutter ==
    ASSUME CostsInv, UNCHANGED costVars
    PROVE  CostsInv'
  BY DEF CostsInv, CostsTypeOK, CostsAreLatest, SilentAreForgottenFirst,
         Numbered, costVars, Known, SlotsOf

(* The table never disagrees with what its peers announced last and        *)
(* forgets the peer that has been silent longest.                          *)
THEOREM CostsSafe == CostsSpec => [](CostsTypeOK /\ CostsAreLatest
                                                /\ SilentAreForgottenFirst)
<1>1. CostsInv /\ [CostsNext]_costVars => CostsInv'
  BY AnnounceKeepsInv, CostsStutter DEF CostsNext
<1>2. CostsInv => CostsTypeOK /\ CostsAreLatest /\ SilentAreForgottenFirst
  BY DEF CostsInv
<1> QED
  BY CostsInitInv, <1>1, <1>2, PTL DEF CostsSpec

-----------------------------------------------------------------------------
(* Messages and the queue.                                                 *)

(* A message that can still be submitted.                                  *)
Open(m) == result[m] # "ACCEPTED"

ObjectsSound ==
    \A m \in Msg :
        LET o == object[m]
        IN  /\ o.packedValid =>
                   /\ o.hash = <<TextOf[m], o.version>>
                   /\ o.packed = [hash |-> o.hash, stamp |-> o.stamp]
            /\ m \in requested => o.stampCost > 0
            /\ Open(m) /\ m \notin requested /\ m \notin Sourceless =>
                   IF owed[m] = NoStamp
                   THEN o.stampCost = 0 /\ ~o.stampValid
                   ELSE o.stampCost > 0 /\ o.stamp = owed[m]

Due(e) == IF owed[e.msg] # NoStamp THEN owed[e.msg]
          ELSE [over |-> e.bytes.hash, cost |-> e.announced]

StampedFor(e) ==
    LeftToRouter(e) /\ Due(e).cost > 0 =>
        /\ e.bytes.stamp # NoStamp
        /\ e.bytes.stamp.over = Due(e).over
        /\ e.bytes.stamp.cost >= Due(e).cost

QueueSound ==
    /\ \A i \in 1..Len(queue) :
           /\ result[queue[i].msg] = "ACCEPTED"
           /\ queue[i].bytes.hash = <<TextOf[queue[i].msg], queue[i].version>>
           /\ StampedFor(queue[i])
    /\ \A i, j \in 1..Len(queue) : queue[i].msg = queue[j].msg => i = j

AwaitingSound ==
    \A h \in awaiting :
        \E m \in Msg : /\ result[m] = "ACCEPTED"
                       /\ TextOf[m] = h[1]
                       /\ \A i \in 1..Len(queue) : queue[i].msg # m

AdmissionInv ==
    /\ CostsInv
    /\ AdmissionTypeOK
    /\ ObjectsSound
    /\ QueueSound
    /\ AwaitingSound
    /\ AcceptedIsDurable
    /\ WaitingIsOutbound

-----------------------------------------------------------------------------
(* Facts about the operators.                                              *)

(* The cost found for a message is one the table may hold.                 *)
LEMMA AnnouncedCostType ==
    ASSUME CostsTypeOK, NEW m \in Msg
    PROVE  AnnouncedCost(m) \in 0..MAX_STAMP_COST
<1> DEFINE p == PeerOf[m]
<1>1. CASE Known(p)
  <2>1. First(SlotsOf(p)) \in SlotsOf(p)
    BY <1>1, FirstIsIn DEF Known, SlotsOf
  <2> QED
    BY <1>1, <2>1 DEF AnnouncedCost, GetOutboundStampCost, CostsTypeOK, SlotsOf
<1>2. CASE ~Known(p)
  BY <1>2, StampCostsAssumption DEF AnnouncedCost, GetOutboundStampCost
<1> QED
  BY <1>1, <1>2

(* The hash of a message at any version is one.                            *)
LEMMA HashType ==
    ASSUME NEW m \in Msg, NEW v \in 0..MaxVersion
    PROVE  <<TextOf[m], v>> \in Hash /\ <<TextOf[m], v>> # NoHash
  BY AdmissionAssumption DEF Hash

(* pack() keeps the type and leaves valid bytes of the current version.    *)
LEMMA PackedFacts ==
    ASSUME NEW m \in Msg, NEW o \in Object,
           o.packedValid => /\ o.hash = <<TextOf[m], o.version>>
                            /\ o.packed = [hash |-> o.hash, stamp |-> o.stamp]
    PROVE  /\ Packed(m, o) \in Object
           /\ Packed(m, o).packedValid
           /\ Packed(m, o).hash = <<TextOf[m], o.version>>
           /\ Packed(m, o).packed = [hash |-> Packed(m, o).hash,
                                     stamp |-> o.stamp]
           /\ Packed(m, o).stamp = o.stamp
           /\ Packed(m, o).version = o.version
           /\ Packed(m, o).stampCost = o.stampCost
           /\ Packed(m, o).stampValid = o.stampValid
<1>1. CASE o.packedValid
  BY <1>1 DEF Packed
<1>2. CASE ~o.packedValid
  <2>1. <<TextOf[m], o.version>> \in Hash
    BY HashType DEF Object
  <2>2. [hash |-> <<TextOf[m], o.version>>, stamp |-> o.stamp] \in Bytes
    BY <2>1 DEF Bytes, Object
  <2>3. Packed(m, o) = [o EXCEPT !.hash = <<TextOf[m], o.version>>,
                                 !.packed = [hash |-> <<TextOf[m], o.version>>,
                                             stamp |-> o.stamp],
                                 !.packedValid = TRUE,
                                 !.state = "OUTBOUND"]
    BY <1>2 DEF Packed
  <2>4. Packed(m, o) \in Object
    BY <2>1, <2>2, <2>3 DEF Object, State
  <2>5. /\ Packed(m, o).packedValid
        /\ Packed(m, o).hash = <<TextOf[m], o.version>>
        /\ Packed(m, o).packed = [hash |-> <<TextOf[m], o.version>>,
                                  stamp |-> o.stamp]
        /\ Packed(m, o).stamp = o.stamp
        /\ Packed(m, o).version = o.version
        /\ Packed(m, o).stampCost = o.stampCost
        /\ Packed(m, o).stampValid = o.stampValid
    BY <2>3 DEF Object
  <2> QED
    BY <2>4, <2>5
<1> QED
  BY <1>1, <1>2

(* generate_stamp() leaves a stamp of the object's cost over the hash it   *)
(* has then, and no valid bytes.                                           *)
LEMMA WithStampFacts ==
    ASSUME NEW m \in Msg, NEW o \in Object, o.stampCost > 0,
           o.packedValid => /\ o.hash = <<TextOf[m], o.version>>
                            /\ o.packed = [hash |-> o.hash, stamp |-> o.stamp]
    PROVE  LET w == WithStamp(m, o)
           IN  /\ w \in Object
               /\ ~w.packedValid
               /\ o.hash # NoHash =>
                      w.stamp = [over |-> o.hash, cost |-> o.stampCost]
               /\ w.version = o.version
               /\ w.stampCost = o.stampCost
<1> DEFINE base == IF o.hash = NoHash THEN Packed(m, o) ELSE o
<1>1. /\ base \in Object /\ base.hash \in Hash
      /\ base.version = o.version /\ base.stampCost = o.stampCost
  <2>1. CASE o.hash = NoHash
    <3>1. /\ Packed(m, o) \in Object
          /\ Packed(m, o).hash = <<TextOf[m], o.version>>
          /\ Packed(m, o).version = o.version
          /\ Packed(m, o).stampCost = o.stampCost
      BY PackedFacts
    <3>2. <<TextOf[m], o.version>> \in Hash
      BY HashType DEF Object
    <3> QED
      BY <2>1, <3>1, <3>2
  <2>2. CASE o.hash # NoHash
    BY <2>2 DEF Object
  <2> QED
    BY <2>1, <2>2
<1>2. [over |-> base.hash, cost |-> base.stampCost] \in Stamp
  BY <1>1, StampCostsAssumption DEF Stamp, Object
<1>3. WithStamp(m, o) =
          [base EXCEPT !.stamp = [over |-> base.hash, cost |-> base.stampCost],
                       !.stampValid = TRUE, !.packedValid = FALSE]
  BY DEF WithStamp
<1> HIDE DEF base
<1>4. WithStamp(m, o) \in Object /\ ~WithStamp(m, o).packedValid
  BY <1>1, <1>2, <1>3 DEF Object
<1>5. WithStamp(m, o).stamp = [over |-> base.hash, cost |-> base.stampCost]
  BY <1>1, <1>3 DEF Object
<1>6. o.hash # NoHash => base = o
  BY DEF base
<1> QED
  BY <1>1, <1>3, <1>4, <1>5, <1>6 DEF Object

(* The router makes a stamp for a message of which it owes none yet.       *)
LEMMA AutomaticFacts ==
    ASSUME ObjectsSound, CostsTypeOK,
           NEW m \in Msg \ Sourceless, Open(m), m \notin requested
    PROVE  /\ StampIsAutomatic(m) =>
                  owed[m] = NoStamp /\ ~object[m].stampValid
           /\ /\ owed[m] = NoStamp
              /\ m \notin Propagated
              /\ AnnouncedCost(m) > 0
              => StampIsAutomatic(m)
<1>1. IF owed[m] = NoStamp
      THEN object[m].stampCost = 0 /\ ~object[m].stampValid
      ELSE object[m].stampCost > 0
  BY DEF ObjectsSound
<1> QED
  BY <1>1 DEF StampIsAutomatic, CostIsAutomatic

(* What the router has made of a message left to it: a stamp for the cost  *)
(* announced, or else what it owed before.                                 *)
OwnStamp(m, o) ==
    IF StampIsAutomatic(m)
    THEN /\ o.stampCost > 0
         /\ o.stamp = [over |-> o.hash, cost |-> AnnouncedCost(m)]
    ELSE IF owed[m] = NoStamp THEN o.stampCost = 0 /\ ~o.stampValid
                              ELSE o.stampCost > 0 /\ o.stamp = owed[m]

(* What try_handle_outbound() queues.                                      *)
LEMMA PreparedFacts ==
    ASSUME AdmissionInv, NEW m \in Msg \ Sourceless, Open(m)
    PROVE  LET o == Prepared(m)
           IN  /\ o \in Object
               /\ o.packedValid
               /\ o.version = object[m].version
               /\ o.hash = <<TextOf[m], o.version>>
               /\ o.packed = [hash |-> o.hash, stamp |-> o.stamp]
               /\ m \in requested => o.stampCost > 0
               /\ m \notin requested => OwnStamp(m, o)
<1> DEFINE c == WithCost(m)
<1>1. AnnouncedCost(m) \in 0..MAX_STAMP_COST
  BY AnnouncedCostType DEF AdmissionInv, CostsInv
<1>2. object[m] \in Object
  BY DEF AdmissionInv, AdmissionTypeOK
<1>3. /\ c \in Object
      /\ c.packedValid => /\ c.hash = <<TextOf[m], c.version>>
                          /\ c.packed = [hash |-> c.hash, stamp |-> c.stamp]
      /\ c.version = object[m].version
      /\ c.stampValid = object[m].stampValid
      /\ c.stamp = object[m].stamp
      /\ c.stampCost = IF CostIsAutomatic(m) THEN AnnouncedCost(m)
                                             ELSE object[m].stampCost
  BY <1>1, <1>2 DEF WithCost, AdmissionInv, ObjectsSound, Object
<1>0. ObjectsSound
  BY DEF AdmissionInv
<1>4. m \in requested => ~CostIsAutomatic(m) /\ object[m].stampCost > 0
  <2>1. m \in requested => object[m].stampCost > 0
    BY <1>0 DEF ObjectsSound
  <2> QED
    BY <2>1 DEF CostIsAutomatic
<1>5. m \notin requested =>
          /\ StampIsAutomatic(m) => ~object[m].stampValid
          /\ IF owed[m] = NoStamp
             THEN object[m].stampCost = 0 /\ ~object[m].stampValid
             ELSE object[m].stampCost > 0 /\ object[m].stamp = owed[m]
  <2>1. CostsTypeOK
    BY DEF AdmissionInv, CostsInv
  <2> QED
    BY <1>0, <2>1, AutomaticFacts DEF ObjectsSound
<1> HIDE DEF c
<1>6. CASE StampIsAutomatic(m) /\ ~c.stampValid
  <2>0. CostIsAutomatic(m) /\ AnnouncedCost(m) > 0 /\ ~c.stampValid
    BY <1>6 DEF StampIsAutomatic
  <2> DEFINE p == Packed(m, c)
             w == WithStamp(m, p)
  <2>1. /\ p \in Object /\ p.packedValid
        /\ p.hash = <<TextOf[m], c.version>> /\ p.version = c.version
        /\ p.packed = [hash |-> p.hash, stamp |-> p.stamp]
        /\ p.stampCost = AnnouncedCost(m)
    <3>1. /\ p \in Object /\ p.packedValid
          /\ p.hash = <<TextOf[m], c.version>> /\ p.version = c.version
          /\ p.packed = [hash |-> p.hash, stamp |-> c.stamp]
          /\ p.stamp = c.stamp /\ p.stampCost = c.stampCost
      BY <1>3, PackedFacts
    <3> QED
      BY <1>3, <2>0, <3>1
  <2>2. p.hash # NoHash
    BY <2>1, HashType DEF Object
  <2> HIDE DEF p
  <2>3. /\ w \in Object /\ ~w.packedValid /\ w.version = c.version
        /\ w.stamp = [over |-> p.hash, cost |-> AnnouncedCost(m)]
        /\ w.stampCost = AnnouncedCost(m)
    BY <2>0, <2>1, <2>2, WithStampFacts
  <2> HIDE DEF w
  <2>4. /\ Packed(m, w) \in Object /\ Packed(m, w).packedValid
        /\ Packed(m, w).hash = <<TextOf[m], w.version>>
        /\ Packed(m, w).packed = [hash |-> Packed(m, w).hash, stamp |-> w.stamp]
        /\ Packed(m, w).stamp = w.stamp
        /\ Packed(m, w).version = w.version
        /\ Packed(m, w).stampCost = w.stampCost
    BY <2>3, PackedFacts
  <2>5. Prepared(m) = Packed(m, w)
    BY <1>6 DEF Prepared, c, p, w
  <2> QED
    BY <1>3, <1>4, <1>6, <2>0, <2>1, <2>3, <2>4, <2>5 DEF OwnStamp
<1>7. CASE ~(StampIsAutomatic(m) /\ ~c.stampValid)
  <2>1. Prepared(m) = Packed(m, c)
    BY <1>7 DEF Prepared, c
  <2>2. /\ Packed(m, c) \in Object /\ Packed(m, c).packedValid
        /\ Packed(m, c).hash = <<TextOf[m], c.version>>
        /\ Packed(m, c).packed = [hash |-> Packed(m, c).hash, stamp |-> c.stamp]
        /\ Packed(m, c).stamp = c.stamp
        /\ Packed(m, c).version = c.version
        /\ Packed(m, c).stampCost = c.stampCost
        /\ Packed(m, c).stampValid = c.stampValid
    BY <1>3, PackedFacts
  <2>3. m \notin requested => ~StampIsAutomatic(m)
    BY <1>3, <1>5, <1>7
  <2>4. m \notin requested =>
            IF owed[m] = NoStamp THEN c.stampCost = 0 /\ ~c.stampValid
                                 ELSE c.stampCost > 0 /\ c.stamp = owed[m]
    BY <1>1, <1>3, <1>5, <2>3 DEF StampIsAutomatic, CostIsAutomatic
  <2>5. m \notin requested => OwnStamp(m, Prepared(m))
    BY <2>1, <2>2, <2>3, <2>4 DEF OwnStamp
  <2> QED
    BY <1>3, <1>4, <2>1, <2>2, <2>5
<1> QED
  BY <1>6, <1>7

-----------------------------------------------------------------------------
(* The actions.                                                            *)

(* What the invariant asks of an object, given what its caller has asked   *)
(* for, whether it can still be submitted and what stamp is owed to it.    *)
SoundObject(m, o, asked, open, due) ==
    /\ o.packedValid =>
           /\ o.hash = <<TextOf[m], o.version>>
           /\ o.packed = [hash |-> o.hash, stamp |-> o.stamp]
    /\ asked => o.stampCost > 0
    /\ open /\ ~asked /\ m \notin Sourceless =>
           IF due = NoStamp THEN o.stampCost = 0 /\ ~o.stampValid
                            ELSE o.stampCost > 0 /\ o.stamp = due

LEMMA ObjectsAreSound ==
    ASSUME ObjectsSound, NEW m \in Msg
    PROVE  SoundObject(m, object[m], m \in requested, Open(m), owed[m])
  BY DEF ObjectsSound, SoundObject

(* The caller's own preparation keeps the invariant when it leaves a sound *)
(* object.                                                                 *)
LEMMA PreparationKeepsInv ==
    ASSUME AdmissionInv, NEW m \in Msg, NEW o \in Object, Changes(m, o),
           requested' = requested \/ requested' = requested \cup {m},
           SoundObject(m, o, m \in requested', Open(m), owed[m])
    PROVE  AdmissionInv'
<1>1. /\ CostsInv /\ AdmissionTypeOK /\ ObjectsSound /\ QueueSound
      /\ AwaitingSound /\ AcceptedIsDurable /\ WaitingIsOutbound
  BY DEF AdmissionInv
<1>2. /\ object' = [object EXCEPT ![m] = o]
      /\ UNCHANGED <<costVars, bridge, queue, awaiting, states, store, result,
                     admitted, owed>>
  BY DEF Changes
<1>3. CostsInv'
  BY <1>1, <1>2, CostsStutter
<1>4. AdmissionTypeOK'
  BY <1>1, <1>2, <1>3 DEF AdmissionTypeOK, CostsInv
<1>5. ObjectsSound'
  <2> SUFFICES ASSUME NEW k \in Msg
               PROVE  SoundObject(k, object'[k], k \in requested',
                                  Open(k)', owed'[k])
    BY DEF ObjectsSound, SoundObject
  <2>1. Open(k)' = Open(k)
    BY <1>2 DEF Open
  <2>2. owed'[k] = owed[k]
    BY <1>2
  <2>3. CASE k = m
    <3>1. object'[m] = o
      BY <1>1, <1>2 DEF AdmissionTypeOK
    <3> QED
      BY <2>1, <2>2, <2>3, <3>1
  <2>4. CASE k # m
    <3>1. object'[k] = object[k] /\ (k \in requested' <=> k \in requested)
      BY <1>1, <1>2, <2>4 DEF AdmissionTypeOK
    <3>2. SoundObject(k, object[k], k \in requested, Open(k), owed[k])
      BY <1>1, ObjectsAreSound
    <3> QED
      BY <2>1, <2>2, <3>1, <3>2 DEF SoundObject
  <2> QED
    BY <2>3, <2>4
<1>6. QueueSound' /\ AwaitingSound'
  BY <1>1, <1>2
  DEF QueueSound, AwaitingSound, StampedFor, Due, LeftToRouter
<1>7. AcceptedIsDurable' /\ WaitingIsOutbound'
  BY <1>1, <1>2 DEF AcceptedIsDurable, WaitingIsOutbound
<1> QED
  BY <1>3, <1>4, <1>5, <1>6, <1>7 DEF AdmissionInv

LEMMA EditKeepsInv ==
    ASSUME AdmissionInv, NEW m \in Msg, Edit(m)
    PROVE  AdmissionInv'
<1> DEFINE o == Edited(object[m])
<1>1. object[m] \in Object /\ ObjectsSound
  BY DEF AdmissionInv, AdmissionTypeOK
<1>2. object[m].version < MaxVersion /\ Changes(m, o) /\ requested' = requested
  BY DEF Edit
<1>3. o = [object[m] EXCEPT !.version = object[m].version + 1,
                            !.packedValid = FALSE]
  BY DEF Edited
<1>4. o \in Object /\ ~o.packedValid /\ o.stampCost = object[m].stampCost
      /\ o.stampValid = object[m].stampValid /\ o.stamp = object[m].stamp
  <2>1. object[m].version + 1 \in 0..MaxVersion
    BY <1>1, <1>2, AdmissionAssumption DEF Object
  <2> HIDE DEF o
  <2> QED
    BY <1>1, <1>3, <2>1 DEF Object
<1>5. SoundObject(m, o, m \in requested', Open(m), owed[m])
  BY <1>1, <1>2, <1>4, ObjectsAreSound DEF SoundObject
<1> QED
  BY <1>2, <1>4, <1>5, PreparationKeepsInv

LEMMA PackEarlyKeepsInv ==
    ASSUME AdmissionInv, NEW m \in Msg, PackEarly(m)
    PROVE  AdmissionInv'
<1> DEFINE o == Packed(m, object[m])
<1>1. object[m] \in Object /\ ObjectsSound
  BY DEF AdmissionInv, AdmissionTypeOK
<1>2. Changes(m, o) /\ requested' = requested
  BY DEF PackEarly
<1>3. SoundObject(m, object[m], m \in requested, Open(m), owed[m])
  BY <1>1, ObjectsAreSound
<1>4. /\ o \in Object /\ o.packedValid
      /\ o.hash = <<TextOf[m], object[m].version>>
      /\ o.packed = [hash |-> o.hash, stamp |-> object[m].stamp]
      /\ o.stamp = object[m].stamp /\ o.version = object[m].version
      /\ o.stampCost = object[m].stampCost
      /\ o.stampValid = object[m].stampValid
  BY <1>1, <1>3, PackedFacts DEF SoundObject
<1>5. SoundObject(m, o, m \in requested', Open(m), owed[m])
  BY <1>2, <1>3, <1>4 DEF SoundObject
<1> QED
  BY <1>2, <1>4, <1>5, PreparationKeepsInv

LEMMA RequestStampKeepsInv ==
    ASSUME AdmissionInv, NEW m \in Msg, RequestStamp(m)
    PROVE  AdmissionInv'
<1>1. object[m] \in Object /\ ObjectsSound
  BY DEF AdmissionInv, AdmissionTypeOK
<1>2. PICK c \in 1..MAX_STAMP_COST :
               Changes(m, [object[m] EXCEPT !.stampCost = c])
  BY DEF RequestStamp
<1> DEFINE o == [object[m] EXCEPT !.stampCost = c]
<1>3. /\ o \in Object /\ o.stampCost = c /\ c > 0
      /\ o.packedValid = object[m].packedValid /\ o.packed = object[m].packed
      /\ o.hash = object[m].hash /\ o.version = object[m].version
      /\ o.stamp = object[m].stamp
  BY <1>1, StampCostsAssumption DEF Object
<1>4. requested' = requested \cup {m}
  BY DEF RequestStamp
<1>5. SoundObject(m, object[m], m \in requested, Open(m), owed[m])
  BY <1>1, ObjectsAreSound
<1>6. SoundObject(m, o, m \in requested', Open(m), owed[m])
  BY <1>3, <1>4, <1>5 DEF SoundObject
<1> QED
  BY <1>2, <1>3, <1>4, <1>6, PreparationKeepsInv

LEMMA GenerateStampKeepsInv ==
    ASSUME AdmissionInv, NEW m \in Msg, GenerateStamp(m)
    PROVE  AdmissionInv'
<1> DEFINE o == WithStamp(m, object[m])
<1>1. object[m] \in Object /\ ObjectsSound
  BY DEF AdmissionInv, AdmissionTypeOK
<1>2. /\ Changes(m, o) /\ requested' = requested \cup {m}
      /\ object[m].stampCost > 0
  BY DEF GenerateStamp
<1>3. SoundObject(m, object[m], m \in requested, Open(m), owed[m])
  BY <1>1, ObjectsAreSound
<1>4. o \in Object /\ ~o.packedValid /\ o.stampCost = object[m].stampCost
  BY <1>1, <1>2, <1>3, WithStampFacts DEF SoundObject
<1>5. SoundObject(m, o, m \in requested', Open(m), owed[m])
  BY <1>2, <1>3, <1>4 DEF SoundObject
<1> QED
  BY <1>2, <1>4, <1>5, PreparationKeepsInv

(* A refusal keeps the invariant when it leaves a sound object: the        *)
(* message was not in the queue, and is none of the accepted ones.         *)
LEMMA RefusalKeepsInv ==
    ASSUME AdmissionInv, NEW m \in Msg, Open(m), NEW o \in Object,
           object' = [object EXCEPT ![m] = o],
           NEW s \in Stamp \cup {NoStamp}, owed' = [owed EXCEPT ![m] = s],
           NEW r \in Result \ {"ACCEPTED"}, Returns(m, r), NothingElse,
           SoundObject(m, o, m \in requested, Open(m)', s)
    PROVE  AdmissionInv'
<1>1. /\ CostsInv /\ AdmissionTypeOK /\ ObjectsSound /\ QueueSound
      /\ AwaitingSound /\ AcceptedIsDurable /\ WaitingIsOutbound
  BY DEF AdmissionInv
<1>2. /\ result' = [result EXCEPT ![m] = r]
      /\ UNCHANGED <<costVars, bridge, requested, queue, awaiting, states,
                     store, admitted>>
      /\ owed' = [owed EXCEPT ![m] = s]
  BY DEF Returns, NothingElse
<1>3. \A k \in Msg : result'[k] = "ACCEPTED" <=> result[k] = "ACCEPTED"
  BY <1>1, <1>2 DEF AdmissionTypeOK, Open
<1>4. CostsInv'
  BY <1>1, <1>2, CostsStutter
<1>5. AdmissionTypeOK'
  BY <1>1, <1>2, <1>4 DEF AdmissionTypeOK, CostsInv
<1>6. ObjectsSound'
  <2> SUFFICES ASSUME NEW k \in Msg
               PROVE  SoundObject(k, object'[k], k \in requested',
                                  Open(k)', owed'[k])
    BY DEF ObjectsSound, SoundObject
  <2>1. CASE k = m
    BY <1>1, <1>2, <2>1 DEF AdmissionTypeOK
  <2>2. CASE k # m
    <3>1. object'[k] = object[k] /\ Open(k)' = Open(k) /\ owed'[k] = owed[k]
      BY <1>1, <1>2, <2>2 DEF AdmissionTypeOK, Open
    <3> QED
      BY <1>1, <1>2, <3>1, ObjectsAreSound DEF SoundObject
  <2> QED
    BY <2>1, <2>2
<1>7. \A i \in 1..Len(queue) : queue[i].msg \in Msg
  <2>1. queue \in Seq(Entry)
    BY <1>1 DEF AdmissionTypeOK
  <2>2. \A i \in 1..Len(queue) : queue[i] \in Entry
    BY <2>1, ElementOfSeq
  <2> QED
    BY <2>2 DEF Entry
<1>8. QueueSound'
  <2>1. \A i \in 1..Len(queue) : owed'[queue[i].msg] = owed[queue[i].msg]
    <3> SUFFICES ASSUME NEW i \in 1..Len(queue)
                 PROVE  owed'[queue[i].msg] = owed[queue[i].msg]
      OBVIOUS
    <3>1. queue[i].msg # m
      BY <1>1 DEF QueueSound, Open
    <3> QED
      BY <1>1, <1>7, <3>1 DEF AdmissionTypeOK
  <2> QED
    BY <1>1, <1>2, <1>3, <1>7, <2>1
    DEF QueueSound, StampedFor, Due, LeftToRouter
<1>9. AwaitingSound'
  BY <1>1, <1>2, <1>3 DEF AwaitingSound
<1>10. AcceptedIsDurable'
  BY <1>1, <1>2 DEF AcceptedIsDurable
<1>11. WaitingIsOutbound'
  <2>1. \A e : {k \in Msg : TextOf[k] = TextOf[e] /\ result'[k] = "ACCEPTED"}
              = {k \in Msg : TextOf[k] = TextOf[e] /\ result[k] = "ACCEPTED"}
    BY <1>3
  <2> QED
    BY <1>1, <1>2, <2>1 DEF WaitingIsOutbound
<1> QED
  BY <1>4, <1>5, <1>6, <1>8, <1>9, <1>10, <1>11 DEF AdmissionInv

(* The record of what was asked and found stays sound when its cost is     *)
(* taken over, and when pack() has put a hash into it and thrown.          *)
LEMMA ThrownIsSound ==
    ASSUME AdmissionInv, NEW m \in Sourceless \cap Msg
    PROVE  LET o == PackThrew(m, WithCost(m))
           IN  /\ o \in Object
               /\ SoundObject(m, o, m \in requested, Open(m)', owed[m])
<1> DEFINE c == WithCost(m)
<1>1. object[m] \in Object /\ ObjectsSound
  BY DEF AdmissionInv, AdmissionTypeOK
<1>2. AnnouncedCost(m) \in 0..MAX_STAMP_COST
  BY AnnouncedCostType DEF AdmissionInv, CostsInv
<1>3. SoundObject(m, object[m], m \in requested, Open(m), owed[m])
  BY <1>1, ObjectsAreSound
<1>4. /\ c \in Object
      /\ c.packedValid => /\ c.hash = <<TextOf[m], c.version>>
                          /\ c.packed = [hash |-> c.hash, stamp |-> c.stamp]
      /\ m \in requested => c.stampCost > 0
  BY <1>1, <1>2, <1>3 DEF WithCost, CostIsAutomatic, SoundObject, Object
<1>5. <<TextOf[m], c.version>> \in Hash
  BY <1>4, HashType DEF Object
<1>6. PackThrew(m, c) = [c EXCEPT !.hash = <<TextOf[m], c.version>>]
  BY DEF PackThrew
<1> HIDE DEF c
<1>7. PackThrew(m, c) \in Object
  BY <1>4, <1>5, <1>6 DEF Object
<1>8. SoundObject(m, PackThrew(m, c), m \in requested, Open(m)', owed[m])
  BY <1>4, <1>6 DEF SoundObject, Object
<1> QED
  BY <1>7, <1>8 DEF c

LEMMA RefusalsKeepInv ==
    ASSUME AdmissionInv, NEW m \in Msg, Open(m),
           \/ RefuseFull(m) \/ RefuseTooCostly(m)
           \/ FailToSign(m) \/ GuardRejects(m)
    PROVE  AdmissionInv'
<1>1. /\ object[m] \in Object /\ object = [object EXCEPT ![m] = object[m]]
      /\ result[m] \in Result /\ ObjectsSound /\ result \in [Msg -> Result]
      /\ owed[m] \in Stamp \cup {NoStamp}
      /\ owed = [owed EXCEPT ![m] = owed[m]]
      /\ CostsTypeOK
  BY DEF AdmissionInv, AdmissionTypeOK, CostsInv
<1>2. SoundObject(m, object[m], m \in requested, Open(m), owed[m])
  BY <1>1, ObjectsAreSound
<1>3. SoundObject(m, object[m], m \in requested, Open(m)', owed[m])
  BY <1>2 DEF SoundObject
<1>4. CASE RefuseFull(m)
  <2>1. /\ object' = [object EXCEPT ![m] = object[m]]
        /\ Returns(m, "QUEUE_FULL") /\ NothingElse
        /\ owed' = [owed EXCEPT ![m] = owed[m]]
    BY <1>1, <1>4 DEF RefuseFull
  <2>2. "QUEUE_FULL" \in Result \ {"ACCEPTED"}
    BY DEF Result
  <2> QED
    BY <1>1, <1>3, <2>1, <2>2, RefusalKeepsInv
<1>5. CASE RefuseTooCostly(m)
  <2>1. /\ object' = [object EXCEPT ![m] = object[m]]
        /\ Returns(m, "THROWN") /\ NothingElse
        /\ owed' = [owed EXCEPT ![m] = owed[m]]
    BY <1>1, <1>5 DEF RefuseTooCostly
  <2>2. "THROWN" \in Result \ {"ACCEPTED"}
    BY DEF Result
  <2> QED
    BY <1>1, <1>3, <2>1, <2>2, RefusalKeepsInv
<1>6. CASE FailToSign(m)
  <2> DEFINE o == PackThrew(m, WithCost(m))
  <2>1. /\ object' = [object EXCEPT ![m] = o]
        /\ Returns(m, "THROWN") /\ NothingElse /\ m \in Sourceless
        /\ owed' = [owed EXCEPT ![m] = owed[m]]
    BY <1>1, <1>6 DEF FailToSign
  <2>2. "THROWN" \in Result \ {"ACCEPTED"}
    BY DEF Result
  <2>3. o \in Object /\ SoundObject(m, o, m \in requested, Open(m)', owed[m])
    BY <2>1, ThrownIsSound
  <2> HIDE DEF o
  <2> QED
    BY <1>1, <2>1, <2>2, <2>3, RefusalKeepsInv
<1>7. CASE GuardRejects(m)
  <2> DEFINE o == Prepared(m)
             s == IF StampIsAutomatic(m)
                  THEN [over |-> o.hash, cost |-> AnnouncedCost(m)]
                  ELSE owed[m]
  <2>1. /\ object' = [object EXCEPT ![m] = o]
        /\ Returns(m, "GUARD_REJECTED") /\ NothingElse
        /\ m \notin Sourceless
        /\ owed' = [owed EXCEPT ![m] = s]
    BY <1>1, <1>7 DEF GuardRejects
  <2>2. "GUARD_REJECTED" \in Result \ {"ACCEPTED"}
    BY DEF Result
  <2>3. /\ o \in Object /\ o.packedValid
        /\ o.version = object[m].version
        /\ o.hash = <<TextOf[m], o.version>>
        /\ o.packed = [hash |-> o.hash, stamp |-> o.stamp]
        /\ m \in requested => o.stampCost > 0
        /\ m \notin requested => OwnStamp(m, o)
    BY <2>1, PreparedFacts
  <2>4. CASE StampIsAutomatic(m)
    <3>1. AnnouncedCost(m) \in 1..MAX_STAMP_COST
      BY <1>1, <2>4, AnnouncedCostType, StampCostsAssumption
      DEF StampIsAutomatic
    <3>2. o.hash \in Hash
      BY <1>1, <2>3, HashType DEF Object
    <3>3. s = [over |-> o.hash, cost |-> AnnouncedCost(m)]
      BY <2>4
    <3> HIDE DEF o, s
    <3>4. s \in Stamp
      BY <3>1, <3>2, <3>3 DEF Stamp
    <3>5. s # NoStamp
      BY <3>4, AdmissionAssumption
    <3>6. m \notin requested => o.stampCost > 0 /\ o.stamp = s
      BY <2>3, <2>4, <3>3 DEF OwnStamp
    <3>7. SoundObject(m, o, m \in requested, Open(m)', s)
      BY <2>3, <3>5, <3>6 DEF SoundObject
    <3> QED
      BY <2>1, <2>2, <2>3, <3>4, <3>7, RefusalKeepsInv
  <2>5. CASE ~StampIsAutomatic(m)
    <3>1. s = owed[m]
      BY <2>5
    <3> HIDE DEF o, s
    <3>2. SoundObject(m, o, m \in requested, Open(m)', s)
      BY <2>3, <2>5, <3>1 DEF SoundObject, OwnStamp
    <3> QED
      BY <1>1, <2>1, <2>2, <2>3, <3>1, <3>2, RefusalKeepsInv
  <2> QED
    BY <2>4, <2>5
<1> QED
  BY <1>4, <1>5, <1>6, <1>7

(* An accepted message comes last in the queue, with bytes of its own.     *)
LEMMA AcceptKeepsInv ==
    ASSUME AdmissionInv, NEW m \in Msg, Open(m), Accept(m)
    PROVE  AdmissionInv'
<1> DEFINE o == Prepared(m)
           e == EntryOf(m)
           n == Len(queue) + 1
<1>1. /\ CostsInv /\ AdmissionTypeOK /\ ObjectsSound /\ QueueSound
      /\ AwaitingSound /\ AcceptedIsDurable /\ WaitingIsOutbound
  BY DEF AdmissionInv
<1>2. /\ Len(queue) < PENDING_OUTBOUND_SIZE
      /\ m \notin Sourceless
      /\ object' = [object EXCEPT ![m] = [o EXCEPT !.state = "OUTBOUND"]]
      /\ queue' = Append(queue, e)
      /\ result' = [result EXCEPT ![m] = "ACCEPTED"]
      /\ UNCHANGED <<costVars, bridge, requested, awaiting, owed>>
  <2>1. Len(queue) \in Nat
    BY <1>1, LenProperties DEF AdmissionTypeOK
  <2> QED
    BY <2>1, AdmissionAssumption DEF Accept, Full, Returns
<1>3. /\ o \in Object /\ o.packedValid
      /\ o.version = object[m].version
      /\ o.hash = <<TextOf[m], o.version>>
      /\ o.packed = [hash |-> o.hash, stamp |-> o.stamp]
      /\ m \in requested => o.stampCost > 0
      /\ m \notin requested => OwnStamp(m, o)
  BY <1>2, PreparedFacts
<1>4. o.hash \in Hash /\ o.hash[1] = TextOf[m]
  BY <1>3, HashType DEF Object
<1>5. /\ e.msg = m /\ e.bytes = o.packed /\ e.version = object[m].version
      /\ e.requested = (m \in requested) /\ e.announced = AnnouncedCost(m)
      /\ e \in Entry
  <2>1. o.packed \in Bytes
    BY <1>3, <1>4 DEF Bytes, Object
  <2>2. object[m].version \in 0..MaxVersion
    BY <1>1 DEF AdmissionTypeOK, Object
  <2>3. AnnouncedCost(m) \in 0..MAX_STAMP_COST
    BY <1>1, AnnouncedCostType DEF CostsInv
  <2> HIDE DEF o
  <2> QED
    BY <2>1, <2>2, <2>3 DEF EntryOf, Entry, o
<1>6. IF m \in Guarded
      THEN /\ states' = [states EXCEPT ![o.hash] = "OUTBOUND"]
           /\ store' = [store EXCEPT ![o.hash] = "OUTBOUND"]
           /\ admitted' = admitted \cup {o.hash}
      ELSE UNCHANGED <<states, store, admitted>>
  BY DEF Accept, GuardSaves
<1>7. /\ queue \in Seq(Entry) /\ Len(queue) \in Nat
      /\ queue' \in Seq(Entry) /\ Len(queue') = n
      /\ \A i \in 1..Len(queue) : queue'[i] = queue[i]
      /\ queue'[n] = e
      /\ \A i \in 1..Len(queue) : queue[i] \in Entry
  BY <1>1, <1>2, <1>5, AppendProperties, ElementOfSeq, LenProperties
     DEF AdmissionTypeOK
<1> HIDE DEF o, e
<1>8. /\ result'[m] = "ACCEPTED" /\ result[m] # "ACCEPTED"
      /\ \A k \in Msg \ {m} : result'[k] = result[k]
  BY <1>1, <1>2 DEF AdmissionTypeOK, Open
<1>9. \A i \in 1..Len(queue) : queue[i].msg \in Msg \ {m}
  BY <1>1, <1>7, <1>8 DEF QueueSound, Entry
<1>10. CostsInv'
  BY <1>1, <1>2, CostsStutter
<1>11. AdmissionTypeOK'
  <2>1. object' \in [Msg -> Object]
    BY <1>1, <1>2, <1>3 DEF AdmissionTypeOK, Object, State
  <2>2. /\ states' \in [Hash -> State \cup {"unknown"}]
        /\ store' \in [Hash -> State \cup {"absent"}]
        /\ admitted' \subseteq Hash
    BY <1>1, <1>4, <1>6 DEF AdmissionTypeOK, State
  <2>3. Len(queue') <= PENDING_OUTBOUND_SIZE
    BY <1>2, <1>7, AdmissionAssumption
  <2> QED
    BY <1>1, <1>2, <1>7, <1>10, <2>1, <2>2, <2>3
       DEF AdmissionTypeOK, CostsInv, Result
<1>12. ObjectsSound'
  <2> SUFFICES ASSUME NEW k \in Msg
               PROVE  SoundObject(k, object'[k], k \in requested',
                                  Open(k)', owed'[k])
    BY DEF ObjectsSound, SoundObject
  <2>1. CASE k = m
    <3>1. object'[m] = [o EXCEPT !.state = "OUTBOUND"] /\ Open(m)' = FALSE
      BY <1>1, <1>2, <1>8 DEF AdmissionTypeOK, Open
    <3> QED
      <4>1. o \in Object /\ object'[m] = [o EXCEPT !.state = "OUTBOUND"]
        BY <1>3, <3>1
      <4>2. /\ object'[m].packedValid = o.packedValid
            /\ object'[m].hash = o.hash /\ object'[m].packed = o.packed
            /\ object'[m].version = o.version
            /\ object'[m].stampCost = o.stampCost
        BY <4>1 DEF Object
      <4>3. requested' = requested
        BY <1>2
      <4> QED
        BY <1>3, <2>1, <3>1, <4>2, <4>3 DEF SoundObject
  <2>2. CASE k # m
    <3>1. object'[k] = object[k] /\ Open(k)' = Open(k) /\ owed'[k] = owed[k]
      BY <1>1, <1>2, <1>8, <2>2 DEF AdmissionTypeOK, Open
    <3> QED
      BY <1>1, <1>2, <3>1, ObjectsAreSound DEF SoundObject
  <2> QED
    BY <2>1, <2>2
<1>13. QueueSound'
  <2>1. ASSUME NEW i \in 1..n
        PROVE  /\ result'[queue'[i].msg] = "ACCEPTED"
               /\ queue'[i].bytes.hash
                    = <<TextOf[queue'[i].msg], queue'[i].version>>
               /\ StampedFor(queue'[i])
    <3>1. CASE i = n
      <4>1. e.bytes.hash = <<TextOf[m], object[m].version>>
        BY <1>3, <1>5
      <4>2. StampedFor(e)
        <5> SUFFICES ASSUME LeftToRouter(e), Due(e).cost > 0
                     PROVE  /\ e.bytes.stamp # NoStamp
                            /\ e.bytes.stamp.over = Due(e).over
                            /\ e.bytes.stamp.cost >= Due(e).cost
          BY DEF StampedFor
        <5>1. m \notin requested /\ m \notin Propagated
          BY <1>5 DEF LeftToRouter
        <5>2. e.bytes.stamp = o.stamp /\ e.bytes.hash = o.hash
          BY <1>3, <1>5
        <5>3. CASE owed[m] = NoStamp
          <6>1. Due(e) = [over |-> o.hash, cost |-> AnnouncedCost(m)]
            BY <1>5, <5>2, <5>3 DEF Due
          <6>2. AnnouncedCost(m) \in 1..MAX_STAMP_COST
            BY <1>1, <6>1, AnnouncedCostType, StampCostsAssumption
            DEF CostsInv
          <6>3. StampIsAutomatic(m)
            BY <1>1, <1>2, <5>1, <5>3, <6>2, AutomaticFacts DEF CostsInv
          <6>4. o.stamp = Due(e)
            BY <1>3, <5>1, <6>1, <6>3 DEF OwnStamp
          <6>5. o.stamp \in Stamp
            BY <1>4, <6>1, <6>2, <6>4 DEF Stamp
          <6> QED
            BY <5>2, <6>1, <6>2, <6>4, <6>5, AdmissionAssumption
        <5>4. CASE owed[m] # NoStamp
          <6>1. Due(e) = owed[m] /\ owed[m] \in Stamp
            BY <1>1, <1>5, <5>4 DEF Due, AdmissionTypeOK
          <6>2. ~StampIsAutomatic(m)
            BY <1>1, <1>2, <5>1, <5>4, AutomaticFacts DEF CostsInv
          <6>3. o.stamp = owed[m]
            BY <1>3, <5>1, <5>4, <6>2 DEF OwnStamp
          <6>4. owed[m].cost \in Int
            BY <6>1, StampCostsAssumption DEF Stamp
          <6> QED
            BY <5>2, <5>4, <6>1, <6>3, <6>4
        <5> QED
          BY <5>3, <5>4
      <4> QED
        BY <1>5, <1>7, <1>8, <3>1, <4>1, <4>2
    <3>2. CASE i # n
      <4>1. i \in 1..Len(queue) /\ queue'[i] = queue[i]
        BY <1>7, <3>2
      <4> QED
        BY <1>1, <1>8, <1>9, <4>1 DEF QueueSound
    <3> QED
      BY <3>1, <3>2
  <2>2. ASSUME NEW i \in 1..n, NEW j \in 1..n, queue'[i].msg = queue'[j].msg
        PROVE  i = j
    <3>1. CASE i # n /\ j # n
      BY <1>1, <1>7, <2>2, <3>1 DEF QueueSound
    <3>2. CASE i = n \/ j = n
      BY <1>5, <1>7, <1>9, <2>2, <3>2
    <3> QED
      BY <3>1, <3>2
  <2> QED
    BY <1>2, <1>7, <2>1, <2>2 DEF QueueSound, StampedFor, Due, LeftToRouter
<1>14. AwaitingSound'
  <2> SUFFICES ASSUME NEW h \in awaiting
               PROVE  \E k \in Msg :
                          /\ result'[k] = "ACCEPTED"
                          /\ TextOf[k] = h[1]
                          /\ \A i \in 1..Len(queue') : queue'[i].msg # k
    BY <1>2 DEF AwaitingSound
  <2>1. PICK k \in Msg : /\ result[k] = "ACCEPTED"
                         /\ TextOf[k] = h[1]
                         /\ \A i \in 1..Len(queue) : queue[i].msg # k
    BY <1>1 DEF AwaitingSound
  <2>2. k # m /\ result'[k] = "ACCEPTED"
    BY <1>8, <2>1
  <2>3. \A i \in 1..Len(queue') : queue'[i].msg # k
    BY <1>5, <1>7, <2>1, <2>2
  <2> QED
    BY <2>1, <2>2, <2>3
<1>15. AcceptedIsDurable'
  BY <1>1, <1>4, <1>6 DEF AcceptedIsDurable, AdmissionTypeOK
<1>16. WaitingIsOutbound'
  <2> DEFINE Twins(q) == {k \in Msg : TextOf[k] = TextOf[q.msg]
                                      /\ result[k] = "ACCEPTED"}
             NewTwins(q) == {k \in Msg : TextOf[k] = TextOf[q.msg]
                                         /\ result'[k] = "ACCEPTED"}
  <2> SUFFICES ASSUME NEW i \in 1..Len(queue'), queue'[i].msg \in Guarded,
                      NewTwins(queue'[i]) = {queue'[i].msg}
               PROVE  states'[queue'[i].bytes.hash] = "OUTBOUND"
    BY DEF WaitingIsOutbound
  <2>0. states \in [Hash -> State \cup {"unknown"}]
    BY <1>1 DEF AdmissionTypeOK
  <2>1. CASE i = n
    <3>1. queue'[i].bytes.hash = o.hash /\ m \in Guarded
      BY <1>3, <1>5, <1>7, <2>1
    <3> QED
      BY <1>4, <1>6, <2>0, <3>1
  <2>2. CASE i # n
    <3>1. i \in 1..Len(queue) /\ queue'[i] = queue[i]
      BY <1>7, <2>2
    <3>2. Twins(queue[i]) = {queue[i].msg}
      <4>1. queue[i].msg \in Twins(queue[i])
        BY <1>1, <1>9, <3>1 DEF QueueSound
      <4>2. Twins(queue[i]) \subseteq NewTwins(queue[i])
        BY <1>8
      <4> QED
        BY <3>1, <4>1, <4>2
    <3>3. states[queue[i].bytes.hash] = "OUTBOUND"
      BY <1>1, <3>1, <3>2 DEF WaitingIsOutbound
    <3>4. CASE m \in Guarded
      <4>1. states' = [states EXCEPT ![o.hash] = "OUTBOUND"]
        BY <1>6, <3>4
      <4>2. queue[i].bytes.hash \in Hash
        BY <1>7, <3>1 DEF Entry, Bytes
      <4> QED
        BY <2>0, <3>1, <3>3, <4>1, <4>2
    <3>5. CASE m \notin Guarded
      BY <1>6, <3>1, <3>3, <3>5
    <3> QED
      BY <3>4, <3>5
  <2> QED
    BY <2>1, <2>2
<1> QED
  BY <1>10, <1>11, <1>12, <1>13, <1>14, <1>15, <1>16 DEF AdmissionInv

(* What a report leaves of the maps and of what they promise.              *)
LEMMA ReportFacts ==
    ASSUME AdmissionInv, NEW hash \in Hash, NEW s \in State, Report(hash, s),
           admitted' = admitted
    PROVE  /\ states' \in [Hash -> State \cup {"unknown"}]
           /\ store' \in [Hash -> State \cup {"absent"}]
           /\ \A h \in Hash : h # hash => states'[h] = states[h]
           /\ AcceptedIsDurable'
<1>1. /\ states \in [Hash -> State \cup {"unknown"}]
      /\ store \in [Hash -> State \cup {"absent"}]
      /\ admitted \subseteq Hash /\ AcceptedIsDurable
  BY DEF AdmissionInv, AdmissionTypeOK
<1>2. s # "unknown" /\ s # "absent"
  BY DEF State
<1>3. CASE bridge
  <2>1. states' = [states EXCEPT ![hash] = s]
    BY <1>3 DEF Report
  <2>2. \/ store' = store
        \/ store' = [store EXCEPT ![hash] = s]
    BY <1>3 DEF Report
  <2> QED
    BY <1>1, <1>2, <2>1, <2>2 DEF AcceptedIsDurable
<1>4. CASE ~bridge
  BY <1>1, <1>4 DEF Report, AcceptedIsDurable
<1> QED
  BY <1>3, <1>4

(* A report about a hash whose message has left the queue does not touch   *)
(* what is reported of messages that wait, unless they have a twin.        *)
LEMMA ReportKeepsWaiting ==
    ASSUME AdmissionInv, NEW hash \in Hash, NEW s \in State, Report(hash, s),
           UNCHANGED <<result, admitted>>,
           NEW q \in Seq(Entry),
           \A i \in 1..Len(q) : \E j \in 1..Len(queue) : q[i] = queue[j],
           \E m \in Msg : /\ result[m] = "ACCEPTED"
                          /\ TextOf[m] = hash[1]
                          /\ \A i \in 1..Len(q) : q[i].msg # m,
           queue' = q
    PROVE  WaitingIsOutbound'
<1> DEFINE Twins(e) == {k \in Msg : TextOf[k] = TextOf[e.msg]
                                    /\ result[k] = "ACCEPTED"}
<1> SUFFICES ASSUME NEW i \in 1..Len(q), q[i].msg \in Guarded,
                    Twins(q[i]) = {q[i].msg}
             PROVE  states'[q[i].bytes.hash] = "OUTBOUND"
  BY DEF WaitingIsOutbound
<1>1. PICK j \in 1..Len(queue) : q[i] = queue[j]
  OBVIOUS
<1>2. queue[j] \in Entry
  BY ElementOfSeq DEF AdmissionInv, AdmissionTypeOK
<1>3. states[queue[j].bytes.hash] = "OUTBOUND"
  BY <1>1 DEF AdmissionInv, WaitingIsOutbound
<1>4. queue[j].bytes.hash[1] = TextOf[queue[j].msg]
  BY DEF AdmissionInv, QueueSound
<1>5. queue[j].bytes.hash # hash
  <2> SUFFICES ASSUME queue[j].bytes.hash = hash
               PROVE  FALSE
    OBVIOUS
  <2>1. PICK m \in Msg : /\ result[m] = "ACCEPTED"
                         /\ TextOf[m] = hash[1]
                         /\ \A k \in 1..Len(q) : q[k].msg # m
    OBVIOUS
  <2>2. m \in Twins(q[i]) /\ m # q[i].msg
    BY <1>1, <1>4, <2>1
  <2> QED
    BY <2>2
<1>6. queue[j].bytes.hash \in Hash
  BY <1>2 DEF Entry, Bytes
<1> QED
  BY <1>1, <1>3, <1>5, <1>6, ReportFacts

LEMMA ConcludeKeepsInv ==
    ASSUME AdmissionInv, NEW s \in {"SENT", "FAILED"}, Conclude(s)
    PROVE  AdmissionInv'
<1> DEFINE q == Tail(queue)
           e == Head(queue)
           hash == Head(queue).bytes.hash
<1>1. /\ CostsInv /\ AdmissionTypeOK /\ ObjectsSound /\ QueueSound
      /\ AwaitingSound
  BY DEF AdmissionInv
<1>2. /\ queue # <<>> /\ queue' = q
      /\ awaiting' = awaiting \/ awaiting' = awaiting \cup {hash}
      /\ Report(hash, s)
      /\ UNCHANGED <<costVars, bridge, object, requested, result, admitted,
                     owed>>
  BY DEF Conclude
<1>3. /\ queue \in Seq(Entry) /\ Len(queue) \in Nat \ {0}
      /\ e \in Entry /\ e = queue[1]
      /\ q \in Seq(Entry) /\ Len(q) = Len(queue) - 1
      /\ \A i \in 1..Len(q) : q[i] = queue[i + 1]
  <2>1. queue \in Seq(Entry) /\ queue # <<>>
    BY <1>1, <1>2 DEF AdmissionTypeOK
  <2>2. Len(queue) \in Nat \ {0}
    BY <2>1, LenProperties, EmptySeq
  <2> QED
    BY <2>1, <2>2, HeadTailProperties
<1>4. s \in State /\ hash \in Hash
  BY <1>3 DEF State, Entry, Bytes
<1>5. /\ e.msg \in Msg /\ result[e.msg] = "ACCEPTED"
      /\ TextOf[e.msg] = hash[1]
      /\ \A i \in 1..Len(q) : q[i].msg # e.msg
  BY <1>1, <1>3 DEF QueueSound, Entry
<1> HIDE DEF q, e, hash
<1>6. CostsInv'
  BY <1>1, <1>2, CostsStutter
<1>7. AdmissionTypeOK'
  <2>1. Len(queue') <= PENDING_OUTBOUND_SIZE
    BY <1>1, <1>2, <1>3, AdmissionAssumption DEF AdmissionTypeOK
  <2> QED
    BY <1>1, <1>2, <1>3, <1>4, <1>6, <2>1, ReportFacts
       DEF AdmissionTypeOK, CostsInv
<1>8. ObjectsSound'
  BY <1>1, <1>2 DEF ObjectsSound, Open
<1>9. QueueSound'
  <2>1. \A i \in 1..Len(q) : i + 1 \in 1..Len(queue)
    BY <1>3
  <2>2. ASSUME NEW i \in 1..Len(q), NEW j \in 1..Len(q), q[i].msg = q[j].msg
        PROVE  i = j
    <3>1. i + 1 \in 1..Len(queue) /\ q[i] = queue[i + 1]
      BY <1>3, <2>1
    <3>2. j + 1 \in 1..Len(queue) /\ q[j] = queue[j + 1]
      BY <1>3, <2>1
    <3>3. i + 1 = j + 1
      BY <1>1, <2>2, <3>1, <3>2 DEF QueueSound
    <3> QED
      BY <3>3
  <2>3. \A i \in 1..Len(q) :
            /\ result[q[i].msg] = "ACCEPTED"
            /\ q[i].bytes.hash = <<TextOf[q[i].msg], q[i].version>>
            /\ StampedFor(q[i])
    <3> SUFFICES ASSUME NEW i \in 1..Len(q)
                 PROVE  /\ result[q[i].msg] = "ACCEPTED"
                        /\ q[i].bytes.hash = <<TextOf[q[i].msg], q[i].version>>
                        /\ StampedFor(q[i])
      OBVIOUS
    <3>1. i + 1 \in 1..Len(queue) /\ q[i] = queue[i + 1]
      BY <1>3, <2>1
    <3>2. \A j \in 1..Len(queue) :
              /\ result[queue[j].msg] = "ACCEPTED"
              /\ queue[j].bytes.hash
                     = <<TextOf[queue[j].msg], queue[j].version>>
              /\ StampedFor(queue[j])
      BY <1>1 DEF QueueSound
    <3> QED
      BY <3>1, <3>2
  <2> QED
    BY <1>2, <2>2, <2>3 DEF QueueSound, StampedFor, Due, LeftToRouter
<1>10. AwaitingSound'
  <2>1. \A m \in Msg : (\A i \in 1..Len(queue) : queue[i].msg # m)
                           => \A i \in 1..Len(q) : q[i].msg # m
    BY <1>3
  <2> QED
    BY <1>1, <1>2, <1>5, <2>1 DEF AwaitingSound
<1>11. AcceptedIsDurable'
  BY <1>2, <1>4, ReportFacts
<1>12. WaitingIsOutbound'
  <2>1. \A i \in 1..Len(q) : \E j \in 1..Len(queue) : q[i] = queue[j]
    BY <1>3
  <2> QED
    BY <1>2, <1>3, <1>4, <1>5, <2>1, ReportKeepsWaiting
<1> QED
  BY <1>6, <1>7, <1>8, <1>9, <1>10, <1>11, <1>12 DEF AdmissionInv

LEMMA DeliveredKeepsInv ==
    ASSUME AdmissionInv, NEW hash \in awaiting, Delivered(hash)
    PROVE  AdmissionInv'
<1>1. /\ CostsInv /\ AdmissionTypeOK /\ ObjectsSound /\ QueueSound
      /\ AwaitingSound
  BY DEF AdmissionInv
<1>2. /\ awaiting' = awaiting \ {hash}
      /\ Report(hash, "DELIVERED")
      /\ UNCHANGED <<costVars, bridge, object, requested, queue, result,
                     admitted, owed>>
  BY DEF Delivered
<1>3. "DELIVERED" \in State /\ hash \in Hash
  BY <1>1 DEF State, AdmissionTypeOK
<1>4. CostsInv'
  BY <1>1, <1>2, CostsStutter
<1>5. AdmissionTypeOK'
  BY <1>1, <1>2, <1>3, <1>4, ReportFacts DEF AdmissionTypeOK, CostsInv
<1>6. ObjectsSound' /\ QueueSound' /\ AwaitingSound'
  BY <1>1, <1>2 DEF ObjectsSound, Open, QueueSound, StampedFor, Due,
                    LeftToRouter, AwaitingSound
<1>7. AcceptedIsDurable'
  BY <1>2, <1>3, ReportFacts
<1>8. WaitingIsOutbound'
  <2>1. \E m \in Msg : /\ result[m] = "ACCEPTED"
                       /\ TextOf[m] = hash[1]
                       /\ \A i \in 1..Len(queue) : queue[i].msg # m
    BY <1>1 DEF AwaitingSound
  <2>2. queue \in Seq(Entry) /\ queue' = queue
    BY <1>1, <1>2 DEF AdmissionTypeOK
  <2> QED
    BY <1>2, <1>3, <2>1, <2>2, ReportKeepsWaiting
<1> QED
  BY <1>4, <1>5, <1>6, <1>7, <1>8 DEF AdmissionInv

LEMMA SteadyKeepsInv ==
    ASSUME AdmissionInv, CostsInv',
           UNCHANGED <<bridge, object, requested, queue, awaiting, states,
                       store, result, admitted, owed>>
    PROVE  AdmissionInv'
  BY DEF AdmissionInv, AdmissionTypeOK, CostsInv, ObjectsSound, Open,
         QueueSound, StampedFor, Due, LeftToRouter, AwaitingSound,
         AcceptedIsDurable, WaitingIsOutbound

-----------------------------------------------------------------------------
(* The specification.                                                      *)

LEMMA AdmissionInitInv == AdmissionInit => AdmissionInv
<1> SUFFICES ASSUME AdmissionInit
             PROVE  AdmissionInv
  OBVIOUS
<1>1. CostsInv
  BY CostsInitInv DEF AdmissionInit
<1>2. NewObject \in Object
  BY AdmissionAssumption, StampCostsAssumption DEF NewObject, Object, State
<1>3. queue = <<>> /\ queue \in Seq(Entry) /\ Len(queue) = 0
  BY EmptySeq DEF AdmissionInit
<1>4. AdmissionTypeOK
  BY <1>1, <1>2, <1>3, AdmissionAssumption
     DEF AdmissionInit, AdmissionTypeOK, CostsInv, Result
<1>5. ObjectsSound
  BY DEF AdmissionInit, ObjectsSound, NewObject
<1>6. QueueSound /\ AwaitingSound /\ AcceptedIsDurable /\ WaitingIsOutbound
  BY <1>3 DEF AdmissionInit, QueueSound, AwaitingSound, AcceptedIsDurable,
              WaitingIsOutbound
<1> QED
  BY <1>1, <1>4, <1>5, <1>6 DEF AdmissionInv

LEMMA AdmissionStepKeepsInv ==
    AdmissionInv /\ [AdmissionNext]_admissionVars => AdmissionInv'
<1> SUFFICES ASSUME AdmissionInv, [AdmissionNext]_admissionVars
             PROVE  AdmissionInv'
  OBVIOUS
<1>1. ASSUME NEW m \in Msg, Edit(m)
      PROVE  AdmissionInv'
  BY <1>1, EditKeepsInv
<1>2. ASSUME NEW m \in Msg, PackEarly(m)
      PROVE  AdmissionInv'
  BY <1>2, PackEarlyKeepsInv
<1>3. ASSUME NEW m \in Msg, RequestStamp(m)
      PROVE  AdmissionInv'
  BY <1>3, RequestStampKeepsInv
<1>4. ASSUME NEW m \in Msg, GenerateStamp(m)
      PROVE  AdmissionInv'
  BY <1>4, GenerateStampKeepsInv
<1>5. ASSUME NEW m \in Msg, TryHandleOutbound(m)
      PROVE  AdmissionInv'
  <2>1. Open(m)
    BY <1>5 DEF TryHandleOutbound, Held, Open
  <2>2. CASE Accept(m)
    BY <2>1, <2>2, AcceptKeepsInv
  <2>3. CASE \/ RefuseFull(m) \/ RefuseTooCostly(m)
             \/ FailToSign(m) \/ GuardRejects(m)
    BY <2>1, <2>3, RefusalsKeepInv
  <2> QED
    BY <1>5, <2>2, <2>3 DEF TryHandleOutbound
<1>6. ASSUME NEW p \in Peer, NEW d \in AppData, Announce(p, d)
      PROVE  AdmissionInv'
  <2>1. CostsInv'
    BY <1>6, AnnounceKeepsInv DEF Announce, AdmissionInv
  <2> QED
    BY <1>6, <2>1, SteadyKeepsInv DEF Announce
<1>7. ASSUME NEW s \in {"SENT", "FAILED"}, Conclude(s)
      PROVE  AdmissionInv'
  BY <1>7, ConcludeKeepsInv
<1>8. ASSUME NEW hash \in awaiting, Delivered(hash)
      PROVE  AdmissionInv'
  BY <1>8, DeliveredKeepsInv
<1>9. CASE UNCHANGED admissionVars
  <2>1. CostsInv'
    BY <1>9, CostsStutter DEF admissionVars, AdmissionInv
  <2> QED
    BY <1>9, <2>1, SteadyKeepsInv DEF admissionVars
<1> QED
  BY <1>1, <1>2, <1>3, <1>4, <1>5, <1>6, <1>7, <1>8, <1>9 DEF AdmissionNext

LEMMA AdmissionInvariant == AdmissionSpec => []AdmissionInv
  BY AdmissionInitInv, AdmissionStepKeepsInv, PTL DEF AdmissionSpec

(* Every object, queued copy, reported state and stored state has its      *)
(* type, and the queue never outgrows its pool.                            *)
THEOREM AdmissionTypes == AdmissionSpec => []AdmissionTypeOK
<1>1. AdmissionInv => AdmissionTypeOK
  BY DEF AdmissionInv
<1> QED
  BY <1>1, AdmissionInvariant, PTL

(* The router uses the cost its peer has announced last, whatever messages *)
(* are submitted in between and whoever is evicted.                        *)
THEOREM CostsStayLatest == AdmissionSpec => []CostsAreLatest
<1>1. AdmissionInv => CostsAreLatest
  BY DEF AdmissionInv, CostsInv
<1> QED
  BY <1>1, AdmissionInvariant, PTL

(* A full table forgets the peer that has been silent longest.             *)
THEOREM SilentGoFirst == AdmissionSpec => []SilentAreForgottenFirst
<1>1. AdmissionInv => SilentAreForgottenFirst
  BY DEF AdmissionInv, CostsInv
<1> QED
  BY <1>1, AdmissionInvariant, PTL

(* A message left to the router is queued with a stamp over its hash worth *)
(* the cost its peer last announced, whatever its caller did with it       *)
(* before; or with the one the router had made when a guard refused it     *)
(* (try_handle_outbound()).                                                *)
THEOREM QueuedWithItsStamp == AdmissionSpec => []AutomaticStampsHold
<1>1. AdmissionInv => AutomaticStampsHold
  BY DEF AdmissionInv, QueueSound, StampedFor, Due, AutomaticStampsHold
<1> QED
  BY <1>1, AdmissionInvariant, PTL

(* No edit is lost: what is queued is the message as last edited.          *)
THEOREM QueuedAsEdited == AdmissionSpec => []AcceptedIsCurrent
<1>1. AdmissionInv => AcceptedIsCurrent
  BY DEF AdmissionInv, QueueSound, AcceptedIsCurrent
<1> QED
  BY <1>1, AdmissionInvariant, PTL

(* An accepted message of the bridge is stored and its state known, after  *)
(* any number of refused, failed and repeated submissions.                 *)
THEOREM StoredBeforeAccepted == AdmissionSpec => []AcceptedIsDurable
<1>1. AdmissionInv => AcceptedIsDurable
  BY DEF AdmissionInv
<1> QED
  BY <1>1, AdmissionInvariant, PTL

(* A message that waits and has no accepted twin is reported as outbound.  *)
THEOREM ReportedWhileWaiting == AdmissionSpec => []WaitingIsOutbound
<1>1. AdmissionInv => WaitingIsOutbound
  BY DEF AdmissionInv
<1> QED
  BY <1>1, AdmissionInvariant, PTL

(* No refusal leaves a trace in the queue, the reported states or the      *)
(* store, and a message the full queue refused is as it was.               *)
THEOREM RefusalsLeaveNoTrace == AdmissionSpec => RefusalLeavesNoTrace
<1> DEFINE NoTrace(m) ==
               result'[m] # result[m] /\ result'[m] # "ACCEPTED" =>
                   /\ UNCHANGED <<queue, states, store>>
                   /\ result'[m] = "QUEUE_FULL" => object'[m] = object[m]
<1>1. AdmissionTypeOK /\ [AdmissionNext]_admissionVars
          => [\A m \in Msg : NoTrace(m)]_admissionVars
  <2> SUFFICES ASSUME AdmissionTypeOK, AdmissionNext, NEW m \in Msg
               PROVE  NoTrace(m)
    OBVIOUS
  <2>1. result \in [Msg -> Result]
    BY DEF AdmissionTypeOK
  <2>2. ASSUME NEW k \in Msg, TryHandleOutbound(k)
        PROVE  NoTrace(m)
    <3>1. CASE Accept(k)
      BY <2>1, <3>1 DEF Accept, Returns
    <3>2. CASE RefuseFull(k)
      BY <3>2 DEF RefuseFull, NothingElse
    <3>3. CASE RefuseTooCostly(k) \/ FailToSign(k)
      BY <2>1, <3>3 DEF RefuseTooCostly, FailToSign, Returns, NothingElse
    <3>4. CASE GuardRejects(k)
      BY <2>1, <3>4 DEF GuardRejects, Returns, NothingElse
    <3> QED
      BY <2>2, <3>1, <3>2, <3>3, <3>4 DEF TryHandleOutbound
  <2>3. CASE UNCHANGED result
    BY <2>3
  <2>4. CASE \E k \in Msg : TryHandleOutbound(k)
    BY <2>2, <2>4
  <2> QED
    BY <2>3, <2>4 DEF AdmissionNext, Edit, PackEarly, RequestStamp,
       GenerateStamp, Changes, Announce, Conclude, Delivered
<1> QED
  BY <1>1, AdmissionTypes, PTL DEF AdmissionSpec, RefusalLeavesNoTrace
=============================================================================

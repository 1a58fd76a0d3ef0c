----------------------- MODULE PropagationNodesProofs -----------------------
(***************************************************************************)
(* Proofs about PropagationNodes, for any nodes, pool size and timeout.    *)
(*                                                                         *)
(* The invariant is the conjunction of what is promised: that a node has   *)
(* one slot, with its latest announce, is what makes a refresh find it and *)
(* a removal make it unlisted.  The choice of the best node is about one   *)
(* state, and goes over the slots of the scan; instead of an induction the *)
(* proof takes the first slot at which it would fail.                      *)
(***************************************************************************)
EXTENDS PropagationNodes, TLAPS, NaturalsInduction, WellFoundedInduction

(* A non-empty set of natural numbers has a least element.                 *)
LEMMA LeastElement ==
    ASSUME NEW T, T \subseteq Nat, T # {}
    PROVE  \E x \in T : \A y \in T : x <= y
<1>1. PICK x \in T : \A y \in T : ~(<<y, x>> \in OpToRel(<, Nat))
  BY NatLessThanWellFounded, WFMin, Zenon
<1>2. OpToRel(<, Nat) = {ss \in Nat \X Nat : ss[1] < ss[2]}
  BY Zenon DEF OpToRel
<1>3. \A y \in T : ~(y < x)
  BY <1>1, <1>2
<1> QED
  BY <1>3

(* A set of slots that is not empty has a first one.                       *)
LEMMA FirstSlot ==
    ASSUME NEW S, S \subseteq Slot, S # {}
    PROVE  FirstOf(S) \in S
<1>1. S \subseteq Nat
  BY NodesAssumption DEF Slot
<1>2. \E i \in S : \A j \in S : i <= j
  BY <1>1, LeastElement, Zenon
<1> QED
  BY <1>2 DEF FirstOf

LEMMA FreeSlotIsNone == FreeSlot \notin Info /\ FreeSlot.node = NoNode
  BY NodesAssumption DEF FreeSlot, Info

NodesInv ==
    /\ NodesTypeOK
    /\ ListedIsLatest
    /\ FreshIsListed
    /\ ListenerIsCurrent

-----------------------------------------------------------------------------
(* The actions.                                                            *)

LEMMA AnnounceKeepsNodes ==
    ASSUME NodesInv, NEW n \in Node, NEW d \in AppData, NEW h \in HopCounts,
           ReceivedAnnounce(n, d, h)
    PROVE  NodesInv'
<1> DEFINE info == [node |-> n, enabled |-> d = "enabled", hops |-> h,
                    lastSeen |-> now]
           s == SlotFor(n)
<1>1. NodesTypeOK /\ ListedIsLatest /\ FreshIsListed /\ ListenerIsCurrent
  BY DEF NodesInv
<1>2. info \in Info /\ info.node = n /\ info.lastSeen = now /\ info # FreeSlot
  <2>1. info \in Info /\ info.node = n /\ info.lastSeen = now
    BY <1>1 DEF NodesTypeOK, Info
  <2> QED
    BY <2>1, FreeSlotIsNone
<1>3. /\ latest' = [latest EXCEPT ![n] = info]
      /\ UNCHANGED <<selected, listener, now>>
      /\ crowdedOut' = crowdedOut \cup {n} \/ crowdedOut' = crowdedOut \ {n}
  BY DEF ReceivedAnnounce
<1>4. CASE HasNode(n) \/ FreeSlots # {}
  <2>1. /\ pool' = [pool EXCEPT ![s] = info]
        /\ shown' = IF listener THEN NodesIn(pool') ELSE shown
    BY <1>4 DEF ReceivedAnnounce, Record, Notify
  <2>2. s \in Slot /\ (IF HasNode(n) THEN s \in SlotsOf(n) ELSE s \in FreeSlots)
    <3>1. SlotsOf(n) \subseteq Slot /\ FreeSlots \subseteq Slot
      BY DEF SlotsOf, FreeSlots
    <3>2. CASE HasNode(n)
      BY <3>1, <3>2, FirstSlot DEF SlotFor, HasNode
    <3>3. CASE ~HasNode(n)
      BY <1>4, <3>1, <3>3, FirstSlot DEF SlotFor
    <3> QED
      BY <3>1, <3>2, <3>3
  <2>3. \A i \in Slot \ {s} : pool[i].node # n
    <3>1. CASE HasNode(n)
      <4>1. pool[s].node = n /\ n # NoNode
        BY <2>2, <3>1, NodesAssumption DEF SlotsOf
      <4>2. SlotsOf(n) = {s}
        BY <1>1, <2>2, <4>1 DEF ListedIsLatest, InUse
      <4> QED
        BY <4>2 DEF SlotsOf
    <3>2. CASE ~HasNode(n)
      BY <3>2 DEF HasNode, SlotsOf
    <3> QED
      BY <3>1, <3>2
  <2>4. pool[s].node = n \/ pool[s].node = NoNode
    BY <2>2 DEF SlotsOf, FreeSlots, InUse
  <2> HIDE DEF info, s
  <2>5. pool'[s] = info /\ \A i \in Slot \ {s} : pool'[i] = pool[i]
    BY <1>1, <2>1, <2>2 DEF NodesTypeOK
  <2>6. NodesTypeOK'
    <3>1. pool' \in [Slot -> Info \cup {FreeSlot}]
      BY <1>1, <1>2, <2>1 DEF NodesTypeOK
    <3>2. NodesIn(pool') \subseteq Info
      BY <3>1 DEF NodesIn
    <3> QED
      BY <1>1, <1>2, <1>3, <2>1, <3>1, <3>2 DEF NodesTypeOK
  <2>7. ListedIsLatest'
    <3> SUFFICES ASSUME NEW i \in Slot, pool'[i].node # NoNode
                 PROVE  /\ pool'[i] = latest'[pool'[i].node]
                        /\ \A j \in Slot : pool'[j].node = pool'[i].node => j = i
      BY DEF ListedIsLatest, InUse, SlotsOf
    <3>1. CASE i = s
      BY <1>1, <1>2, <1>3, <2>3, <2>5, <3>1 DEF NodesTypeOK
    <3>2. CASE i # s
      <4>1. pool'[i] = pool[i] /\ pool[i].node # n /\ pool[i].node \in Node
        BY <1>1, <2>3, <2>5, <3>2 DEF NodesTypeOK, Info, FreeSlot
      <4>2. pool[i] = latest[pool[i].node] /\ SlotsOf(pool[i].node) = {i}
        BY <1>1, <4>1 DEF ListedIsLatest, InUse
      <4>3. pool[i] = latest'[pool[i].node]
        BY <1>1, <1>3, <4>1, <4>2 DEF NodesTypeOK
      <4>4. ASSUME NEW j \in Slot, pool'[j].node = pool[i].node
            PROVE  j = i
        <5>1. j # s
          BY <1>2, <2>5, <4>1, <4>4
        <5> QED
          BY <2>5, <4>2, <4>4, <5>1 DEF SlotsOf
      <4> QED
        BY <4>1, <4>3, <4>4
    <3> QED
      BY <3>1, <3>2
  <2>8. FreshIsListed'
    <3> SUFFICES ASSUME NEW k \in Node, latest'[k] # FreeSlot,
                        k \notin crowdedOut'
                 PROVE  HasNode(k)' \/ now' - latest'[k].lastSeen
                                           > NODE_STALE_TIMEOUT
      BY DEF FreshIsListed
    <3>1. CASE k = n
      BY <1>2, <2>2, <2>5, <3>1 DEF HasNode, SlotsOf
    <3>2. CASE k # n
      <4>1. latest'[k] = latest[k] /\ k \notin crowdedOut
        BY <1>1, <1>3, <3>2 DEF NodesTypeOK, ReceivedAnnounce
      <4>2. HasNode(k) => HasNode(k)'
        BY <2>4, <2>5, <3>2, NodesAssumption DEF HasNode, SlotsOf
      <4> QED
        BY <1>1, <1>3, <4>1, <4>2 DEF FreshIsListed
    <3> QED
      BY <3>1, <3>2
  <2>9. ListenerIsCurrent'
    BY <1>3, <2>1 DEF ListenerIsCurrent, GetNodes
  <2> QED
    BY <2>6, <2>7, <2>8, <2>9 DEF NodesInv
<1>5. CASE ~HasNode(n) /\ FreeSlots = {}
  <2>1. UNCHANGED <<pool, shown>> /\ crowdedOut' = crowdedOut \cup {n}
    BY <1>5 DEF ReceivedAnnounce, FreeSlots
  <2>2. \A i \in Slot : pool[i].node # n
    BY <1>5 DEF HasNode, SlotsOf
  <2> HIDE DEF info
  <2>3. \A k \in Node \ {n} : latest'[k] = latest[k]
    BY <1>1, <1>3 DEF NodesTypeOK
  <2>4. NodesTypeOK'
    BY <1>1, <1>2, <1>3, <2>1 DEF NodesTypeOK
  <2>5. ListedIsLatest'
    <3>1. \A i \in Slot : InUse(i) => pool[i].node \in Node \ {n}
      BY <1>1, <2>2 DEF NodesTypeOK, Info, FreeSlot, InUse
    <3> QED
      BY <1>1, <2>1, <2>3, <3>1 DEF ListedIsLatest, InUse, SlotsOf
  <2>6. FreshIsListed'
    BY <1>1, <1>3, <2>1, <2>3 DEF FreshIsListed, HasNode, SlotsOf
  <2>7. ListenerIsCurrent'
    BY <1>1, <1>3, <2>1 DEF ListenerIsCurrent, GetNodes, NodesIn
  <2> QED
    BY <2>4, <2>5, <2>6, <2>7 DEF NodesInv
<1> QED
  BY <1>4, <1>5

LEMMA CleanKeepsNodes ==
    ASSUME NodesInv, CleanStaleNodes
    PROVE  NodesInv'
<1>1. NodesTypeOK /\ ListedIsLatest /\ FreshIsListed /\ ListenerIsCurrent
  BY DEF NodesInv
<1>2. /\ pool' = [i \in Slot |-> IF InUse(i) /\ IsStale(pool[i])
                                 THEN FreeSlot ELSE pool[i]]
      /\ shown' = IF listener THEN NodesIn(pool') ELSE shown
      /\ UNCHANGED <<selected, listener, now, latest, crowdedOut>>
  BY DEF CleanStaleNodes, Clean, Notify
<1>3. NodesTypeOK'
  <2>1. pool' \in [Slot -> Info \cup {FreeSlot}]
    BY <1>1, <1>2 DEF NodesTypeOK
  <2>2. NodesIn(pool') \subseteq Info
    BY <2>1 DEF NodesIn
  <2> QED
    BY <1>1, <1>2, <2>1, <2>2 DEF NodesTypeOK
<1>4. \A i \in Slot : pool'[i].node # NoNode =>
          pool'[i] = pool[i] /\ pool[i].node # NoNode
  BY <1>2, FreeSlotIsNone
<1>5. ListedIsLatest'
  <2> SUFFICES ASSUME NEW i \in Slot, pool'[i].node # NoNode
               PROVE  /\ pool'[i] = latest[pool'[i].node]
                      /\ \A j \in Slot : pool'[j].node = pool'[i].node => j = i
    BY <1>2 DEF ListedIsLatest, InUse, SlotsOf
  <2>1. pool[i] = latest[pool[i].node] /\ SlotsOf(pool[i].node) = {i}
    BY <1>1, <1>4 DEF ListedIsLatest, InUse
  <2> QED
    BY <1>4, <2>1 DEF SlotsOf
<1>6. FreshIsListed'
  <2> SUFFICES ASSUME NEW k \in Node, latest[k] # FreeSlot, k \notin crowdedOut,
                      ~(now - latest[k].lastSeen > NODE_STALE_TIMEOUT)
               PROVE  HasNode(k)'
    BY <1>2 DEF FreshIsListed
  <2>1. PICK i \in Slot : pool[i].node = k
    BY <1>1 DEF FreshIsListed, HasNode, SlotsOf
  <2>2. InUse(i) /\ pool[i] = latest[k]
    BY <1>1, <2>1, NodesAssumption DEF ListedIsLatest, InUse
  <2>3. pool'[i] = pool[i]
    BY <1>2, <2>2 DEF IsStale
  <2> QED
    BY <2>1, <2>3 DEF HasNode, SlotsOf
<1>7. ListenerIsCurrent'
  BY <1>2 DEF ListenerIsCurrent, GetNodes
<1> QED
  BY <1>3, <1>5, <1>6, <1>7 DEF NodesInv

LEMMA SelectKeepsNodes ==
    ASSUME NodesInv, NEW n \in Node \cup {NoNode}, SetSelectedNode(n)
    PROVE  NodesInv'
  BY DEF SetSelectedNode, NodesInv, NodesTypeOK, ListedIsLatest, FreshIsListed,
         ListenerIsCurrent, GetNodes, NodesIn, InUse, HasNode, SlotsOf

LEMMA CallbackKeepsNodes ==
    ASSUME NodesInv, SetUpdateCallback
    PROVE  NodesInv'
<1>1. NodesTypeOK'
  BY DEF SetUpdateCallback, NodesInv, NodesTypeOK, GetNodes, NodesIn
<1>2. ListenerIsCurrent'
  BY DEF SetUpdateCallback, ListenerIsCurrent, GetNodes, NodesIn
<1>3. ListedIsLatest' /\ FreshIsListed'
  BY DEF SetUpdateCallback, NodesInv, ListedIsLatest, FreshIsListed, InUse,
         HasNode, SlotsOf
<1> QED
  BY <1>1, <1>2, <1>3 DEF NodesInv

LEMMA TickKeepsNodes ==
    ASSUME NodesInv, Tick
    PROVE  NodesInv'
<1>1. NodesTypeOK /\ FreshIsListed /\ now' = now + 1 /\ now < MaxTime
      /\ UNCHANGED <<pool, selected, listener, shown, latest, crowdedOut>>
  BY DEF NodesInv, Tick
<1>2. NodesTypeOK'
  BY <1>1, NodesAssumption DEF NodesTypeOK
<1>3. FreshIsListed'
  <2> SUFFICES ASSUME NEW k \in Node, latest[k] # FreeSlot, k \notin crowdedOut,
                      ~HasNode(k)
               PROVE  now' - latest[k].lastSeen > NODE_STALE_TIMEOUT
    BY <1>1 DEF FreshIsListed, HasNode, SlotsOf
  <2>1. latest[k].lastSeen \in Int /\ now \in Int /\ NODE_STALE_TIMEOUT \in Int
    BY <1>1, NodesAssumption DEF NodesTypeOK, Info
  <2>2. now - latest[k].lastSeen > NODE_STALE_TIMEOUT
    BY <1>1 DEF FreshIsListed
  <2> QED
    BY <1>1, <2>1, <2>2
<1>4. ListedIsLatest' /\ ListenerIsCurrent'
  BY <1>1 DEF NodesInv, ListedIsLatest, ListenerIsCurrent, GetNodes, NodesIn,
              InUse, SlotsOf
<1> QED
  BY <1>2, <1>3, <1>4 DEF NodesInv

LEMMA NodesInitInv == NodesInit => NodesInv
<1> SUFFICES ASSUME NodesInit
             PROVE  NodesInv
  OBVIOUS
<1>1. NodesTypeOK
  <2>1. now \in 1..MaxTime
    BY NodesAssumption DEF NodesInit
  <2>2. pool \in [Slot -> Info \cup {FreeSlot}]
    BY DEF NodesInit
  <2>3. latest \in [Node -> Info \cup {FreeSlot}]
    BY DEF NodesInit
  <2> QED
    BY <2>1, <2>2, <2>3 DEF NodesInit, NodesTypeOK
<1>2. \A i \in Slot : ~InUse(i)
  BY FreeSlotIsNone DEF NodesInit, InUse
<1>3. \A n \in Node : latest[n] = FreeSlot
  BY DEF NodesInit
<1> QED
  BY <1>1, <1>2, <1>3 DEF NodesInit, NodesInv, ListedIsLatest, FreshIsListed,
                          ListenerIsCurrent

LEMMA NodesStutter ==
    ASSUME NodesInv, UNCHANGED nodesVars
    PROVE  NodesInv'
  BY DEF nodesVars, NodesInv, NodesTypeOK, ListedIsLatest, FreshIsListed,
         ListenerIsCurrent, GetNodes, NodesIn, InUse, HasNode, SlotsOf

LEMMA NodesInvariant == NodesSpec => []NodesInv
<1>1. NodesInv /\ [NodesNext]_nodesVars => NodesInv'
  BY AnnounceKeepsNodes, CleanKeepsNodes, SelectKeepsNodes, CallbackKeepsNodes,
     TickKeepsNodes, NodesStutter DEF NodesNext
<1> QED
  BY NodesInitInv, <1>1, PTL DEF NodesSpec

(* Nodes are listed once and as they last announced themselves.            *)
THEOREM ListsTheLatest == NodesSpec => [](NodesTypeOK /\ ListedIsLatest)
<1>1. NodesInv => NodesTypeOK /\ ListedIsLatest
  BY DEF NodesInv
<1> QED
  BY <1>1, NodesInvariant, PTL

(* Only age and a full pool keep a node out of the directory.              *)
THEOREM ListsTheFresh == NodesSpec => []FreshIsListed
<1>1. NodesInv => FreshIsListed
  BY DEF NodesInv
<1> QED
  BY <1>1, NodesInvariant, PTL

(* A listener need not look at the directory between its calls.            *)
THEOREM TellsTheListener == NodesSpec => []ListenerIsCurrent
<1>1. NodesInv => ListenerIsCurrent
  BY DEF NodesInv
<1> QED
  BY <1>1, NodesInvariant, PTL

-----------------------------------------------------------------------------
(* The scan for the best node.                                             *)

Scanned == 0..MAX_PROPAGATION_NODES

(* One step of the scan, with what it found before.                        *)
Best(f, i) == IF i = 0 THEN FreeSlot
              ELSE IF InUse(i) /\ pool[i].enabled /\ Better(pool[i], f[i - 1])
                   THEN pool[i] ELSE f[i - 1]

(* The scan has a result at each slot.                                     *)
LEMMA ScanExists == \E f : f = [i \in Scanned |-> Best(f, i)]
<1> DEFINE Partial(n) == \E f : f = [i \in 0..n |-> Best(f, i)]
           Failed == {n \in Nat : ~Partial(n)}
<1>1. Failed = {}
  <2> SUFFICES ASSUME Failed # {}
               PROVE  FALSE
    OBVIOUS
  <2>1. PICK n \in Failed : \A k \in Failed : n <= k
    <3>1. Failed \subseteq Nat
      OBVIOUS
    <3> HIDE DEF Failed
    <3> QED
      BY <3>1, LeastElement, Zenon
  <2>2. n # 0
    <3> DEFINE f == [i \in 0..0 |-> FreeSlot]
    <3>1. f = [i \in 0..0 |-> Best(f, i)]
      BY DEF Best
    <3>2. Partial(0)
      BY <3>1
    <3> QED
      BY <2>1, <3>2
  <2>3. n - 1 \in Nat /\ n - 1 \notin Failed
    BY <2>1, <2>2
  <2>4. PICK f : f = [i \in 0..(n - 1) |-> Best(f, i)]
    BY <2>3
  <2> DEFINE g == [i \in 0..n |-> IF i < n THEN f[i] ELSE Best(f, n)]
  <2>5. g = [i \in 0..n |-> Best(g, i)]
    <3> SUFFICES ASSUME NEW i \in 0..n
                 PROVE  g[i] = Best(g, i)
      OBVIOUS
    <3>1. n \in Nat \ {0}
      BY <2>1, <2>2
    <3>2. i # 0 => i - 1 \in 0..(n - 1) /\ g[i - 1] = f[i - 1]
      BY <3>1
    <3>3. Best(g, i) = Best(f, i)
      BY <3>2 DEF Best
    <3>4. CASE i < n
      <4>1. i \in 0..(n - 1)
        BY <3>1, <3>4
      <4>2. f[i] = Best(f, i)
        BY <2>4, <4>1
      <4> QED
        BY <3>3, <3>4, <4>2
    <3>5. CASE ~(i < n)
      BY <3>1, <3>3, <3>5
    <3> QED
      BY <3>4, <3>5
  <2>6. Partial(n)
    BY <2>5
  <2> QED
    BY <2>1, <2>6
<1>2. MAX_PROPAGATION_NODES \in Nat
  BY NodesAssumption
<1> QED
  BY <1>1, <1>2 DEF Scanned

LEMMA ScanStep ==
    /\ BestUpTo[0] = FreeSlot
    /\ \A i \in Slot :
           BestUpTo[i] =
               IF InUse(i) /\ pool[i].enabled /\ Better(pool[i], BestUpTo[i - 1])
               THEN pool[i] ELSE BestUpTo[i - 1]
<1>1. BestUpTo = CHOOSE f : f = [i \in Scanned |-> Best(f, i)]
  BY DEF BestUpTo, Scanned, Best
<1>2. BestUpTo = [i \in Scanned |-> Best(BestUpTo, i)]
  BY <1>1, ScanExists
<1>3. 0 \in Scanned /\ \A i \in Slot : i \in Scanned /\ i # 0
  BY NodesAssumption DEF Scanned, Slot
<1> QED
  BY <1>2, <1>3 DEF Best

Serving(i) == {j \in 1..i : InUse(j) /\ pool[j].enabled}

(* What the scan has found once it has seen i slots.                       *)
Found(i) ==
    \/ Serving(i) = {} /\ BestUpTo[i] = FreeSlot
    \/ \E j \in Serving(i) :
           /\ BestUpTo[i] = pool[j]
           /\ \A k \in Serving(i) : ~Better(pool[k], pool[j])

LEMMA ScanKeepsFound ==
    ASSUME NodesTypeOK, NEW i \in Slot, Found(i - 1)
    PROVE  Found(i)
<1>1. i \in Nat \ {0} /\ MAX_PROPAGATION_NODES \in Nat
  BY NodesAssumption DEF Slot
<1>2. \A j \in 1..i : j \in Slot /\ (InUse(j) => pool[j] \in Info)
  BY <1>1 DEF NodesTypeOK, Slot, InUse, FreeSlot
<1>3. Serving(i) = Serving(i - 1) \cup
                       (IF InUse(i) /\ pool[i].enabled THEN {i} ELSE {})
  <2>1. 1..i = 1..(i - 1) \cup {i}
    BY <1>1
  <2> QED
    BY <2>1 DEF Serving
<1>4. \A info \in Info : /\ info.hops \in Int /\ info.hops < 255
                         /\ info.lastSeen \in Int
  <2>1. \A info \in Info : info.hops \in HopCounts /\ info.lastSeen \in 1..MaxTime
    BY DEF Info
  <2>2. \A h \in HopCounts : h \in Int /\ h < 255
    BY NodesAssumption
  <2>3. \A t \in 1..MaxTime : t \in Int
    OBVIOUS
  <2> QED
    BY <2>1, <2>2, <2>3
<1>5. \A j \in Serving(i) : pool[j] \in Info
  BY <1>2 DEF Serving
<1>6. CASE ~(InUse(i) /\ pool[i].enabled)
  BY <1>3, <1>6, ScanStep DEF Found
<1>7. CASE InUse(i) /\ pool[i].enabled
  <2>1. i \in Serving(i) /\ pool[i] \in Info /\ ~Better(pool[i], pool[i])
    BY <1>3, <1>4, <1>5, <1>7 DEF Better
  <2>2. CASE Serving(i - 1) = {} /\ BestUpTo[i - 1] = FreeSlot
    <3>1. Better(pool[i], FreeSlot)
      BY <1>4, <2>1 DEF Better, FreeSlot
    <3>2. BestUpTo[i] = pool[i]
      BY <1>7, <2>2, <3>1, ScanStep
    <3> QED
      BY <1>3, <2>1, <2>2, <3>2 DEF Found
  <2>3. ASSUME NEW j \in Serving(i - 1), BestUpTo[i - 1] = pool[j],
               \A k \in Serving(i - 1) : ~Better(pool[k], pool[j])
        PROVE  Found(i)
    <3>1. j \in Serving(i) /\ pool[j] \in Info
      BY <1>3, <1>5
    <3>2. CASE Better(pool[i], pool[j])
      <4>1. BestUpTo[i] = pool[i]
        BY <1>7, <2>3, <3>2, ScanStep
      <4>2. ASSUME NEW k \in Serving(i - 1)
            PROVE  ~Better(pool[k], pool[i])
        <5>1. pool[k] \in Info /\ ~Better(pool[k], pool[j])
          BY <1>3, <1>5, <2>3
        <5> QED
          BY <1>4, <2>1, <3>1, <3>2, <5>1 DEF Better
      <4> QED
        BY <1>3, <2>1, <4>1, <4>2 DEF Found
    <3>3. CASE ~Better(pool[i], pool[j])
      <4>1. BestUpTo[i] = pool[j]
        BY <2>3, <3>3, ScanStep
      <4> QED
        BY <1>3, <2>3, <3>1, <3>3, <4>1 DEF Found
    <3> QED
      BY <3>2, <3>3
  <2> QED
    BY <2>2, <2>3 DEF Found
<1> QED
  BY <1>6, <1>7

LEMMA ScanFinds ==
    ASSUME NodesTypeOK
    PROVE  Found(MAX_PROPAGATION_NODES)
<1> DEFINE Failed == {i \in Scanned : ~Found(i)}
<1>1. Scanned \subseteq Nat /\ MAX_PROPAGATION_NODES \in Scanned
  BY NodesAssumption DEF Scanned
<1>2. Failed = {}
  <2> SUFFICES ASSUME Failed # {}
               PROVE  FALSE
    OBVIOUS
  <2>1. PICK n \in Failed : \A k \in Failed : n <= k
    <3>1. Failed \subseteq Nat
      BY <1>1
    <3> HIDE DEF Failed
    <3> QED
      BY <3>1, LeastElement, Zenon
  <2>2. n # 0
    <3>1. Found(0)
      BY ScanStep DEF Found, Serving
    <3> QED
      BY <2>1, <3>1
  <2>3. n \in Slot /\ n - 1 \in Scanned /\ ~(n <= n - 1)
    BY <2>1, <2>2, NodesAssumption DEF Scanned, Slot
  <2>4. Found(n - 1)
    BY <2>1, <2>3
  <2> QED
    BY <2>1, <2>3, <2>4, ScanKeepsFound
<1> QED
  BY <1>1, <1>2

LEMMA BestIsFirst == NodesTypeOK => BestIsFirstListed
<1> SUFFICES ASSUME NodesTypeOK
             PROVE  BestIsFirstListed
  OBVIOUS
<1> DEFINE serving == {info \in GetNodes : info.enabled}
           all == Serving(MAX_PROPAGATION_NODES)
<1>1. all = {i \in Slot : InUse(i) /\ pool[i].enabled}
  BY DEF Serving, Slot
<1>2. \A i \in Slot : InUse(i) <=> pool[i] # FreeSlot
  BY FreeSlotIsNone, NodesAssumption DEF NodesTypeOK, InUse, Info
<1>3. serving = {pool[i] : i \in all}
  BY <1>1, <1>2 DEF GetNodes, NodesIn
<1>4. CASE all = {} /\ BestUpTo[MAX_PROPAGATION_NODES] = FreeSlot
  BY <1>3, <1>4, FreeSlotIsNone DEF BestIsFirstListed, GetBestNode
<1>5. ASSUME NEW j \in all, BestUpTo[MAX_PROPAGATION_NODES] = pool[j],
             \A k \in all : ~Better(pool[k], pool[j])
      PROVE  BestIsFirstListed
  <2>1. pool[j] \in serving /\ GetBestNode = pool[j].node
    BY <1>3, <1>5 DEF GetBestNode
  <2>2. \A other \in serving : ~ListedBefore(other, pool[j])
    BY <1>3, <1>5 DEF Better, ListedBefore
  <2> HIDE DEF all
  <2> QED
    BY <2>1, <2>2 DEF BestIsFirstListed
<1> QED
  BY <1>4, <1>5, ScanFinds DEF Found

(* The scan over the pool agrees with the sorted list on which serving     *)
(* node comes first, for pools of any size.                                *)
THEOREM BestIsFirstInTheList == NodesSpec => []BestIsFirstListed
<1>1. NodesInv => BestIsFirstListed
  BY BestIsFirst DEF NodesInv
<1> QED
  BY <1>1, NodesInvariant, PTL

(* No selection hides the nodes that serve, and without one that serves   *)
(* the choice is the first of the list.                                    *)
THEOREM EffectiveNodeServes == NodesSpec => []EffectiveIsBest
<1>1. ASSUME NodesTypeOK, BestIsFirstListed
      PROVE  EffectiveIsBest
  <2> DEFINE serving == {info \in GetNodes : info.enabled}
  <2>1. \A i \in Slot : pool[i].enabled /\ pool[i].node # NoNode =>
            pool[i] \in serving
    BY FreeSlotIsNone DEF GetNodes, NodesIn
  <2>2. CASE selected # NoNode /\ \E i \in SlotsOf(selected) : pool[i].enabled
    <3>1. GetEffectiveNode = selected
      BY <2>2 DEF GetEffectiveNode
    <3>2. PICK i \in Slot : pool[i].node = selected /\ pool[i].enabled
      BY <2>2 DEF SlotsOf
    <3>3. pool[i] \in serving
      BY <2>1, <2>2, <3>2
    <3> QED
      BY <3>1, <3>2, <3>3 DEF EffectiveIsBest
  <2>3. CASE ~(selected # NoNode
               /\ \E i \in SlotsOf(selected) : pool[i].enabled)
    <3>1. GetEffectiveNode = GetBestNode
      BY <2>3 DEF GetEffectiveNode
    <3> QED
      BY <1>1, <3>1 DEF EffectiveIsBest, BestIsFirstListed
  <2> QED
    BY <2>2, <2>3
<1>2. NodesInv => EffectiveIsBest
  BY <1>1, BestIsFirst DEF NodesInv
<1> QED
  BY <1>2, NodesInvariant, PTL
=============================================================================

------------------------ MODULE RouterRegistryProofs ------------------------
(***************************************************************************)
(* Proofs about RouterRegistry, for any routers, peers and registry size.  *)
(*                                                                         *)
(* A slot that is cleared is the first with the destination of the router  *)
(* that is destroyed, so it can only be a living router's own slot if two  *)
(* living routers had one destination: the invariant says they have not.   *)
(* For a router that lives alone the invariant says more than is promised, *)
(* that its slot is the first of all.                                      *)
(***************************************************************************)
EXTENDS RouterRegistry, WellFoundedInduction, FiniteSetTheorems, TLAPS

(* A set of slots that is not empty has a first one.                       *)
LEMMA FirstSlot ==
    ASSUME NEW S, S \subseteq Slot, S # {}
    PROVE  FirstOf(S) \in S /\ \A j \in S : FirstOf(S) <= j
<1>1. S \subseteq Nat
  BY RegistryAssumption DEF Slot
<1>2. PICK x \in S : \A y \in S : ~(<<y, x>> \in OpToRel(<, Nat))
  BY <1>1, NatLessThanWellFounded, WFMin, Zenon
<1>3. OpToRel(<, Nat) = {ss \in Nat \X Nat : ss[1] < ss[2]}
  BY Zenon DEF OpToRel
<1>4. \A y \in S : ~(y < x)
  BY <1>1, <1>2, <1>3
<1>5. \A y \in S : x <= y
  BY <1>1, <1>4
<1> QED
  BY <1>5 DEF FirstOf

(* A slot some router has taken is not a free one.                         *)
LEMMA TakenIsInUse ==
    ASSUME NEW d \in Dest, NEW r \in Router
    PROVE  [dest |-> d, router |-> r] # FreeSlot
  BY RegistryAssumption DEF FreeSlot

(* A slot is filled in a pool with room; no slot in use is touched.        *)
LEMMA FilledFacts ==
    ASSUME RegistryTypeOK, NEW d \in Dest, NEW r \in Router
    PROVE  /\ Filled(d, r) \in [Slot -> [dest : Dest, router : Router]
                                            \cup {FreeSlot}]
           /\ \A i \in Slot : InUse(i) => Filled(d, r)[i] = pool[i]
           /\ FreeSlots # {} =>
                  /\ EmptySlot \in FreeSlots
                  /\ \A j \in FreeSlots : EmptySlot <= j
                  /\ Filled(d, r)[EmptySlot] = [dest |-> d, router |-> r]
<1>1. FreeSlots \subseteq Slot
  BY DEF FreeSlots
<1>2. CASE FreeSlots = {}
  BY <1>2 DEF Filled, RegistryTypeOK
<1>3. CASE FreeSlots # {}
  <2>1. EmptySlot \in FreeSlots /\ \A j \in FreeSlots : EmptySlot <= j
    BY <1>1, <1>3, FirstSlot DEF EmptySlot
  <2>2. Filled(d, r) = [pool EXCEPT ![EmptySlot] =
                                        [dest |-> d, router |-> r]]
    BY <1>3 DEF Filled
  <2>3. EmptySlot \in Slot /\ ~InUse(EmptySlot)
    BY <2>1 DEF FreeSlots
  <2>4. [dest |-> d, router |-> r] \in [dest : Dest, router : Router]
    OBVIOUS
  <2> QED
    BY <2>1, <2>2, <2>3, <2>4 DEF RegistryTypeOK
<1> QED
  BY <1>2, <1>3

(* No two living routers have one destination.                             *)
OwnDestinations == \A q, r \in alive : DestOf[q] = DestOf[r] => q = r

(* The first slot is the sole router's, or free when there is none.        *)
FirstIsSole ==
    solo => \/ alive = {} /\ ~InUse(1)
            \/ \E r \in Router : /\ alive = {r}
                                 /\ pool[1] = [dest |-> DestOf[r], router |-> r]

RegistryInv ==
    /\ RegistryTypeOK
    /\ OwnDestinations
    /\ RoomIsKept
    /\ FirstIsSole

-----------------------------------------------------------------------------
(* The actions that touch the pool.                                        *)

LEMMA ConstructKeepsRegistry ==
    ASSUME RegistryInv, NEW r \in Router, Construct(r)
    PROVE  RegistryInv'
<1> USE DEF RegistryInv
<1>1. DestOf[r] \in Dest
  BY RegistryAssumption
<1>2. /\ \A i \in Slot : InUse(i) => Filled(DestOf[r], r)[i] = pool[i]
      /\ FreeSlots # {} =>
             /\ EmptySlot \in FreeSlots
             /\ \A j \in FreeSlots : EmptySlot <= j
             /\ Filled(DestOf[r], r)[EmptySlot] =
                    [dest |-> DestOf[r], router |-> r]
  BY <1>1, FilledFacts
<1>3. /\ pool' = Filled(DestOf[r], r)
      /\ alive' = alive \cup {r} /\ born' = born \cup {r}
      /\ r \notin born /\ r \notin alive /\ r \notin welcome
      /\ welcome' = IF FreeSlots = {} THEN welcome ELSE welcome \cup {r}
      /\ solo' = (solo /\ alive = {})
      /\ UNCHANGED <<listening, linkVars, proofVars>>
  BY DEF Construct, RegistryTypeOK
<1>4. RegistryTypeOK'
  <2>1. pool' \in [Slot -> [dest : Dest, router : Router] \cup {FreeSlot}]
    BY <1>1, <1>3, FilledFacts
  <2> QED
    BY <1>3, <2>1 DEF RegistryTypeOK, linkVars, proofVars
<1>5. OwnDestinations'
  BY <1>3 DEF OwnDestinations, Construct
<1>6. RoomIsKept'
  <2>1. ASSUME NEW q \in alive' \cap welcome'
        PROVE  \E i \in Slot : pool'[i] = [dest |-> DestOf[q], router |-> q]
    <3>1. CASE q = r
      <4>1. FreeSlots # {}
        BY <1>3, <2>1, <3>1
      <4>2. EmptySlot \in Slot
        BY <1>2, <4>1 DEF FreeSlots
      <4>3. pool'[EmptySlot] = [dest |-> DestOf[q], router |-> q]
        BY <1>2, <1>3, <3>1, <4>1
      <4> QED
        BY <4>2, <4>3
    <3>2. CASE q # r
      <4>1. q \in alive \cap welcome /\ q \in Router
        BY <1>3, <2>1, <3>2 DEF RegistryTypeOK
      <4>2. PICK i \in Slot : pool[i] = [dest |-> DestOf[q], router |-> q]
        BY <4>1 DEF RoomIsKept
      <4>3. InUse(i)
        BY <4>1, <4>2, TakenIsInUse, RegistryAssumption DEF InUse
      <4> QED
        BY <1>2, <1>3, <4>2, <4>3
    <3> QED
      BY <3>1, <3>2
  <2>2. alive' # {}
    BY <1>3
  <2> QED
    BY <2>1, <2>2 DEF RoomIsKept
<1>7. FirstIsSole'
  <2>1. SUFFICES ASSUME solo'
                 PROVE  alive' = {r} /\ pool'[1] = [dest |-> DestOf[r],
                                                   router |-> r]
    BY DEF FirstIsSole
  <2>2. solo /\ alive = {}
    BY <1>3, <2>1
  <2>3. ~InUse(1)
    BY <2>2 DEF FirstIsSole
  <2>4. 1 \in Slot
    BY RegistryAssumption DEF Slot
  <2>5. solo /\ alive = {} /\ ~InUse(1) /\ 1 \in Slot
    BY <2>2, <2>3, <2>4
  <2>6. 1 \in FreeSlots
    BY <2>5 DEF FreeSlots
  <2>7. EmptySlot \in Slot /\ EmptySlot <= 1
    BY <1>2, <2>6 DEF FreeSlots
  <2>8. EmptySlot = 1
    BY <2>7, RegistryAssumption DEF Slot
  <2>9. pool'[1] = [dest |-> DestOf[r], router |-> r]
    BY <1>2, <1>3, <2>6, <2>8
  <2> QED
    BY <1>3, <2>5, <2>9
<1> QED
  BY <1>4, <1>5, <1>6, <1>7

LEMMA DestroyKeepsRegistry ==
    ASSUME RegistryInv, NEW r \in Router, Destroy(r)
    PROVE  RegistryInv'
<1> USE DEF RegistryInv
<1> DEFINE s == FirstOf(SlotsOf(DestOf[r]))
<1>1. /\ r \in alive /\ alive' = alive \ {r}
      /\ pool' = IF SlotsOf(DestOf[r]) = {} THEN pool
                 ELSE [pool EXCEPT ![s] = FreeSlot]
      /\ UNCHANGED <<born, listening, welcome, solo, linkVars, proofVars>>
  BY DEF Destroy
<1>2. SlotsOf(DestOf[r]) # {} => s \in Slot /\ pool[s].dest = DestOf[r]
  <2>1. SlotsOf(DestOf[r]) \subseteq Slot
    BY DEF SlotsOf
  <2> QED
    BY <2>1, FirstSlot DEF SlotsOf
<1>3. RegistryTypeOK'
  BY <1>1, <1>2 DEF RegistryTypeOK, linkVars, proofVars
<1>4. OwnDestinations'
  BY <1>1 DEF OwnDestinations
<1>5. RoomIsKept'
  <2>1. ASSUME NEW q \in alive' \cap welcome'
        PROVE  \E i \in Slot : pool'[i] = [dest |-> DestOf[q], router |-> q]
    <3>1. q \in alive \cap welcome /\ q # r
      BY <1>1
    <3>2. PICK i \in Slot : pool[i] = [dest |-> DestOf[q], router |-> q]
      BY <3>1 DEF RoomIsKept
    <3>3. pool[i].dest # DestOf[r]
      BY <1>1, <3>1, <3>2 DEF OwnDestinations
    <3> QED
      BY <1>1, <1>2, <3>2, <3>3 DEF RegistryTypeOK
  <2>2. ASSUME alive' = {}, born' \subseteq welcome'
        PROVE  FreeSlots' # {}
    <3>1. r \in alive \cap welcome
      BY <1>1, <2>2 DEF RegistryTypeOK
    <3>2. PICK i \in Slot : pool[i] = [dest |-> DestOf[r], router |-> r]
      BY <3>1 DEF RoomIsKept
    <3>3. SlotsOf(DestOf[r]) # {}
      BY <3>2 DEF SlotsOf
    <3>4. pool'[s] = FreeSlot /\ s \in Slot
      BY <1>1, <1>2, <3>3 DEF RegistryTypeOK
    <3> QED
      BY <3>4 DEF FreeSlots, InUse
  <2> QED
    BY <2>1, <2>2 DEF RoomIsKept
<1>6. FirstIsSole'
  <2>1. SUFFICES ASSUME solo
                 PROVE  alive' = {} /\ pool'[1] = FreeSlot
    BY <1>1 DEF FirstIsSole, InUse
  <2>2. alive = {r} /\ pool[1] = [dest |-> DestOf[r], router |-> r]
    BY <1>1, <2>1 DEF FirstIsSole
  <2>3. 1 \in Slot /\ 1 \in SlotsOf(DestOf[r])
    BY <2>2, RegistryAssumption DEF Slot, SlotsOf
  <2>4. s <= 1 /\ s \in Slot
    BY <1>2, <2>3, FirstSlot DEF SlotsOf
  <2>5. s = 1
    BY <2>4, RegistryAssumption DEF Slot
  <2> QED
    BY <1>1, <2>2, <2>3, <2>5 DEF RegistryTypeOK
<1> QED
  BY <1>3, <1>4, <1>5, <1>6

(* A link takes a free slot or none, while its router lives.               *)
LEMMA OpenLinkKeepsRegistry ==
    ASSUME RegistryInv, NEW r \in Router, NEW d \in Dest, OpenLink(r, d)
    PROVE  RegistryInv'
<1> USE DEF RegistryInv
<1>1. /\ r \in alive
      /\ pool' = pool \/ pool' = Filled(d, r)
      /\ held' = [held EXCEPT ![r] = @ \cup {d}]
      /\ open' = open \cup {<<r, d>>}
      /\ UNCHANGED <<lifeVars, proofVars>>
  BY DEF OpenLink
<1>2. RegistryTypeOK
  OBVIOUS
<1>3. /\ Filled(d, r) \in [Slot -> [dest : Dest, router : Router]
                                      \cup {FreeSlot}]
      /\ \A i \in Slot : InUse(i) => Filled(d, r)[i] = pool[i]
  BY <1>2, FilledFacts, Zenon
<1>4. \A i \in Slot : InUse(i) => pool'[i] = pool[i]
  BY <1>1, <1>3, Zenon
<1>5. RegistryTypeOK'
  <2>1. pool' \in [Slot -> [dest : Dest, router : Router] \cup {FreeSlot}]
    BY <1>2, <1>1, <1>3, Zenon DEF RegistryTypeOK
  <2> QED
    BY <1>1, <2>1 DEF RegistryTypeOK, lifeVars, proofVars
<1>6. OwnDestinations'
  BY <1>1 DEF OwnDestinations, lifeVars
<1>7. RoomIsKept'
  <2>1. ASSUME NEW q \in alive \cap welcome
        PROVE  \E i \in Slot : pool'[i] = [dest |-> DestOf[q], router |-> q]
    <3>1. q \in Router
      BY DEF RegistryTypeOK
    <3>2. PICK i \in Slot : pool[i] = [dest |-> DestOf[q], router |-> q]
      BY DEF RoomIsKept
    <3>3. InUse(i)
      BY <3>1, <3>2, TakenIsInUse, RegistryAssumption DEF InUse
    <3> QED
      BY <1>4, <3>2, <3>3
  <2> QED
    BY <1>1, <2>1 DEF RoomIsKept, lifeVars
<1>8. FirstIsSole'
  <2>1. SUFFICES ASSUME solo
                 PROVE  \E q \in Router :
                            /\ alive = {q}
                            /\ pool'[1] = [dest |-> DestOf[q], router |-> q]
    BY <1>1 DEF FirstIsSole, lifeVars
  <2>2. PICK q \in Router : /\ alive = {q}
                            /\ pool[1] = [dest |-> DestOf[q], router |-> q]
    BY <1>1, <2>1 DEF FirstIsSole
  <2>3. 1 \in Slot /\ InUse(1)
    BY <2>2, TakenIsInUse, RegistryAssumption DEF Slot, InUse
  <2> QED
    BY <1>4, <2>2, <2>3
<1> QED
  BY <1>5, <1>6, <1>7, <1>8

(* Steps that leave the pool and the living routers as they are.           *)
LEMMA QuietStepKeepsRegistry ==
    ASSUME RegistryInv, RegistryTypeOK',
           UNCHANGED <<pool, born, alive, welcome, solo>>
    PROVE  RegistryInv'
  BY DEF RegistryInv, OwnDestinations, RoomIsKept, FirstIsSole, InUse,
         FreeSlots

-----------------------------------------------------------------------------
(* The invariant.                                                          *)

(* The registry's inductive invariant holds throughout.                    *)
THEOREM RegistryInvariance == RegistrySpec => []RegistryInv
<1>1. RegistryInit => RegistryInv
  <2> SUFFICES ASSUME RegistryInit
               PROVE  RegistryInv
    OBVIOUS
  <2>1. RegistryTypeOK
    BY DEF RegistryInit, RegistryTypeOK
  <2>2. OwnDestinations
    BY DEF RegistryInit, OwnDestinations
  <2>3. 1 \in Slot /\ ~InUse(1)
    BY RegistryAssumption DEF RegistryInit, Slot, InUse
  <2>4. RoomIsKept /\ FirstIsSole
    BY <2>3 DEF RegistryInit, RoomIsKept, FirstIsSole, FreeSlots
  <2> QED
    BY <2>1, <2>2, <2>4 DEF RegistryInv
<1>2. RegistryInv /\ [RegistryNext]_registryVars => RegistryInv'
  <2> SUFFICES ASSUME RegistryInv, [RegistryNext]_registryVars
               PROVE  RegistryInv'
    OBVIOUS
  <2>1. ASSUME NEW r \in Router, Construct(r)
        PROVE  RegistryInv'
    BY <2>1, ConstructKeepsRegistry
  <2>2. ASSUME NEW r \in Router, Destroy(r)
        PROVE  RegistryInv'
    BY <2>2, DestroyKeepsRegistry
  <2>3. ASSUME NEW r \in Router, RegisterDeliveredCallback(r)
        PROVE  RegistryInv'
    <3>1. RegistryTypeOK'
      BY <2>3 DEF RegistryInv, RegistryTypeOK, RegisterDeliveredCallback,
                  linkVars, proofVars
    <3> QED
      BY <2>3, <3>1, QuietStepKeepsRegistry DEF RegisterDeliveredCallback
  <2>4. ASSUME NEW r \in Router, NEW d \in Dest, OpenLink(r, d)
        PROVE  RegistryInv'
    BY <2>4, OpenLinkKeepsRegistry
  <2>5. ASSUME NEW r \in Router, NEW d \in Dest, LinkCloses(r, d)
        PROVE  RegistryInv'
    <3>1. /\ open' \subseteq open
          /\ held' = [q \in Router |-> IF q = Lookup(d) THEN held[q] \ {d}
                                                       ELSE held[q]]
          /\ UNCHANGED <<pool, lifeVars, proofVars>>
      BY <2>5 DEF LinkCloses
    <3>2. RegistryTypeOK'
      BY <3>1 DEF RegistryInv, RegistryTypeOK, lifeVars, proofVars
    <3> QED
      BY <3>1, <3>2, QuietStepKeepsRegistry DEF lifeVars
  <2>6. ASSUME NEW r \in Router, NEW m \in Msg, Send(r, m)
        PROVE  RegistryInv'
    <3>1. RegistryTypeOK'
      BY <2>6 DEF RegistryInv, RegistryTypeOK, Send, lifeVars, linkVars
    <3> QED
      BY <2>6, <3>1, QuietStepKeepsRegistry DEF Send, lifeVars
  <2>7. ASSUME NEW m \in Msg, Proof(m)
        PROVE  RegistryInv'
    <3>1. RegistryTypeOK'
      BY <2>7 DEF RegistryInv, RegistryTypeOK, Proof, lifeVars, linkVars
    <3> QED
      BY <2>7, <3>1, QuietStepKeepsRegistry DEF Proof, lifeVars
  <2>8. CASE UNCHANGED registryVars
    <3>1. RegistryTypeOK'
      BY <2>8 DEF RegistryInv, RegistryTypeOK, registryVars, lifeVars,
                  linkVars, proofVars
    <3> QED
      BY <2>8, <3>1, QuietStepKeepsRegistry DEF registryVars, lifeVars
  <2> QED
    BY <2>1, <2>2, <2>3, <2>4, <2>5, <2>6, <2>7, <2>8 DEF RegistryNext
<1> QED
  BY <1>1, <1>2, PTL DEF RegistrySpec

(* Every variable keeps its type, in particular a slot in use always names *)
(* a destination and a router.                                             *)
THEOREM RegistryTypeCorrect == RegistrySpec => []RegistryTypeOK
<1>1. RegistryInv => RegistryTypeOK
  BY DEF RegistryInv
<1> QED
  BY <1>1, RegistryInvariance, PTL

(* No router loses the slot it was built with to the construction,         *)
(* destruction or links of another, and the death of the last one leaves   *)
(* room for the next (the constructor, ~LXMRouter()).                      *)
THEOREM SlotsAreKept == RegistrySpec => []RoomIsKept
<1>1. RegistryInv => RoomIsKept
  BY DEF RegistryInv
<1> QED
  BY <1>1, RegistryInvariance, PTL

(* A router that has always been alone is the first in the registry, so    *)
(* every callback reaches it (static_packet_callback(),                    *)
(* static_resource_concluded_callback()).                                  *)
THEOREM SoleRouterHearsAll == RegistrySpec => []SoleRouterIsFirst
<1>1. RegistryInv => SoleRouterIsFirst
  <2> SUFFICES ASSUME RegistryInv, solo, NEW r \in alive
               PROVE  Lookup(DestOf[r]) = r /\ FirstRegistered = r
    BY DEF SoleRouterIsFirst
  <2>1. r \in Router /\ pool[1] = [dest |-> DestOf[r], router |-> r]
    BY DEF RegistryInv, FirstIsSole
  <2>2. 1 \in Slot /\ InUse(1)
    BY <2>1, TakenIsInUse, RegistryAssumption DEF Slot, InUse
  <2>3. ASSUME NEW S, S \subseteq Slot, 1 \in S
        PROVE  FirstOf(S) = 1
    <3>1. FirstOf(S) \in Slot /\ FirstOf(S) <= 1
      BY <2>3, FirstSlot
    <3> QED
      BY <3>1, RegistryAssumption DEF Slot
  <2>4. SlotsOf(DestOf[r]) \subseteq Slot /\ 1 \in SlotsOf(DestOf[r])
    BY <2>1, <2>2 DEF SlotsOf
  <2>5. Slot \ FreeSlots \subseteq Slot /\ 1 \in Slot \ FreeSlots
    BY <2>2 DEF FreeSlots
  <2>6. Lookup(DestOf[r]) = r
    BY <2>1, <2>3, <2>4 DEF Lookup
  <2>7. FirstRegistered = r
    BY <2>1, <2>2, <2>3, <2>5 DEF FirstRegistered
  <2> QED
    BY <2>6, <2>7
<1> QED
  BY <1>1, RegistryInvariance, PTL

-----------------------------------------------------------------------------
(* The loop over the pool that reports a proof.                            *)

(* Induction up to a bound, over the set of the numbers a fact holds of.   *)
LEMMA UpTo ==
    ASSUME NEW N \in Nat, NEW S, 0 \in S,
           \A n \in 1..N : n - 1 \in S => n \in S
    PROVE  0..N \subseteq S
<1> DEFINE Missing == (0..N) \ S
<1>1. SUFFICES ASSUME Missing # {}
               PROVE  FALSE
  OBVIOUS
<1>2. Missing \subseteq Nat
  OBVIOUS
<1>3. PICK x \in Missing : \A y \in Missing : ~(<<y, x>> \in OpToRel(<, Nat))
  <2> HIDE DEF Missing
  <2> QED
    BY <1>1, <1>2, NatLessThanWellFounded, WFMin, Zenon
<1>4. OpToRel(<, Nat) = {ss \in Nat \X Nat : ss[1] < ss[2]}
  BY Zenon DEF OpToRel
<1>5. \A y \in Missing : ~(y < x)
  BY <1>2, <1>3, <1>4
<1>6. x \in 1..N /\ x - 1 \in 0..N
  OBVIOUS
<1>7. x - 1 \in S
  BY <1>5, <1>6
<1> QED
  BY <1>6, <1>7

(* What passing slot i adds to the routers called before it.               *)
Passing(i, called) ==
    IF Calls(i, called) THEN Append(called, pool[i].router) ELSE called

(* The list is what the loop makes of it, slot after slot: the recursive   *)
(* definition has a solution, built up one slot at a time.                 *)
LEMMA NotifiedStep ==
    /\ Notified[0] = <<>>
    /\ \A i \in Slot : Notified[i] = Passing(i, Notified[i - 1])
<1> DEFINE N == ROUTER_REGISTRY_SIZE
           Run(f, n) ==
               f = [i \in 0..n |-> IF i = 0 THEN <<>>
                                   ELSE Passing(i, f[i - 1])]
           Runs == {n \in 0..N : \E f : Run(f, n)}
<1>1. N \in Nat
  BY RegistryAssumption
<1>2. 0 \in Runs
  <2>1. Run([i \in 0..0 |-> <<>>], 0)
    OBVIOUS
  <2>2. 0 \in 0..N
    BY <1>1
  <2> QED
    BY <2>1, <2>2
<1>3. ASSUME NEW n \in 1..N, n - 1 \in Runs
      PROVE  n \in Runs
  <2>1. PICK f : Run(f, n - 1)
    BY <1>3
  <2> DEFINE g == [i \in 0..n |-> IF i < n THEN f[i]
                                  ELSE Passing(n, f[n - 1])]
  <2>2. ASSUME NEW i \in 0..n
        PROVE  g[i] = IF i = 0 THEN <<>> ELSE Passing(i, g[i - 1])
    <3>1. CASE i = 0
      BY <2>1, <3>1
    <3>2. CASE i # 0 /\ i < n
      <4>1. i \in 0..(n - 1) /\ i - 1 \in 0..n /\ i - 1 < n
        BY <3>2
      <4>2. f[i] = Passing(i, f[i - 1])
        BY <2>1, <3>2, <4>1
      <4> QED
        BY <3>2, <4>1, <4>2
    <3>3. CASE i = n
      <4>1. i # 0 /\ i - 1 \in 0..n /\ i - 1 < n
        BY <3>3
      <4> QED
        BY <3>3, <4>1
    <3> QED
      BY <3>1, <3>2, <3>3
  <2>3. Run(g, n)
    <3>1. g = [i \in 0..n |-> g[i]]
      OBVIOUS
    <3> QED
      BY <2>2, <3>1
  <2> HIDE DEF g, Run
  <2>4. \E h : Run(h, n)
    BY <2>3
  <2>5. n \in 0..N
    BY <1>1
  <2> QED
    BY <2>4, <2>5
<1>4. 0..N \subseteq Runs
  <2> HIDE DEF Runs
  <2> QED
    BY <1>1, <1>2, <1>3, UpTo
<1>5. \E f : Run(f, N)
  <2> HIDE DEF Run
  <2>1. N \in 0..N
    BY <1>1
  <2>2. N \in Runs
    BY <1>4, <2>1, Zenon
  <2> QED
    BY <2>2
<1>6. Notified = CHOOSE f : Run(f, N)
  BY DEF Notified, Passing
<1>7. Run(Notified, N)
  <2> HIDE DEF Run
  <2> QED
    BY <1>5, <1>6
<1>8. \A i \in 0..N : Notified[i] = IF i = 0 THEN <<>>
                                  ELSE Passing(i, Notified[i - 1])
  BY <1>7
<1> QED
  BY <1>1, <1>8 DEF Slot

(* The routers with a callback in the first i slots.                       *)
Heard(i) == {pool[j].router : j \in {k \in 1..i :
                                        /\ InUse(k)
                                        /\ pool[k].router \in listening}}

(* When the loop has passed slot i it has called exactly those, each once. *)
CalledOnce(i) ==
    /\ Notified[i] \in Seq(Router)
    /\ Range(Notified[i]) = Heard(i)
    /\ \A a, b \in DOMAIN Notified[i] :
           Notified[i][a] = Notified[i][b] => a = b

LEMMA EachIsCalledOnce ==
    ASSUME RegistryTypeOK
    PROVE  \A i \in 0..ROUTER_REGISTRY_SIZE : CalledOnce(i)
<1> DEFINE N == ROUTER_REGISTRY_SIZE
           Good == {i \in 0..N : CalledOnce(i)}
<1>1. N \in Nat /\ Slot = 1..N
  BY RegistryAssumption DEF Slot
<1>2. 0 \in Good
  <2>1. Notified[0] = <<>> /\ 0 \in 0..N
    BY <1>1, NotifiedStep
  <2>2. Heard(0) = {} /\ DOMAIN <<>> = {} /\ <<>> \in Seq(Router)
    BY DEF Heard
  <2>3. Range(Notified[0]) = {}
    BY <2>1, <2>2 DEF Range
  <2> QED
    BY <2>1, <2>2, <2>3 DEF CalledOnce
<1>3. ASSUME NEW i \in 1..N, i - 1 \in Good
      PROVE  i \in Good
  <2> DEFINE s == Notified[i - 1]
             r == pool[i].router
  <2>1. /\ s \in Seq(Router) /\ Range(s) = Heard(i - 1)
        /\ \A a, b \in DOMAIN s : s[a] = s[b] => a = b
        /\ i \in Slot /\ i \in 0..N
    BY <1>1, <1>3 DEF CalledOnce
  <2>2. Notified[i] = IF Calls(i, s) THEN Append(s, r) ELSE s
    BY <2>1, NotifiedStep DEF Passing
  <2>3. 1..i = 1..(i - 1) \cup {i}
    BY <1>1
  <2>4. CASE Calls(i, s)
    <3>1. r \in Router /\ r \notin Range(s)
      BY <2>1, <2>4, RegistryAssumption
         DEF Calls, InUse, RegistryTypeOK, FreeSlot
    <3>2. Notified[i] = Append(s, r)
      BY <2>2, <2>4
    <3>3. Heard(i) = Heard(i - 1) \cup {r}
      BY <2>3, <2>4 DEF Heard, Calls
    <3>4. /\ DOMAIN Append(s, r) = DOMAIN s \cup {Len(s) + 1}
          /\ \A j \in DOMAIN s : Append(s, r)[j] = s[j]
          /\ Append(s, r)[Len(s) + 1] = r
          /\ Len(s) + 1 \notin DOMAIN s
          /\ Append(s, r) \in Seq(Router)
      BY <2>1, <3>1
    <3> HIDE DEF s, r
    <3>5. Range(Append(s, r)) = Range(s) \cup {r}
      BY <3>4 DEF Range
    <3>6. \A a, b \in DOMAIN Append(s, r) :
              Append(s, r)[a] = Append(s, r)[b] => a = b
      BY <2>1, <3>1, <3>4 DEF Range
    <3> QED
      BY <2>1, <3>2, <3>3, <3>4, <3>5, <3>6 DEF CalledOnce
  <2>5. CASE ~Calls(i, s)
    <3>1. Heard(i) = Heard(i - 1)
      <4>1. InUse(i) /\ r \in listening => r \in Heard(i - 1)
        BY <2>1, <2>5 DEF Calls
      <4> HIDE DEF s
      <4> QED
        BY <2>3, <4>1 DEF Heard
    <3> QED
      BY <2>1, <2>2, <2>5, <3>1 DEF CalledOnce
  <2> QED
    BY <2>4, <2>5
<1>4. 0..N \subseteq Good
  <2> HIDE DEF Good
  <2> QED
    BY <1>1, <1>2, <1>3, UpTo
<1> QED
  BY <1>4

(* How often the whole loop calls a router: once or not at all.            *)
LEMMA TimesCalled ==
    ASSUME RegistryTypeOK, NEW r
    PROVE  LET called == Notified[ROUTER_REGISTRY_SIZE]
               times == Cardinality({j \in DOMAIN called : called[j] = r})
           IN  /\ times \in {0, 1}
               /\ r \in Heard(ROUTER_REGISTRY_SIZE) => times = 1
<1> DEFINE called == Notified[ROUTER_REGISTRY_SIZE]
           at == {j \in DOMAIN called : called[j] = r}
<1>1. ROUTER_REGISTRY_SIZE \in 0..ROUTER_REGISTRY_SIZE
  BY RegistryAssumption
<1>2. CalledOnce(ROUTER_REGISTRY_SIZE)
  BY <1>1, EachIsCalledOnce
<1>3. at = {} \/ \E j : at = {j}
  BY <1>2 DEF CalledOnce
<1>4. Cardinality(at) \in {0, 1} /\ (at # {} => Cardinality(at) = 1)
  <2> HIDE DEF at
  <2> QED
    BY <1>3, FS_EmptySet, FS_Singleton
<1>5. r \in Heard(ROUTER_REGISTRY_SIZE) => at # {}
  BY <1>2 DEF CalledOnce, Range
<1> QED
  BY <1>4, <1>5

-----------------------------------------------------------------------------
(* Who hears of a proof.                                                   *)

(* A callback has heard of a message once or never, and never of one that  *)
(* has not been sent or whose packet is still awaited.                     *)
ToldOnce ==
    /\ told \in [Msg -> [Router -> {0, 1}]]
    /\ \A m \in Msg : \/ m \in flight
                      \/ sender[m] = NoRouter
                      => \A r \in Router : told[m][r] = 0
    /\ \A m \in flight : sender[m] # NoRouter

(* What a proof changes, with the list of the called routers left out.     *)
LEMMA ProofEffect ==
    ASSUME RegistryTypeOK, ToldOnce, NEW m \in Msg, Proof(m)
    PROVE  /\ m \in flight /\ flight' = flight \ {m}
           /\ told' \in [Msg -> [Router -> {0, 1}]]
           /\ \A q \in Msg \ {m} : told'[q] = told[q]
           /\ \A r \in alive :
                  r \in Heard(ROUTER_REGISTRY_SIZE) => told'[m][r] = 1
           /\ UNCHANGED <<pool, lifeVars, linkVars, sender>>
<1> DEFINE called == Notified[ROUTER_REGISTRY_SIZE]
           times(r) == Cardinality({j \in DOMAIN called : called[j] = r})
           row == [r \in Router |-> IF r \in alive THEN told[m][r] + times(r)
                                                   ELSE told[m][r]]
<1>1. /\ m \in flight /\ flight' = flight \ {m}
      /\ told' = [told EXCEPT ![m] = row]
      /\ UNCHANGED <<pool, lifeVars, linkVars, sender>>
  BY DEF Proof
<1>2. /\ told \in [Msg -> [Router -> {0, 1}]]
      /\ \A r \in Router : told[m][r] = 0
  BY <1>1 DEF ToldOnce
<1>3. ASSUME NEW r \in Router
      PROVE  /\ times(r) \in {0, 1}
             /\ r \in Heard(ROUTER_REGISTRY_SIZE) => times(r) = 1
  BY TimesCalled
<1> HIDE DEF called, times
<1>4. row \in [Router -> {0, 1}]
  BY <1>2, <1>3
<1>5. \A r \in alive : r \in Heard(ROUTER_REGISTRY_SIZE) => row[r] = 1
  BY <1>2, <1>3 DEF RegistryTypeOK
<1> HIDE DEF row
<1> QED
  BY <1>1, <1>2, <1>4, <1>5

LEMMA ToldInvariance == RegistrySpec => []ToldOnce
<1>1. RegistryInit => ToldOnce
  BY DEF RegistryInit, ToldOnce
<1>2. RegistryTypeOK /\ ToldOnce /\ [RegistryNext]_registryVars => ToldOnce'
  <2> SUFFICES ASSUME RegistryTypeOK, ToldOnce, [RegistryNext]_registryVars
               PROVE  ToldOnce'
    OBVIOUS
  <2>1. ASSUME NEW r \in Router, NEW m \in Msg, Send(r, m)
        PROVE  ToldOnce'
    <3>1. /\ sender[m] = NoRouter /\ flight' = flight \cup {m}
          /\ sender' = [sender EXCEPT ![m] = r] /\ told' = told
      BY <2>1 DEF Send
    <3>2. \A q \in Msg \ {m} : sender'[q] = sender[q]
      BY <3>1 DEF RegistryTypeOK
    <3>3. sender'[m] # NoRouter
      BY <3>1, RegistryAssumption DEF RegistryTypeOK
    <3>4. ASSUME NEW q \in Msg, q \in flight' \/ sender'[q] = NoRouter
          PROVE  \A x \in Router : told[q][x] = 0
      BY <3>1, <3>2, <3>4 DEF ToldOnce
    <3>5. ASSUME NEW q \in flight'
          PROVE  sender'[q] # NoRouter
      BY <3>1, <3>2, <3>3, <3>5 DEF ToldOnce, RegistryTypeOK
    <3> QED
      BY <3>1, <3>4, <3>5 DEF ToldOnce
  <2>2. ASSUME NEW m \in Msg, Proof(m)
        PROVE  ToldOnce'
    <3>1. /\ m \in flight /\ flight' = flight \ {m}
          /\ told' \in [Msg -> [Router -> {0, 1}]]
          /\ \A q \in Msg \ {m} : told'[q] = told[q]
          /\ sender' = sender
      BY <2>2, ProofEffect
    <3>2. told'[m] \in [Router -> {0, 1}] /\ m \notin flight'
      BY <3>1
    <3>3. ASSUME NEW q \in Msg, q \in flight' \/ sender'[q] = NoRouter
          PROVE  \A r \in Router : told'[q][r] = 0
      BY <3>1, <3>3 DEF ToldOnce
    <3> QED
      BY <3>1, <3>3 DEF ToldOnce
  <2>3. CASE UNCHANGED proofVars
    BY <2>3 DEF ToldOnce, proofVars
  <2>4. CASE UNCHANGED registryVars
    BY <2>3, <2>4 DEF registryVars
  <2>5. ASSUME NEW r \in Router,
               \/ Construct(r) \/ Destroy(r) \/ RegisterDeliveredCallback(r)
        PROVE  UNCHANGED proofVars
    BY <2>5 DEF Construct, Destroy, RegisterDeliveredCallback
  <2>6. ASSUME NEW r \in Router, NEW d \in Dest,
               OpenLink(r, d) \/ LinkCloses(r, d)
        PROVE  UNCHANGED proofVars
    BY <2>6 DEF OpenLink, LinkCloses
  <2> QED
    BY <2>1, <2>2, <2>3, <2>4, <2>5, <2>6 DEF RegistryNext
<1> QED
  BY <1>1, <1>2, RegistryTypeCorrect, PTL DEF RegistrySpec

(* A proof is told to each living router once at most, although it may     *)
(* have taken every slot, and to the sender if it lives, listens and found *)
(* a slot when it was built (static_proof_callback(),                      *)
(* handle_direct_proof()).                                                 *)
THEOREM ProofsHeardOnce == RegistrySpec => ProofsAreHeardOnce
<1>1. ASSUME RegistryInv, ToldOnce, [RegistryNext]_registryVars,
             NEW m \in flight \ flight', NEW r \in Router
      PROVE  /\ told'[m][r] <= 1
             /\ r = sender[m] /\ r \in alive \cap listening \cap welcome =>
                    told'[m][r] = 1
  <2>1. m \in Msg /\ RegistryTypeOK
    BY <1>1 DEF RegistryInv, RegistryTypeOK
  <2>2. Proof(m)
    <3>1. ASSUME NEW q \in Router, NEW d \in Dest,
                 OpenLink(q, d) \/ LinkCloses(q, d)
          PROVE  flight' = flight
      BY <3>1 DEF OpenLink, LinkCloses, proofVars
    <3>2. ASSUME NEW q \in Router,
                 \/ Construct(q) \/ Destroy(q) \/ RegisterDeliveredCallback(q)
                 \/ \E x \in Msg : Send(q, x)
          PROVE  flight \subseteq flight'
      BY <3>2 DEF Construct, Destroy, RegisterDeliveredCallback, Send,
                  proofVars
    <3>3. ASSUME NEW x \in Msg, Proof(x)
          PROVE  flight' = flight \ {x}
      BY <3>3 DEF Proof
    <3>4. CASE UNCHANGED registryVars
      BY <1>1, <3>4 DEF registryVars, proofVars
    <3> QED
      BY <1>1, <3>1, <3>2, <3>3, <3>4 DEF RegistryNext
  <2>3. /\ told' \in [Msg -> [Router -> {0, 1}]]
        /\ \A q \in alive :
               q \in Heard(ROUTER_REGISTRY_SIZE) => told'[m][q] = 1
    BY <1>1, <2>1, <2>2, ProofEffect
  <2>4. told'[m][r] \in {0, 1}
    BY <2>1, <2>3
  <2>5. ASSUME r \in alive \cap listening \cap welcome
        PROVE  told'[m][r] = 1
    <3>1. PICK i \in Slot : pool[i] = [dest |-> DestOf[r], router |-> r]
      BY <1>1, <2>5 DEF RegistryInv, RoomIsKept
    <3>2. InUse(i)
      BY <3>1, TakenIsInUse, RegistryAssumption DEF InUse
    <3>3. r \in Heard(ROUTER_REGISTRY_SIZE)
      BY <2>5, <3>1, <3>2 DEF Heard, Slot
    <3> QED
      BY <2>3, <2>5, <3>3
  <2> QED
    BY <2>4, <2>5
<1>2. RegistryInv /\ ToldOnce /\ [RegistryNext]_registryVars
          => [\A m \in flight \ flight', r \in Router :
                 /\ told'[m][r] <= 1
                 /\ r = sender[m] /\ r \in alive \cap listening \cap welcome =>
                        told'[m][r] = 1]_registryVars
  BY <1>1
<1> QED
  BY <1>2, RegistryInvariance, ToldInvariance, PTL
     DEF RegistrySpec, ProofsAreHeardOnce
=============================================================================

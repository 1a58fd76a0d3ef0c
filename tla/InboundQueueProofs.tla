------------------------- MODULE InboundQueueProofs -------------------------
(***************************************************************************)
(* Theorems of InboundQueue for every set of messages, queue size and ring *)
(* size.  IInv is inductive: RingIsEndOfHistory relates the ring, whose    *)
(* next slot wraps, to the dispatch history, and gives both that a         *)
(* duplicate has been dispatched before and that a message whose hash is   *)
(* not in the ring has not been dispatched lately.                         *)
(*                                                                         *)
(* The last part is about PropagationSync, which feeds the queue: the      *)
(* control of a sync, for every node, link and schedule of late answers.   *)
(***************************************************************************)
EXTENDS PropagationSync, SequenceTheorems, WellFoundedInduction, TLAPS

USE InboundAssumption

-----------------------------------------------------------------------------
(* Facts about sequences of copies.                                        *)

(* The messages of a queue after a copy is appended to it.                 *)
LEMMA MsgsOfAppend ==
    ASSUME NEW q \in Seq(Copy), NEW c \in Copy
    PROVE  Msgs(Append(q, c)) = Msgs(q) \cup {c.msg}
<1>1. /\ Append(q, c) \in Seq(Copy)
      /\ Len(Append(q, c)) = Len(q) + 1
      /\ Append(q, c)[Len(q) + 1] = c
      /\ \A i \in 1..Len(q) : Append(q, c)[i] = q[i]
  OBVIOUS
<1>2. Len(q) \in Nat
  OBVIOUS
<1>3. 1..(Len(q) + 1) = (1..Len(q)) \cup {Len(q) + 1}
  BY <1>2
<1> QED
  BY <1>1, <1>2, <1>3 DEF Msgs

(* The messages of a queue are those of its head and of its tail.          *)
LEMMA MsgsOfTail ==
    ASSUME NEW q \in Seq(Copy), q # <<>>
    PROVE  Msgs(q) = {Head(q).msg} \cup Msgs(Tail(q))
<1>1. /\ Tail(q) \in Seq(Copy)
      /\ Len(Tail(q)) = Len(q) - 1
      /\ Len(q) \in Nat \ {0}
      /\ Head(q) = q[1]
      /\ \A i \in 1..(Len(q) - 1) : Tail(q)[i] = q[i + 1]
  OBVIOUS
<1>2. ASSUME NEW i \in 1..Len(q)
      PROVE  q[i].msg \in {Head(q).msg} \cup Msgs(Tail(q))
  <2>1. CASE i = 1
    BY <1>1, <2>1
  <2>2. CASE i # 1
    <3>1. i - 1 \in 1..Len(Tail(q)) /\ Tail(q)[i - 1] = q[i]
      BY <1>1, <1>2, <2>2
    <3> QED
      BY <3>1 DEF Msgs
  <2> QED
    BY <2>1, <2>2
<1>3. ASSUME NEW i \in 1..Len(Tail(q))
      PROVE  Tail(q)[i].msg \in Msgs(q)
  <2>1. i + 1 \in 1..Len(q) /\ Tail(q)[i] = q[i + 1]
    BY <1>1, <1>3
  <2> QED
    BY <2>1 DEF Msgs
<1>4. Head(q).msg \in Msgs(q)
  BY <1>1 DEF Msgs
<1> QED
  BY <1>2, <1>3, <1>4 DEF Msgs

(* Head and tail of a queue keep its type.                                 *)
LEMMA HeadAndTail ==
    ASSUME NEW q \in Seq(Copy), q # <<>>
    PROVE  /\ Head(q) \in Copy
           /\ Tail(q) \in Seq(Copy)
           /\ Len(Tail(q)) = Len(q) - 1
           /\ Len(q) \in Nat \ {0}
  OBVIOUS

-----------------------------------------------------------------------------
(* Enqueueing.                                                             *)

(* A copy is unpacked with the right type.                                 *)
LEMMA UnpackedType ==
    ASSUME NEW m \in Msg, NEW route \in Route
    PROVE  /\ Unpacked(m, route) \in Copy
           /\ Unpacked(m, route).msg = m
  BY DEF Unpacked, SignatureOf, Copy, Signature

(* pending_inbound_push() keeps the queue within its size and loses the    *)
(* trace of no message.                                                    *)
LEMMA EnqueueKeeps ==
    ASSUME TypeOK, NothingVanishes, NEW c \in Copy, Enqueue(c),
           UNCHANGED dispatched
    PROVE  /\ inbound' \in Seq(Copy) /\ Len(inbound') <= PENDING_INBOUND_SIZE
           /\ accepted' = accepted \cup {c.msg}
           /\ accepted' \subseteq Msg
           /\ evicted' \subseteq Msg
           /\ NothingVanishes'
<1> USE DEF TypeOK
<1>0. c.msg \in Msg
  BY DEF Copy
<1>1. CASE Full
  <2>1. inbound # <<>>
    BY <1>1 DEF Full
  <2>2. /\ Head(inbound) \in Copy
        /\ Tail(inbound) \in Seq(Copy)
        /\ Len(Tail(inbound)) = Len(inbound) - 1
        /\ Len(inbound) \in Nat \ {0}
    BY <2>1, HeadAndTail
  <2>3. /\ inbound' = Append(Tail(inbound), c)
        /\ evicted' = evicted \cup {Head(inbound).msg}
        /\ accepted' = accepted \cup {c.msg}
    BY <1>1 DEF Enqueue
  <2>4. Msgs(inbound') = Msgs(Tail(inbound)) \cup {c.msg}
    BY <2>2, <2>3, MsgsOfAppend
  <2>5. Msgs(inbound) = {Head(inbound).msg} \cup Msgs(Tail(inbound))
    BY <2>1, MsgsOfTail
  <2>6. Head(inbound).msg \in Msg
    BY <2>2 DEF Copy
  <2>7. inbound' \in Seq(Copy) /\ Len(inbound') = Len(inbound)
    BY <2>2, <2>3
  <2>8. NothingVanishes'
    <3>1. accepted \subseteq Msgs(inbound) \cup Msgs(dispatched) \cup evicted
      BY DEF NothingVanishes
    <3>2. accepted' \subseteq Msgs(inbound') \cup Msgs(dispatched) \cup evicted'
      BY <2>3, <2>4, <2>5, <3>1
    <3> QED
      BY <3>2, Zenon DEF NothingVanishes, Msgs
  <2> QED
    BY <1>0, <2>3, <2>6, <2>7, <2>8
<1>2. CASE ~Full
  <2>1. /\ inbound' = Append(inbound, c)
        /\ evicted' = evicted
        /\ accepted' = accepted \cup {c.msg}
    BY <1>2 DEF Enqueue
  <2>2. Msgs(inbound') = Msgs(inbound) \cup {c.msg}
    BY <2>1, MsgsOfAppend
  <2>3. /\ inbound' \in Seq(Copy)
        /\ Len(inbound') = Len(inbound) + 1
        /\ Len(inbound) \in Nat
    BY <2>1
  <2>4. Len(inbound) # PENDING_INBOUND_SIZE
    BY <1>2 DEF Full
  <2>5. NothingVanishes'
    BY <2>1, <2>2, Zenon DEF NothingVanishes, Msgs
  <2> QED
    BY <1>0, <2>1, <2>3, <2>4, <2>5
<1> QED
  BY <1>1, <1>2

-----------------------------------------------------------------------------
(* The ring.                                                               *)

(* Every slot of the ring is the slot of one of the last dispatches.       *)
LEMMA EverySlotIsLast ==
    ASSUME TypeOK, NEW s \in Slot
    PROVE  \E k \in 1..RECENT_INBOUND_SIZE : SlotOfLast(k) = s
<1>0. /\ RECENT_INBOUND_SIZE \in Nat \ {0}
      /\ recentNext \in 0..(RECENT_INBOUND_SIZE - 1)
      /\ s \in 0..(RECENT_INBOUND_SIZE - 1)
  BY DEF TypeOK, Slot
<1>1. CASE s < recentNext
  <2>1. recentNext - s \in 1..RECENT_INBOUND_SIZE
    BY <1>0, <1>1
  <2>2. SlotOfLast(recentNext - s) = s
    BY <1>0, <1>1 DEF SlotOfLast
  <2> QED
    BY <2>1, <2>2
<1>2. CASE ~(s < recentNext)
  <2>1. recentNext + RECENT_INBOUND_SIZE - s \in 1..RECENT_INBOUND_SIZE
    BY <1>0, <1>2
  <2>2. SlotOfLast(recentNext + RECENT_INBOUND_SIZE - s) = s
    BY <1>0, <1>2 DEF SlotOfLast
  <2> QED
    BY <2>1, <2>2
<1> QED
  BY <1>1, <1>2

(* A hash found in the ring has been dispatched: dropping its copy as a    *)
(* duplicate loses nothing.                                                *)
LEMMA DuplicateWasDispatched ==
    ASSUME TypeOK, RingIsEndOfHistory, NEW m \in Msg, IsRecentlyDelivered(m)
    PROVE  m \in Msgs(dispatched)
<1>1. PICK s \in Slot : recent[s] = m
  BY DEF IsRecentlyDelivered
<1>2. PICK k \in 1..RECENT_INBOUND_SIZE : SlotOfLast(k) = s
  BY EverySlotIsLast
<1>3. k <= Len(dispatched) /\ dispatched[Len(dispatched) - k + 1].msg = m
  BY <1>1, <1>2 DEF RingIsEndOfHistory
<1>4. Len(dispatched) - k + 1 \in 1..Len(dispatched)
  BY <1>2, <1>3 DEF TypeOK
<1> QED
  BY <1>3, <1>4 DEF Msgs

(* A hash that is not in the ring is none of the last dispatches.          *)
LEMMA FreshWasNotDispatchedLately ==
    ASSUME TypeOK, RingIsEndOfHistory, NEW m \in Msg, ~IsRecentlyDelivered(m),
           NEW i \in 1..Len(dispatched), dispatched[i].msg = m
    PROVE  Len(dispatched) + 1 - i > RECENT_INBOUND_SIZE
<1> DEFINE k == Len(dispatched) + 1 - i
<1>0. /\ RECENT_INBOUND_SIZE \in Nat \ {0}
      /\ recentNext \in 0..(RECENT_INBOUND_SIZE - 1)
      /\ Len(dispatched) \in Nat
      /\ i \in 1..Len(dispatched)
  BY DEF TypeOK, Slot
<1>1. SUFFICES ASSUME k <= RECENT_INBOUND_SIZE
               PROVE  FALSE
  BY <1>0
<1>2. k \in 1..RECENT_INBOUND_SIZE /\ k <= Len(dispatched)
  BY <1>0, <1>1
<1>3. SlotOfLast(k) \in Slot
  BY <1>0, <1>2 DEF SlotOfLast, Slot
<1>4. Len(dispatched) - k + 1 = i
  BY <1>0
<1>5. recent[SlotOfLast(k)] = m
  BY <1>2, <1>4 DEF RingIsEndOfHistory
<1> QED
  BY <1>3, <1>5 DEF IsRecentlyDelivered

-----------------------------------------------------------------------------
(* The steps.                                                              *)

(* A dispatch writes the slot of the oldest remembered dispatch, and every *)
(* other slot moves one place further back.                                *)
LEMMA DispatchKeepsRing ==
    ASSUME TypeOK, RingIsEndOfHistory, Dispatch
    PROVE  recent' \in [Slot -> Msg \cup {NoMsg}] /\ recentNext' \in Slot
           /\ RingIsEndOfHistory'
<1> DEFINE R == RECENT_INBOUND_SIZE
           n == Len(dispatched)
           h == Head(inbound)
<1>0. /\ R \in Nat \ {0}
      /\ recentNext \in 0..(R - 1)
      /\ n \in Nat
      /\ dispatched \in Seq(Copy)
      /\ recent \in [Slot -> Msg \cup {NoMsg}]
  BY DEF TypeOK, Slot
<1>1. h \in Copy /\ h.msg \in Msg
  BY HeadAndTail DEF TypeOK, Dispatch, Copy
<1>2. /\ recent' = [recent EXCEPT ![recentNext] = h.msg]
      /\ recentNext' = IF recentNext + 1 = R THEN 0 ELSE recentNext + 1
      /\ dispatched' = Append(dispatched, h)
  BY DEF Dispatch, MarkRecentlyDelivered, NextSlot
<1>3. recent' \in [Slot -> Msg \cup {NoMsg}] /\ recentNext' \in Slot
  BY <1>0, <1>1, <1>2 DEF Slot
<1>4. /\ Len(dispatched') = n + 1
      /\ dispatched'[n + 1] = h
      /\ \A i \in 1..n : dispatched'[i] = dispatched[i]
  BY <1>0, <1>1, <1>2
<1>5. ASSUME NEW k \in 1..R
      PROVE  recent'[SlotOfLast(k)'] =
                 IF k <= Len(dispatched')
                 THEN dispatched'[Len(dispatched') - k + 1].msg ELSE NoMsg
  <2>1. CASE k = 1
    <3>1. SlotOfLast(k)' = recentNext
      BY <1>0, <1>2, <2>1 DEF SlotOfLast
    <3>2. recent'[recentNext] = h.msg
      BY <1>0, <1>2 DEF Slot
    <3> QED
      BY <1>0, <1>4, <2>1, <3>1, <3>2
  <2>2. CASE k # 1
    <3>1. k - 1 \in 1..R
      BY <1>0, <1>5, <2>2
    <3>2. /\ SlotOfLast(k)' = SlotOfLast(k - 1)
          /\ SlotOfLast(k - 1) \in Slot
          /\ SlotOfLast(k - 1) # recentNext
      BY <1>0, <1>2, <1>5, <2>2 DEF SlotOfLast, Slot
    <3>3. recent'[SlotOfLast(k)'] = recent[SlotOfLast(k - 1)]
      BY <1>0, <1>2, <3>2
    <3>4. recent[SlotOfLast(k - 1)] =
              IF k - 1 <= n THEN dispatched[n - (k - 1) + 1].msg ELSE NoMsg
      BY <3>1 DEF RingIsEndOfHistory
    <3>5. CASE k - 1 <= n
      <4>1. n - (k - 1) + 1 \in 1..n /\ n - (k - 1) + 1 = (n + 1) - k + 1
        BY <1>0, <3>1, <3>5
      <4>2. dispatched'[(n + 1) - k + 1] = dispatched[n - (k - 1) + 1]
        BY <1>4, <4>1
      <4>3. k <= n + 1
        BY <1>0, <3>1, <3>5
      <4> QED
        BY <1>4, <3>3, <3>4, <3>5, <4>2, <4>3
    <3>6. CASE ~(k - 1 <= n)
      <4>1. ~(k <= n + 1)
        BY <1>0, <3>1, <3>6
      <4> QED
        BY <1>4, <3>3, <3>4, <3>6, <4>1
    <3> QED
      BY <3>5, <3>6
  <2> QED
    BY <2>1, <2>2
<1> QED
  BY <1>3, <1>5 DEF RingIsEndOfHistory

(* A dispatched message was not dispatched lately.                         *)
LEMMA DispatchKeepsWindow ==
    ASSUME TypeOK, RingIsEndOfHistory, DispatchedOncePerWindow, Dispatch
    PROVE  DispatchedOncePerWindow'
<1> DEFINE n == Len(dispatched)
           h == Head(inbound)
<1>0. h \in Copy /\ h.msg \in Msg
  BY HeadAndTail DEF TypeOK, Dispatch, Copy
<1>1. n \in Nat /\ dispatched \in Seq(Copy) /\ h \in Copy /\ h.msg \in Msg
  BY <1>0 DEF TypeOK
<1>2. dispatched' = Append(dispatched, h) /\ ~IsRecentlyDelivered(h.msg)
  BY DEF Dispatch
<1>3. /\ Len(dispatched') = n + 1
      /\ dispatched'[n + 1] = h
      /\ \A i \in 1..n : dispatched'[i] = dispatched[i]
  BY <1>1, <1>2
<1>4. ASSUME NEW i \in 1..(n + 1), NEW j \in 1..(n + 1), i < j,
             dispatched'[i].msg = dispatched'[j].msg
      PROVE  j - i > RECENT_INBOUND_SIZE
  <2>1. i \in 1..n /\ dispatched'[i] = dispatched[i]
    BY <1>1, <1>3, <1>4
  <2>2. CASE j = n + 1
    BY <1>1, <1>2, <1>3, <1>4, <2>1, <2>2, FreshWasNotDispatchedLately
  <2>3. CASE j # n + 1
    <3>1. j \in 1..n /\ dispatched'[j] = dispatched[j]
      BY <1>1, <1>3, <1>4, <2>3
    <3> QED
      BY <1>4, <2>1, <3>1 DEF DispatchedOncePerWindow
  <2> QED
    BY <2>2, <2>3
<1> QED
  BY <1>3, <1>4 DEF DispatchedOncePerWindow

(* Popping the front of the queue keeps a trace of it when it has been     *)
(* dispatched.                                                             *)
LEMMA PopKeeps ==
    ASSUME TypeOK, NothingVanishes, inbound # <<>>, inbound' = Tail(inbound),
           UNCHANGED historyVars,
           Msgs(dispatched) \cup {Head(inbound).msg} \subseteq Msgs(dispatched')
    PROVE  /\ inbound' \in Seq(Copy) /\ Len(inbound') <= PENDING_INBOUND_SIZE
           /\ NothingVanishes'
<1>1. /\ Tail(inbound) \in Seq(Copy)
      /\ Len(Tail(inbound)) = Len(inbound) - 1
      /\ Len(inbound) \in Nat \ {0}
  BY HeadAndTail DEF TypeOK
<1>2. Len(inbound') <= PENDING_INBOUND_SIZE
  BY <1>1 DEF TypeOK
<1>3. Msgs(inbound) = {Head(inbound).msg} \cup Msgs(Tail(inbound))
  BY MsgsOfTail DEF TypeOK
<1>4. Msgs(inbound') = Msgs(Tail(inbound))
  BY DEF Msgs
<1>5. accepted' = accepted /\ evicted' = evicted
  BY DEF historyVars
<1>6. Msgs(dispatched)' = Msgs(dispatched')
  BY DEF Msgs
<1> QED
  BY <1>1, <1>2, <1>3, <1>4, <1>5, <1>6 DEF NothingVanishes, Msgs

(* IInv holds at the start.                                                *)
LEMMA InitEstablishes == Init => IInv
<1> SUFFICES ASSUME Init PROVE IInv
  OBVIOUS
<1>1. TypeOK
  BY DEF Init, TypeOK, Slot
<1>2. RingIsEndOfHistory
  <2> SUFFICES ASSUME NEW k \in 1..RECENT_INBOUND_SIZE
               PROVE  recent[SlotOfLast(k)] = NoMsg
    BY DEF Init, RingIsEndOfHistory
  <2>1. SlotOfLast(k) \in Slot
    BY DEF Init, SlotOfLast, Slot
  <2> QED
    BY <2>1 DEF Init
<1>3. DispatchedOncePerWindow /\ NothingVanishes /\ ProvedIsAccepted
  BY DEF Init, DispatchedOncePerWindow, NothingVanishes, ProvedIsAccepted
<1> QED
  BY <1>1, <1>2, <1>3 DEF IInv

(* A copy that arrives, over whichever route, keeps IInv.                  *)
LEMMA ArrivalKeeps ==
    ASSUME IInv, NEW m \in Msg, NEW route \in Route, Arrive,
           Enqueue(Unpacked(m, route)),
           proved' \subseteq proved \cup {m},
           UNCHANGED <<recent, recentNext, known, enforcing, dispatched>>
    PROVE  IInv'
<1> DEFINE c == Unpacked(m, route)
<1>1. c \in Copy /\ c.msg = m
  BY UnpackedType
<1>2. /\ inbound' \in Seq(Copy) /\ Len(inbound') <= PENDING_INBOUND_SIZE
      /\ accepted' = accepted \cup {c.msg}
      /\ accepted' \subseteq Msg
      /\ evicted' \subseteq Msg
      /\ NothingVanishes'
  BY <1>1, EnqueueKeeps DEF IInv
<1>3. ProvedIsAccepted'
  BY <1>1, <1>2 DEF IInv, ProvedIsAccepted
<1>4. TypeOK'
  BY <1>2 DEF IInv, TypeOK, Arrive
<1>5. RingIsEndOfHistory'
  BY DEF IInv, RingIsEndOfHistory, SlotOfLast
<1>6. DispatchedOncePerWindow'
  BY DEF IInv, DispatchedOncePerWindow
<1> QED
  BY <1>2, <1>3, <1>4, <1>5, <1>6 DEF IInv

(* A step that leaves the queue, the ring and the histories alone keeps    *)
(* IInv.                                                                   *)
LEMMA OtherStepsKeep ==
    ASSUME IInv, known' \subseteq Msg, enforcing' \in BOOLEAN,
           UNCHANGED <<inbound, recent, recentNext, arrivals, historyVars,
                       dispatched>>
    PROVE  IInv'
<1> USE DEF IInv, historyVars
<1>1. TypeOK'
  BY DEF TypeOK
<1>2. RingIsEndOfHistory'
  BY DEF RingIsEndOfHistory, SlotOfLast
<1>3. DispatchedOncePerWindow'
  BY DEF DispatchedOncePerWindow
<1>4. NothingVanishes' /\ ProvedIsAccepted'
  BY DEF NothingVanishes, ProvedIsAccepted, Msgs
<1> QED
  BY <1>1, <1>2, <1>3, <1>4

(* Every step of the specification keeps IInv.                             *)
LEMMA StepKeeps == IInv /\ [Next]_inboundVars => IInv'
<1> SUFFICES ASSUME IInv, [Next]_inboundVars PROVE IInv'
  OBVIOUS
<1>1. ASSUME NEW m \in Msg, OnPacket(m) PROVE IInv'
  BY <1>1, ArrivalKeeps DEF OnPacket, Route
<1>2. ASSUME NEW m \in Msg, OnResourceConcluded(m) PROVE IInv'
  BY <1>2, ArrivalKeeps DEF OnResourceConcluded, Route
<1>3. ASSUME NEW m \in Msg, ProcessPropagated(m) PROVE IInv'
  BY <1>3, ArrivalKeeps DEF ProcessPropagated, Route
<1>4. CASE DropDuplicate
  <2>1. /\ inbound # <<>>
        /\ IsRecentlyDelivered(Head(inbound).msg)
        /\ inbound' = Tail(inbound)
        /\ UNCHANGED <<recent, recentNext, known, enforcing, arrivals,
                       historyVars, dispatched>>
    BY <1>4 DEF DropDuplicate
  <2>2. Head(inbound).msg \in Msg
    BY <2>1, HeadAndTail DEF IInv, TypeOK, Copy
  <2>3. Head(inbound).msg \in Msgs(dispatched)
    BY <2>1, <2>2, DuplicateWasDispatched DEF IInv
  <2>4. Msgs(dispatched) \cup {Head(inbound).msg} \subseteq Msgs(dispatched')
    BY <2>1, <2>3
  <2>5. /\ inbound' \in Seq(Copy) /\ Len(inbound') <= PENDING_INBOUND_SIZE
        /\ NothingVanishes'
    BY <2>1, <2>4, PopKeeps DEF IInv
  <2>6. TypeOK'
    BY <2>1, <2>5 DEF IInv, TypeOK, historyVars
  <2>7. RingIsEndOfHistory'
    BY <2>1 DEF IInv, RingIsEndOfHistory, SlotOfLast
  <2>8. DispatchedOncePerWindow' /\ ProvedIsAccepted'
    BY <2>1 DEF IInv, DispatchedOncePerWindow, ProvedIsAccepted, historyVars
  <2> QED
    BY <2>5, <2>6, <2>7, <2>8 DEF IInv
<1>5. CASE Dispatch
  <2>1. /\ inbound # <<>>
        /\ dispatched' = Append(dispatched, Head(inbound))
        /\ inbound' = Tail(inbound)
        /\ UNCHANGED <<known, enforcing, arrivals, historyVars>>
    BY <1>5 DEF Dispatch
  <2>2. Head(inbound) \in Copy
    BY <2>1, HeadAndTail DEF IInv, TypeOK
  <2>3. /\ dispatched' \in Seq(Copy)
        /\ Msgs(dispatched') = Msgs(dispatched) \cup {Head(inbound).msg}
    BY <2>1, <2>2, MsgsOfAppend DEF IInv, TypeOK
  <2>4. /\ inbound' \in Seq(Copy) /\ Len(inbound') <= PENDING_INBOUND_SIZE
        /\ NothingVanishes'
    BY <2>1, <2>3, PopKeeps DEF IInv
  <2>5. /\ recent' \in [Slot -> Msg \cup {NoMsg}]
        /\ recentNext' \in Slot
        /\ RingIsEndOfHistory'
    BY <1>5, DispatchKeepsRing DEF IInv
  <2>6. TypeOK'
    BY <2>1, <2>3, <2>4, <2>5 DEF IInv, TypeOK, historyVars
  <2>7. DispatchedOncePerWindow'
    BY <1>5, DispatchKeepsWindow DEF IInv
  <2>8. ProvedIsAccepted'
    BY <2>1 DEF IInv, ProvedIsAccepted, historyVars
  <2> QED
    BY <2>4, <2>5, <2>6, <2>7, <2>8 DEF IInv
<1>6. ASSUME NEW m \in Msg, LearnSource(m) PROVE IInv'
  BY <1>6, OtherStepsKeep DEF LearnSource, IInv, TypeOK
<1>7. CASE SetStampEnforcement
  BY <1>7, OtherStepsKeep DEF SetStampEnforcement, IInv, TypeOK
<1>8. CASE UNCHANGED inboundVars
  BY <1>8, OtherStepsKeep DEF inboundVars, historyVars, IInv, TypeOK
<1> QED
  BY <1>1, <1>2, <1>3, <1>4, <1>5, <1>6, <1>7, <1>8 DEF Next, ProcessInbound

(* IInv holds in every reachable state.                                    *)
LEMMA Invariance == SafeSpec => []IInv
  BY InitEstablishes, StepKeeps, PTL DEF SafeSpec

-----------------------------------------------------------------------------
(* The theorems.                                                           *)

(* Every variable keeps its type and the queue its size.                   *)
THEOREM InboundTypeCorrect == SafeSpec => []TypeOK
<1>1. IInv => TypeOK
  BY DEF IInv
<1> QED
  BY <1>1, Invariance, PTL

(* process_inbound() gives no message to the application twice within      *)
(* RECENT_INBOUND_SIZE dispatches.                                         *)
THEOREM DispatchedOnce == SafeSpec => []DispatchedOncePerWindow
<1>1. IInv => DispatchedOncePerWindow
  BY DEF IInv
<1> QED
  BY <1>1, Invariance, PTL

(* A queued message is dispatched or evicted before it leaves: the filter  *)
(* for duplicates never takes the only copy.                               *)
THEOREM AcceptedIsAccountedFor == SafeSpec => []NothingVanishes
<1>1. IInv => NothingVanishes
  BY DEF IInv
<1> QED
  BY <1>1, Invariance, PTL

(* on_packet() proves only messages it queues.                             *)
THEOREM ProofsFollowAcceptance == SafeSpec => []ProvedIsAccepted
<1>1. IInv => ProvedIsAccepted
  BY DEF IInv
<1> QED
  BY <1>1, Invariance, PTL

-----------------------------------------------------------------------------
(* The control of a sync.                                                  *)

Busy == {"PR_PATH_REQUESTED", "PR_LINK_ESTABLISHING", "PR_LINK_ESTABLISHED",
         "PR_REQUEST_SENT", "PR_RECEIVING"}

(* Whoever may hear an answer has not completed: the callback can only be  *)
(* called by a sync for which it was not called yet, although a sync that  *)
(* failed may still be heard and resumed.                                  *)
SyncInv ==
    /\ sync \in SyncState
    /\ active \in BOOLEAN
    /\ WaitingCanHear
    /\ active => sync \notin {"PR_IDLE", "PR_COMPLETE"}
    /\ sync # "PR_COMPLETE" => heard = 0

(* What one call of the state machine makes of a sync in state st.         *)
LEMMA AdvanceOutcome ==
    ASSUME NEW st \in Busy, NEW t, NEW n, active \in BOOLEAN,
           st \in Waiting => active,
           Advance(st, t, n)
    PROVE  /\ sync' \in Busy \cup {"PR_FAILED"}
           /\ active' \in BOOLEAN
           /\ sync' \in Waiting => active'
<1> USE DEF Busy, Waiting, OnSyncFailed, FailOnly, Stay
<1>1. CASE TimeOut(t)
  BY <1>1 DEF TimeOut
<1>2. CASE NodeCleared(t)
  BY <1>2 DEF NodeCleared
<1>3. CASE AwaitAnswer(st)
  BY <1>3 DEF AwaitAnswer
<1>4. CASE AskForList(st, n)
  BY <1>4 DEF AskForList
<1>5. CASE AwaitPath(st)
  BY <1>5 DEF AwaitPath
<1>6. CASE AwaitLink(st)
  BY <1>6 DEF AwaitLink
<1> QED
  BY <1>1, <1>2, <1>3, <1>4, <1>5, <1>6 DEF Advance

(* A step that leaves state, router and callbacks alone.                   *)
LEMMA SyncUntouched ==
    ASSUME SyncInv, UNCHANGED <<sync, active, heard>>
    PROVE  SyncInv' /\ UNCHANGED <<phase, heard>>
  BY DEF SyncInv, WaitingCanHear, phase

(* A request begins a sync, or fails at once.                              *)
LEMMA RequestBegins ==
    ASSUME SyncInv, RequestMessages
    PROVE  SyncInv' /\ Contract!Begin
<1>1. sync \in Ended /\ heard' = 0
  BY DEF RequestMessages
<1>2. active \in BOOLEAN /\ sync \in SyncState
  BY DEF SyncInv
<1>3. /\ sync' \in Busy \cup {"PR_FAILED"}
      /\ active' \in BOOLEAN
      /\ sync' \in Waiting => active'
  <2>1. CASE configured
    <3>1. Advance("PR_PATH_REQUESTED", 0, started + 1)
      BY <2>1 DEF RequestMessages
    <3> QED
      BY <1>2, <3>1, AdvanceOutcome DEF Busy, Waiting
  <2>2. CASE ~configured
    BY <1>2, <2>2 DEF RequestMessages, FailOnly, Waiting
  <2> QED
    BY <2>1, <2>2
<1>4. SyncInv'
  BY <1>1, <1>3 DEF SyncInv, WaitingCanHear, SyncState, Busy
<1>5. phase # "busy" /\ phase' \in {"busy", "failed"}
  BY <1>1, <1>2, <1>3 DEF phase, Busy, Ended
<1> QED
  BY <1>1, <1>4, <1>5 DEF Contract!Begin

(* A call of process_sync() goes on, or fails.                             *)
LEMMA ProcessGoesOn ==
    ASSUME SyncInv, ProcessSync
    PROVE  SyncInv' /\ (Contract!Fail \/ UNCHANGED <<phase, heard>>)
<1>1. sync \in Busy /\ heard = 0 /\ heard' = heard
  BY DEF SyncInv, ProcessSync, SyncState, Ended, Busy
<1>2. /\ sync' \in Busy \cup {"PR_FAILED"}
      /\ active' \in BOOLEAN
      /\ sync' \in Waiting => active'
  <2>1. Advance(sync, elapsed, started)
    BY DEF ProcessSync
  <2>2. active \in BOOLEAN /\ (sync \in Waiting => active)
    BY DEF SyncInv, WaitingCanHear
  <2> QED
    BY <1>1, <2>1, <2>2, AdvanceOutcome
<1>3. SyncInv'
  BY <1>1, <1>2 DEF SyncInv, WaitingCanHear, SyncState, Busy
<1>4. phase = "busy" /\ phase' \in {"busy", "failed"}
  BY <1>1, <1>2 DEF phase, Busy
<1> QED
  BY <1>1, <1>3, <1>4 DEF Contract!Fail

(* An answer that is heard completes the sync, fails it, or lets it go on, *)
(* and a failed sync may be resumed so.                                    *)
LEMMA AnswerConcludes ==
    ASSUME SyncInv, NEW r \in requests, Answer(r)
    PROVE  /\ SyncInv'
           /\ \/ Contract!Fail \/ Contract!Complete \/ Contract!Resume
              \/ UNCHANGED <<phase, heard>>
<1>1. CASE ~active
  <2>1. Ignore(r)
    BY <1>1 DEF Answer, NothingWanted, AskForMessages, ListFails,
                ReceiveMessages, RequestFails
  <2> QED
    BY <2>1, SyncUntouched DEF Ignore
<1>2. CASE active
  <2>1. /\ sync \in Busy \cup {"PR_FAILED"}
        /\ heard = 0
        /\ phase \in {"busy", "failed"}
    BY <1>2 DEF SyncInv, SyncState, Busy, phase
  <2>2. CASE Finish
    <3>1. SyncInv'
      BY <2>1, <2>2 DEF Finish, SyncInv, SyncState, WaitingCanHear, Waiting
    <3>2. phase' = "complete" /\ heard' = 1
      BY <2>1, <2>2 DEF Finish, phase
    <3> QED
      BY <2>1, <3>1, <3>2 DEF Contract!Complete
  <2>3. CASE sync' = "PR_RECEIVING" /\ UNCHANGED <<active, heard>>
    <3>1. SyncInv'
      BY <1>2, <2>1, <2>3 DEF SyncInv, SyncState, WaitingCanHear
    <3>2. phase' = "busy" /\ UNCHANGED heard
      BY <2>3 DEF phase
    <3> QED
      BY <2>1, <3>1, <3>2 DEF Contract!Resume
  <2>4. CASE OnSyncFailed /\ UNCHANGED heard
    <3>1. SyncInv'
      BY <2>1, <2>4 DEF OnSyncFailed, SyncInv, SyncState, WaitingCanHear,
                        Waiting
    <3>2. phase' = "failed" /\ UNCHANGED heard
      BY <2>4 DEF OnSyncFailed, phase
    <3> QED
      BY <2>1, <3>1, <3>2 DEF Contract!Fail
  <2>5. \/ Finish
        \/ sync' = "PR_RECEIVING" /\ UNCHANGED <<active, heard>>
        \/ OnSyncFailed /\ UNCHANGED heard
    BY <1>2 DEF Answer, Ignore, NothingWanted, AskForMessages, ListFails,
                ReceiveMessages, RequestFails
  <2> QED
    BY <2>2, <2>3, <2>4, <2>5
<1> QED
  BY <1>1, <1>2 DEF SyncInv

(* Every step keeps SyncInv and is a step of the contract or a stutter.    *)
LEMMA SyncStep ==
    ASSUME SyncInv, [SyncNext]_allVars
    PROVE  /\ SyncInv'
           /\ [Contract!SyncContractNext]_(Contract!syncContractVars)
<1> USE DEF Contract!SyncContractNext, Contract!syncContractVars
<1>1. CASE RequestMessages
  BY <1>1, RequestBegins
<1>2. CASE ProcessSync
  BY <1>2, ProcessGoesOn
<1>3. ASSUME NEW r \in requests, Answer(r)
      PROVE  /\ SyncInv'
             /\ [Contract!SyncContractNext]_(Contract!syncContractVars)
  BY <1>3, AnswerConcludes
<1>4. CASE \/ UploadOpensLink \/ LinkEstablished \/ LinkCloses
           \/ SetNode \/ ClearNode \/ Tick \/ Receive
           \/ UNCHANGED allVars
  <2>1. UNCHANGED <<sync, active, heard>>
    BY <1>4 DEF UploadOpensLink, LinkEstablished, LinkCloses, SetNode,
                ClearNode, NodeStep, Tick, Receive, allVars, syncVars
  <2> QED
    BY <2>1, SyncUntouched
<1> QED
  BY <1>1, <1>2, <1>3, <1>4 DEF SyncNext

(* The contract and SyncInv hold at the start.                             *)
LEMMA SyncInitEstablishes ==
    SyncInit => SyncInv /\ Contract!SyncContractInit
  BY DEF SyncInit, SyncInv, SyncState, WaitingCanHear, Waiting, phase,
         Contract!SyncContractInit

(* SyncInv holds in every reachable state.                                 *)
LEMMA SyncInvariance == SyncSafeSpec => []SyncInv
<1>1. SyncInv /\ [SyncNext]_allVars => SyncInv'
  BY SyncStep
<1> QED
  BY <1>1, SyncInitEstablishes, PTL DEF SyncSafeSpec

(* No path through request_messages_from_propagation_node(),               *)
(* process_sync() and the response callbacks leaves a sync waiting for an  *)
(* answer that its router cannot hear, whichever requests of earlier syncs *)
(* are answered or fail meanwhile.                                         *)
THEOREM WaitingSyncsHear == SyncSafeSpec => []WaitingCanHear
<1>1. SyncInv => WaitingCanHear
  BY DEF SyncInv
<1> QED
  BY <1>1, SyncInvariance, PTL

(* A sync keeps its contract: between two requests the completion callback *)
(* is called at most once, and not by a sync that fails.  That it ends is  *)
(* left to the runs.                                                       *)
THEOREM SyncKeepsItsContract ==
    SyncSafeSpec =>
        /\ Contract!SyncContractInit
        /\ [][Contract!SyncContractNext]_(Contract!syncContractVars)
<1>1. SyncInv /\ [SyncNext]_allVars =>
          [Contract!SyncContractNext]_(Contract!syncContractVars)
  BY SyncStep
<1> QED
  BY <1>1, SyncInitEstablishes, SyncInvariance, PTL DEF SyncSafeSpec

-----------------------------------------------------------------------------
(* The messages of a response.                                             *)

(* Induction up to a bound, over the set of the numbers a fact holds of.   *)
LEMMA UpTo ==
    ASSUME NEW N \in Nat, NEW S, 0 \in S,
           \A n \in 1..N : n - 1 \in S => n \in S
    PROVE  0..N \subseteq S
<1> DEFINE Missing == (0..N) \ S
<1>1. SUFFICES ASSUME Missing # {}
               PROVE  FALSE
  OBVIOUS
<1>2. Missing \subseteq Nat
  OBVIOUS
<1>3. PICK x \in Missing : \A y \in Missing : ~(<<y, x>> \in OpToRel(<, Nat))
  <2> HIDE DEF Missing
  <2> QED
    BY <1>1, <1>2, NatLessThanWellFounded, WFMin, Zenon
<1>4. OpToRel(<, Nat) = {ss \in Nat \X Nat : ss[1] < ss[2]}
  BY Zenon DEF OpToRel
<1>5. \A y \in Missing : ~(y < x)
  BY <1>2, <1>3, <1>4
<1>6. x \in 1..N /\ x - 1 \in 0..N
  OBVIOUS
<1>7. x - 1 \in S
  BY <1>5, <1>6
<1> QED
  BY <1>6, <1>7

(* The elements of s in S, and no others, are selected.                    *)
LEMMA SelectedElements ==
    ASSUME NEW T, NEW s \in Seq(T), NEW S
    PROVE  /\ Selected(s, S) \in Seq(T)
           /\ Elements(Selected(s, S)) = Elements(s) \cap S
<1> DEFINE N == Len(s)
           Taking(i, q) == IF s[i] \in S THEN Append(q, s[i]) ELSE q
           Run(f, n) == f = [i \in 0..n |-> IF i = 0 THEN <<>>
                                           ELSE Taking(i, f[i - 1])]
           Runs == {n \in 0..N : \E f : Run(f, n)}
           whole == CHOOSE f : Run(f, N)
           First(n) == {s[i] : i \in 1..n}
           Good == {n \in 0..N : /\ whole[n] \in Seq(T)
                                 /\ Elements(whole[n]) = First(n) \cap S}
<1>1. N \in Nat /\ \A i \in 1..N : s[i] \in T
  OBVIOUS
<1>2. 0..N \subseteq Runs
  <2>1. 0 \in Runs
    <3>1. Run([i \in 0..0 |-> <<>>], 0)
      OBVIOUS
    <3>2. 0 \in 0..N
      BY <1>1
    <3> QED
      BY <3>1, <3>2
  <2>2. ASSUME NEW n \in 1..N, n - 1 \in Runs
        PROVE  n \in Runs
    <3>1. PICK f : Run(f, n - 1)
      BY <2>2
    <3> HIDE DEF Taking
    <3> DEFINE g == [i \in 0..n |-> IF i < n THEN f[i]
                                    ELSE Taking(n, f[n - 1])]
    <3>2. ASSUME NEW i \in 0..n
          PROVE  g[i] = IF i = 0 THEN <<>> ELSE Taking(i, g[i - 1])
      <4>1. CASE i = 0
        BY <1>1, <3>1, <4>1
      <4>2. CASE i # 0 /\ i < n
        <5>1. i \in 0..(n - 1) /\ i - 1 \in 0..n /\ i - 1 < n
          BY <1>1, <4>2
        <5>2. f[i] = Taking(i, f[i - 1])
          BY <3>1, <4>2, <5>1
        <5> QED
          BY <4>2, <5>1, <5>2
      <4>3. CASE i = n
        <5>1. i # 0 /\ i - 1 \in 0..n /\ i - 1 < n
          BY <1>1, <4>3
        <5> QED
          BY <4>3, <5>1
      <4> QED
        BY <1>1, <4>1, <4>2, <4>3
    <3>3. Run(g, n)
      <4>1. g = [i \in 0..n |-> g[i]]
        OBVIOUS
      <4> QED
        BY <3>2, <4>1
    <3> HIDE DEF g
    <3> QED
      BY <3>3
  <2> HIDE DEF Runs
  <2> QED
    BY <1>1, <2>1, <2>2, UpTo
<1>3. Run(whole, N)
  <2> HIDE DEF Run
  <2>1. \E f : Run(f, N)
    BY <1>1, <1>2
  <2> QED
    BY <2>1
<1>4. Selected(s, S) = whole[N]
  BY DEF Selected
<1>5. /\ whole[0] = <<>>
      /\ \A i \in 1..N : whole[i] = Taking(i, whole[i - 1])
  <2> HIDE DEF Taking, whole
  <2> QED
    BY <1>1, <1>3
<1> HIDE DEF whole
<1>6. 0 \in Good
  <2>1. Elements(<<>>) = {} /\ First(0) = {} /\ <<>> \in Seq(T)
    BY DEF Elements
  <2>2. Elements(whole[0]) = First(0) \cap S /\ whole[0] \in Seq(T)
    BY <1>5, <2>1
  <2> HIDE DEF First
  <2> QED
    BY <1>1, <2>2
<1>7. ASSUME NEW n \in 1..N, n - 1 \in Good
      PROVE  n \in Good
  <2> DEFINE q == whole[n - 1]
  <2>1. q \in Seq(T) /\ Elements(q) = First(n - 1) \cap S
    BY <1>7
  <2>2. First(n) = First(n - 1) \cup {s[n]}
    <3>1. 1..n = 1..(n - 1) \cup {n}
      BY <1>1
    <3> QED
      BY <3>1
  <2>3. whole[n] = Taking(n, q) /\ s[n] \in T
    BY <1>1, <1>5
  <2> HIDE DEF q, First
  <2>4. CASE s[n] \in S
    <3>1. Append(q, s[n]) \in Seq(T)
      BY <2>1, <2>3
    <3>2. Elements(Append(q, s[n])) = Elements(q) \cup {s[n]}
      <4>1. /\ Len(Append(q, s[n])) = Len(q) + 1 /\ Len(q) \in Nat
            /\ \A i \in 1..Len(q) : Append(q, s[n])[i] = q[i]
            /\ Append(q, s[n])[Len(q) + 1] = s[n]
        BY <2>1, <2>3
      <4>2. 1..(Len(q) + 1) = 1..Len(q) \cup {Len(q) + 1}
        BY <4>1
      <4> QED
        BY <4>1, <4>2 DEF Elements
    <3>3. Elements(whole[n]) = First(n) \cap S /\ whole[n] \in Seq(T)
      BY <2>1, <2>2, <2>3, <2>4, <3>1, <3>2
    <3> QED
      BY <1>1, <3>3
  <2>5. CASE s[n] \notin S
    <3>1. Elements(whole[n]) = First(n) \cap S /\ whole[n] \in Seq(T)
      BY <2>1, <2>2, <2>3, <2>5
    <3> QED
      BY <1>1, <3>1
  <2> QED
    BY <2>4, <2>5
<1>8. 0..N \subseteq Good
  <2> HIDE DEF Good
  <2> QED
    BY <1>1, <1>6, <1>7, UpTo
<1>9. First(N) = Elements(s)
  BY DEF Elements
<1> HIDE DEF First
<1> QED
  BY <1>1, <1>4, <1>8, <1>9

-----------------------------------------------------------------------------
(* The queue as a sync fills it.                                           *)

(* The end of a sequence: its type, length and elements.                   *)
LEMMA LastOfFacts ==
    ASSUME NEW T, NEW q \in Seq(T), NEW n \in Nat
    PROVE  /\ LastOf(q, n) \in Seq(T)
           /\ Len(LastOf(q, n)) = IF Len(q) <= n THEN Len(q) ELSE n
           /\ \A i \in 1..Len(LastOf(q, n)) :
                  LastOf(q, n)[i] = q[Len(q) - Len(LastOf(q, n)) + i]
<1>1. Len(q) \in Nat
  OBVIOUS
<1>2. CASE Len(q) <= n
  BY <1>1, <1>2 DEF LastOf
<1>3. CASE ~(Len(q) <= n)
  <2>1. LastOf(q, n) = SubSeq(q, Len(q) - n + 1, Len(q))
    BY <1>3 DEF LastOf
  <2>2. /\ SubSeq(q, Len(q) - n + 1, Len(q)) \in Seq(T)
        /\ Len(SubSeq(q, Len(q) - n + 1, Len(q))) = n
        /\ \A i \in 1..n : SubSeq(q, Len(q) - n + 1, Len(q))[i] =
                               q[Len(q) - n + i]
    BY <1>1, <1>3
  <2> QED
    BY <1>3, <2>1, <2>2
<1> QED
  BY <1>2, <1>3

(* The messages of a queue are those of its end and of what is before.     *)
LEMMA MsgsSplit ==
    ASSUME NEW q \in Seq(Copy), NEW n \in Nat
    PROVE  LET over == Len(q) - Len(LastOf(q, n))
           IN  /\ Msgs(q) \subseteq
                       Msgs(LastOf(q, n)) \cup Msgs(SubSeq(q, 1, over))
               /\ Msgs(SubSeq(q, 1, over)) \subseteq Msg
<1> DEFINE e == LastOf(q, n)
           over == Len(q) - Len(e)
           b == SubSeq(q, 1, over)
<1>1. /\ Len(q) \in Nat /\ Len(e) \in Nat /\ over \in 0..Len(q)
      /\ \A i \in 1..Len(e) : e[i] = q[over + i]
  <2>1. Len(q) \in Nat
    OBVIOUS
  <2>2. Len(e) \in Nat /\ Len(e) <= Len(q)
    BY <2>1, LastOfFacts
  <2>3. \A i \in 1..Len(e) : e[i] = q[over + i]
    BY LastOfFacts
  <2> QED
    BY <2>1, <2>2, <2>3
<1>2. /\ b \in Seq(Copy) /\ Len(b) = over
      /\ \A i \in 1..over : b[i] = q[i]
  BY <1>1
<1> HIDE DEF e, b
<1>3. ASSUME NEW i \in 1..Len(q)
      PROVE  q[i].msg \in Msgs(e) \cup Msgs(b)
  <2>1. CASE i <= over
    BY <1>1, <1>2, <2>1 DEF Msgs
  <2>2. CASE ~(i <= over)
    <3>1. i - over \in 1..Len(e) /\ e[i - over] = q[i]
      BY <1>1, <2>2
    <3> QED
      BY <3>1 DEF Msgs
  <2> QED
    BY <2>1, <2>2
<1>4. Msgs(b) \subseteq Msg
  <2>1. ASSUME NEW i \in 1..Len(b)
        PROVE  b[i].msg \in Msg
    <3>1. b[i] \in Copy
      BY <1>2
    <3> QED
      BY <3>1 DEF Copy
  <2> QED
    BY <2>1 DEF Msgs
<1>5. Msgs(q) \subseteq Msgs(e) \cup Msgs(b)
  BY <1>3 DEF Msgs
<1> QED
  BY <1>4, <1>5 DEF e, b

(* The messages of the copies a response is unpacked to.                   *)
LEMMA MsgsOfCopies ==
    ASSUME NEW q \in Seq(Copy), NEW s \in Seq(Msg)
    PROVE  LET copies == [i \in 1..Len(s) |-> Unpacked(s[i], "propagated")]
           IN  /\ q \o copies \in Seq(Copy)
               /\ Len(q \o copies) = Len(q) + Len(s)
               /\ Msgs(q \o copies) = Msgs(q) \cup Elements(s)
<1> DEFINE copies == [i \in 1..Len(s) |-> Unpacked(s[i], "propagated")]
<1>1. Len(s) \in Nat /\ Len(q) \in Nat /\ \A i \in 1..Len(s) : s[i] \in Msg
  OBVIOUS
<1>2. ASSUME NEW i \in 1..Len(s)
      PROVE  copies[i] \in Copy /\ copies[i].msg = s[i]
  BY <1>1, UnpackedType DEF Route
<1>3. copies \in Seq(Copy) /\ Len(copies) = Len(s)
  BY <1>1, <1>2
<1> HIDE DEF copies
<1>4. /\ q \o copies \in Seq(Copy)
      /\ Len(q \o copies) = Len(q) + Len(s)
      /\ \A i \in 1..Len(q) : (q \o copies)[i] = q[i]
      /\ \A i \in 1..Len(s) : (q \o copies)[Len(q) + i] = copies[i]
  <2>1. q \o copies \in Seq(Copy) /\ Len(q \o copies) = Len(q) + Len(copies)
    BY <1>3
  <2>2. \A i \in 1..Len(q) : (q \o copies)[i] = q[i]
    BY <1>1, <1>3
  <2>3. \A i \in 1..Len(copies) : (q \o copies)[Len(q) + i] = copies[i]
    BY <1>1, <1>3
  <2> QED
    BY <1>3, <2>1, <2>2, <2>3
<1>5. ASSUME NEW i \in 1..(Len(q) + Len(s))
      PROVE  (q \o copies)[i].msg \in Msgs(q) \cup Elements(s)
  <2>1. CASE i <= Len(q)
    BY <1>1, <1>4, <2>1 DEF Msgs
  <2>2. CASE ~(i <= Len(q))
    <3>1. /\ i - Len(q) \in 1..Len(s)
          /\ (q \o copies)[Len(q) + (i - Len(q))] = copies[i - Len(q)]
          /\ Len(q) + (i - Len(q)) = i
      BY <1>1, <1>4, <2>2
    <3> QED
      BY <1>2, <3>1 DEF Elements
  <2> QED
    BY <2>1, <2>2
<1>6. ASSUME NEW i \in 1..Len(q)
      PROVE  q[i].msg \in Msgs(q \o copies)
  <2>1. i \in 1..Len(q \o copies) /\ (q \o copies)[i] = q[i]
    BY <1>1, <1>4
  <2> QED
    BY <2>1 DEF Msgs
<1>7. ASSUME NEW i \in 1..Len(s)
      PROVE  s[i] \in Msgs(q \o copies)
  <2>1. /\ Len(q) + i \in 1..Len(q \o copies)
        /\ (q \o copies)[Len(q) + i].msg = s[i]
    BY <1>1, <1>2, <1>4
  <2> QED
    BY <2>1 DEF Msgs
<1>8. Msgs(q \o copies) = Msgs(q) \cup Elements(s)
  <2>1. Msgs(q \o copies) \subseteq Msgs(q) \cup Elements(s)
    <3>1. SUFFICES ASSUME NEW m \in Msgs(q \o copies)
                   PROVE  m \in Msgs(q) \cup Elements(s)
      OBVIOUS
    <3>2. PICK i \in 1..Len(q \o copies) : m = (q \o copies)[i].msg
      BY DEF Msgs
    <3> QED
      BY <1>4, <1>5, <3>2
  <2>2. Msgs(q) \subseteq Msgs(q \o copies)
    <3>1. SUFFICES ASSUME NEW m \in Msgs(q)
                   PROVE  m \in Msgs(q \o copies)
      OBVIOUS
    <3>2. PICK i \in 1..Len(q) : m = q[i].msg
      BY DEF Msgs
    <3> QED
      BY <1>6, <3>2
  <2>3. Elements(s) \subseteq Msgs(q \o copies)
    BY <1>7 DEF Elements
  <2> QED
    BY <2>1, <2>2, <2>3
<1> QED
  BY <1>4, <1>8 DEF copies

(* However many messages a response pushes at once, the queue keeps its    *)
(* size and no message leaves without trace.                               *)
LEMMA PushAllKeeps ==
    ASSUME IInv, NEW s \in Seq(Msg), PushAll(s)
    PROVE  IInv' /\ accepted' = accepted \cup Elements(s)
<1> DEFINE copies == [i \in 1..Len(s) |-> Unpacked(s[i], "propagated")]
           q == inbound \o copies
           kept == LastOf(q, PENDING_INBOUND_SIZE)
           over == Len(q) - Len(kept)
           Before == SubSeq(q, 1, over)
<1>1. inbound \in Seq(Copy)
  BY DEF IInv, TypeOK
<1>2. /\ q \in Seq(Copy)
      /\ Len(q) = Len(inbound) + Len(s)
      /\ Msgs(q) = Msgs(inbound) \cup Elements(s)
  BY <1>1, MsgsOfCopies
<1>3. /\ inbound' = kept
      /\ evicted' = evicted \cup Msgs(Before)
      /\ accepted' = accepted \cup Elements(s)
      /\ UNCHANGED <<recent, recentNext, known, enforcing, arrivals, proved,
                     dispatched>>
  BY <1>2 DEF PushAll
<1> HIDE DEF copies, q
<1>4. /\ kept \in Seq(Copy) /\ Len(q) \in Nat
      /\ Len(kept) <= PENDING_INBOUND_SIZE
  BY <1>2, LastOfFacts
<1>5. /\ Msgs(q) \subseteq Msgs(kept) \cup Msgs(Before)
      /\ Msgs(Before) \subseteq Msg
  BY <1>2, MsgsSplit
<1> HIDE DEF kept, Before
<1>6. Elements(s) \subseteq Msg
  BY DEF Elements
<1>7. TypeOK'
  BY <1>3, <1>4, <1>5, <1>6 DEF IInv, TypeOK
<1>8. NothingVanishes'
  BY <1>2, <1>3, <1>5, Zenon DEF IInv, NothingVanishes, Msgs
<1>9. ProvedIsAccepted'
  BY <1>3 DEF IInv, ProvedIsAccepted
<1>10. RingIsEndOfHistory'
  BY <1>3 DEF IInv, RingIsEndOfHistory, SlotOfLast
<1>11. DispatchedOncePerWindow'
  BY <1>3 DEF IInv, DispatchedOncePerWindow
<1> QED
  BY <1>3, <1>7, <1>8, <1>9, <1>10, <1>11 DEF IInv

-----------------------------------------------------------------------------
(* The composition.                                                        *)

(* Requests keep their type when their link changes or a new one is sent.  *)
LEMMA RequestTypes ==
    ASSUME requests \subseteq Request
    PROVE  /\ \A r \in Request : requests \ {r} \subseteq Request
           /\ \A now \in {"dropped", "closed"} :
                  SentOver("current", now) => requests' \subseteq Request
<1>1. ASSUME NEW now \in {"dropped", "closed"}, SentOver("current", now)
      PROVE  requests' \subseteq Request
  <2>1. \A r \in Request : [r EXCEPT !.over = now] \in Request
    BY DEF Request
  <2> QED
    BY <1>1, <2>1 DEF SentOver
<1> QED
  BY <1>1

(* What one call of the state machine does to links and requests.          *)
LEMMA AdvanceTypes ==
    ASSUME requests \subseteq Request, link \in LinkStatus,
           NEW st, NEW t, NEW n \in 1..MaxSyncs, Advance(st, t, n)
    PROVE  requests' \subseteq Request /\ link' \in LinkStatus
<1>1. [kind |-> "list", wants |-> {}, no |-> n, over |-> "current"] \in Request
  BY DEF Request
<1>2. \/ UNCHANGED requests
      \/ SendListRequest(n)
  BY DEF Advance, TimeOut, NodeCleared, AwaitAnswer, AskForList, AwaitPath,
         AwaitLink
<1>3. UNCHANGED link \/ link' = "PENDING"
  BY DEF Advance, TimeOut, NodeCleared, AwaitAnswer, AskForList, AwaitPath,
         AwaitLink
<1> QED
  BY <1>1, <1>2, <1>3 DEF SendListRequest, Send, LinkStatus

(* The queue, the conversation that fills it, and what was acknowledged.   *)
FetchInv ==
    /\ IInv
    /\ SyncTypeOK
    /\ AckedWasProcessed
    /\ sync # "PR_IDLE" => started > 0

(* Steps that leave the queue and the messages of the node alone.          *)
LEMMA QuietSyncStep ==
    ASSUME FetchInv, SyncTypeOK', sync' # "PR_IDLE" => started' > 0,
           UNCHANGED <<inboundVars, accepted, acked>>
    PROVE  FetchInv'
<1>1. IInv'
  BY OtherStepsKeep DEF FetchInv, IInv, TypeOK, inboundVars, historyVars
<1> QED
  BY <1>1 DEF FetchInv, AckedWasProcessed

LEMMA RequestKeepsFetch ==
    ASSUME FetchInv, SyncInv, SyncInv', RequestMessages
    PROVE  FetchInv'
<1>1. /\ started \in 0..MaxSyncs /\ started < MaxSyncs
      /\ started' = started + 1 /\ heard' = 0
      /\ UNCHANGED <<inboundVars, configured, fetchVars>>
      /\ MaxSyncs \in Nat /\ SYNC_TIMEOUT \in Nat
  BY SyncAssumption DEF RequestMessages, FetchInv, SyncTypeOK
<1>2. started + 1 \in 1..MaxSyncs /\ started' \in 0..MaxSyncs /\ started' > 0
  BY <1>1
<1>3. requests \subseteq Request /\ link \in LinkStatus
  BY DEF FetchInv, SyncTypeOK
<1>4. requests' \subseteq Request /\ link' \in LinkStatus
  <2>1. CASE configured
    <3>1. Advance("PR_PATH_REQUESTED", 0, started + 1)
      BY <2>1 DEF RequestMessages
    <3> QED
      BY <1>2, <1>3, <3>1, AdvanceTypes
  <2>2. CASE ~configured
    BY <1>3, <2>2 DEF RequestMessages
  <2> QED
    BY <2>1, <2>2
<1>5. elapsed' \in 0..(SYNC_TIMEOUT + 1)
  BY <1>1 DEF RequestMessages, FetchInv, SyncTypeOK
<1>6. SyncTypeOK'
  BY <1>1, <1>2, <1>4, <1>5
     DEF FetchInv, SyncTypeOK, SyncInv, fetchVars
<1> QED
  BY <1>1, <1>2, <1>6, QuietSyncStep DEF fetchVars, inboundVars

LEMMA ProcessKeepsFetch ==
    ASSUME FetchInv, SyncInv, SyncInv', ProcessSync
    PROVE  FetchInv'
<1>1. /\ started \in 1..MaxSyncs
      /\ Advance(sync, elapsed, started)
      /\ UNCHANGED <<inboundVars, elapsed, configured, fetchVars, started, heard>>
  BY SyncAssumption DEF ProcessSync, FetchInv, SyncTypeOK, Ended
<1>2. requests \subseteq Request /\ link \in LinkStatus
  BY DEF FetchInv, SyncTypeOK
<1>3. requests' \subseteq Request /\ link' \in LinkStatus
  BY <1>1, <1>2, AdvanceTypes
<1>4. SyncTypeOK'
  BY <1>1, <1>3 DEF FetchInv, SyncTypeOK, SyncInv, fetchVars
<1> QED
  BY <1>1, <1>4, QuietSyncStep DEF fetchVars, inboundVars

(* A response is queued before it is acknowledged, and only one that was   *)
(* processed to its end is: whatever is acknowledged and can be read has   *)
(* entered the queue.                                                      *)
LEMMA ReceiveKeepsFetch ==
    ASSUME FetchInv, SyncInv, SyncInv', NEW r \in requests, ReceiveMessages(r)
    PROVE  FetchInv'
<1>1. PICK n \in 0..Len(Returned(r)) :
          /\ PushAll(Selected(SubSeq(Returned(r), 1, n), Readable))
          /\ \/ acked' = acked \cup Elements(SubSeq(Returned(r), 1, n))
             \/ acked' = acked
          /\ \/ UNCHANGED stored
             \/ stored' = stored \ Elements(SubSeq(Returned(r), 1, n))
  BY DEF ReceiveMessages
<1>2. /\ active /\ Finish /\ requests' = requests \ {r}
      /\ UNCHANGED <<elapsed, nodeVars, started>>
  BY DEF ReceiveMessages
<1> DEFINE done == SubSeq(Returned(r), 1, n)
           readable == Selected(done, Readable)
<1>3. Returned(r) \in Seq(Msg)
  BY SyncAssumption, SelectedElements DEF Returned
<1>4. done \in Seq(Msg)
  BY <1>3
<1>5. Elements(done) \subseteq Msg
  BY <1>4 DEF Elements
<1>6. readable \in Seq(Msg) /\ Elements(readable) = Elements(done) \cap Readable
  BY <1>4, SelectedElements
<1>7. /\ PushAll(readable)
      /\ acked' \subseteq acked \cup Elements(done)
      /\ stored' \subseteq stored
  BY <1>1
<1> HIDE DEF done, readable
<1>8. IInv' /\ accepted' = accepted \cup Elements(readable)
  BY <1>6, <1>7, PushAllKeeps DEF FetchInv
<1>9. AckedWasProcessed'
  BY <1>6, <1>7, <1>8 DEF FetchInv, AckedWasProcessed
<1>10. seen' \in Seq(Msg) /\ Len(seen') <= TRANSIENT_IDS_SIZE
  <2>1. seen \o readable \in Seq(Msg)
    BY <1>6 DEF FetchInv, SyncTypeOK
  <2>2. seen' = LastOf(seen \o readable, TRANSIENT_IDS_SIZE)
    BY <1>7 DEF PushAll
  <2>3. Len(seen \o readable) \in Nat /\ TRANSIENT_IDS_SIZE \in Nat
    BY <2>1, SyncAssumption
  <2>4. /\ seen' \in Seq(Msg)
        /\ Len(seen') = IF Len(seen \o readable) <= TRANSIENT_IDS_SIZE
                        THEN Len(seen \o readable) ELSE TRANSIENT_IDS_SIZE
    BY <2>1, <2>2, <2>3, LastOfFacts, Zenon
  <2> QED
    BY <2>3, <2>4
<1>11. heard' \in Nat /\ sync # "PR_IDLE" /\ started > 0
  BY <1>2 DEF Finish, FetchInv, SyncTypeOK, SyncInv
<1>12. SyncTypeOK'
  BY <1>2, <1>5, <1>7, <1>10, <1>11 DEF FetchInv, SyncTypeOK, SyncInv, nodeVars
<1> QED
  BY <1>2, <1>8, <1>9, <1>11, <1>12 DEF FetchInv

LEMMA AnswerKeepsFetch ==
    ASSUME FetchInv, SyncInv, SyncInv', NEW r \in requests, Answer(r)
    PROVE  FetchInv'
<1>1. CASE ReceiveMessages(r)
  BY <1>1, ReceiveKeepsFetch
<1>2. CASE AskForMessages(r)
  <2>1. /\ active /\ UNCHANGED <<inboundVars, elapsed, nodeVars, fetchVars,
                                 started, heard>>
        /\ requests' \subseteq requests \cup
               {[kind |-> "get", wants |-> stored \ Elements(seen),
                 no |-> r.no, over |-> "current"]}
    BY <1>2 DEF AskForMessages
  <2>2. r \in Request /\ stored \subseteq Msg
    BY DEF FetchInv, SyncTypeOK
  <2>3. [kind |-> "get", wants |-> stored \ Elements(seen),
         no |-> r.no, over |-> "current"] \in Request
    BY <2>2 DEF Request
  <2>4. requests' \subseteq Request
    BY <2>1, <2>3 DEF FetchInv, SyncTypeOK
  <2>5. sync # "PR_IDLE" /\ started' > 0
    BY <2>1 DEF FetchInv, SyncInv
  <2>6. SyncTypeOK'
    BY <2>1, <2>4 DEF FetchInv, SyncTypeOK, SyncInv, nodeVars, fetchVars
  <2> QED
    BY <2>1, <2>5, <2>6, QuietSyncStep DEF fetchVars, inboundVars
<1>3. CASE Ignore(r) \/ NothingWanted(r) \/ ListFails(r) \/ RequestFails(r)
  <2>1. /\ requests' = requests \ {r}
        /\ UNCHANGED <<inboundVars, elapsed, nodeVars, fetchVars, started>>
        /\ heard' \in {heard, heard + 1}
        /\ active \/ sync' = sync
    BY <1>3 DEF Ignore, NothingWanted, ListFails, RequestFails, Finish
  <2>2. sync' # "PR_IDLE" => started' > 0
    BY <2>1 DEF FetchInv, SyncInv
  <2>3. SyncTypeOK'
    BY <2>1 DEF FetchInv, SyncTypeOK, SyncInv, nodeVars, fetchVars
  <2> QED
    BY <2>1, <2>2, <2>3, QuietSyncStep DEF fetchVars, inboundVars
<1> QED
  BY <1>1, <1>2, <1>3 DEF Answer

(* Every step of the composition keeps the invariant.                      *)
LEMMA FetchStep ==
    ASSUME FetchInv, SyncInv, [SyncNext]_allVars
    PROVE  FetchInv'
<1>0. SyncInv'
  BY SyncStep
<1>1. CASE RequestMessages
  BY <1>0, <1>1, RequestKeepsFetch
<1>2. CASE ProcessSync
  BY <1>0, <1>2, ProcessKeepsFetch
<1>3. ASSUME NEW r \in requests, Answer(r)
      PROVE  FetchInv'
  BY <1>0, <1>3, AnswerKeepsFetch
<1>4. CASE \/ UploadOpensLink \/ LinkEstablished \/ LinkCloses
           \/ SetNode \/ ClearNode
  <2>1. /\ link' \in LinkStatus /\ configured' \in BOOLEAN
        /\ UNCHANGED <<inboundVars, sync, elapsed, active, fetchVars, started,
                       heard>>
    BY <1>4 DEF UploadOpensLink, LinkEstablished, LinkCloses, SetNode,
                ClearNode, NodeStep, LinkStatus, FetchInv, SyncTypeOK
  <2>2. requests' \subseteq Request
    <3>1. requests \subseteq Request
      BY DEF FetchInv, SyncTypeOK
    <3>2. \/ UNCHANGED requests
          \/ SentOver("current", "closed")
          \/ SentOver("current", "dropped")
      BY <1>4 DEF UploadOpensLink, LinkEstablished, LinkCloses, SetNode,
                  ClearNode
    <3> QED
      BY <3>1, <3>2, RequestTypes
  <2>3. SyncTypeOK'
    BY <2>1, <2>2 DEF FetchInv, SyncTypeOK, fetchVars
  <2> QED
    BY <2>1, <2>3, QuietSyncStep DEF fetchVars, inboundVars, FetchInv
<1>5. CASE Tick
  <2>1. /\ elapsed' = elapsed + 1 /\ elapsed <= SYNC_TIMEOUT
        /\ UNCHANGED <<inboundVars, sync, nodeVars, active, requests,
                       fetchVars, started, heard>>
    BY <1>5 DEF Tick
  <2>2. elapsed' \in 0..(SYNC_TIMEOUT + 1)
    BY <2>1, SyncAssumption DEF FetchInv, SyncTypeOK
  <2>3. SyncTypeOK'
    BY <2>1, <2>2 DEF FetchInv, SyncTypeOK, nodeVars, fetchVars
  <2> QED
    BY <2>1, <2>3, QuietSyncStep DEF fetchVars, inboundVars, FetchInv
<1>6. CASE Receive
  <2>1. Next /\ UNCHANGED syncVars
    BY <1>6 DEF Receive, Next
  <2>2. IInv'
    BY <2>1, StepKeeps DEF FetchInv
  <2>3. SyncTypeOK' /\ (sync' # "PR_IDLE" => started' > 0)
    BY <2>1 DEF FetchInv, SyncTypeOK, syncVars
  <2>4. accepted \subseteq accepted'
    BY <1>6 DEF Receive, ProcessInbound, DropDuplicate, Dispatch, OnPacket,
                Enqueue, historyVars
  <2>5. AckedWasProcessed'
    BY <2>1, <2>4 DEF FetchInv, AckedWasProcessed, syncVars
  <2> QED
    BY <2>2, <2>3, <2>5 DEF FetchInv
<1>7. CASE UNCHANGED allVars
  <2>1. SyncTypeOK'
    BY <1>7 DEF allVars, syncVars, FetchInv, SyncTypeOK
  <2> QED
    BY <1>7, <2>1, QuietSyncStep DEF allVars, syncVars, inboundVars, FetchInv
<1> QED
  BY <1>1, <1>2, <1>3, <1>4, <1>5, <1>6, <1>7 DEF SyncNext

LEMMA FetchInvariance == SyncSafeSpec => []FetchInv
<1>1. SyncInit => FetchInv
  <2> SUFFICES ASSUME SyncInit
               PROVE  FetchInv
    OBVIOUS
  <2>1. IInv
    BY InitEstablishes DEF SyncInit
  <2>2. SyncTypeOK
    <3>1. <<>> \in Seq(Msg) /\ Len(<<>>) <= TRANSIENT_IDS_SIZE
      BY SyncAssumption
    <3>2. 0 \in 0..MaxSyncs /\ 0 \in 0..(SYNC_TIMEOUT + 1) /\ 0 \in Nat
      BY SyncAssumption
    <3> QED
      BY <3>1, <3>2 DEF SyncInit, SyncTypeOK, SyncState, LinkStatus
  <2> QED
    BY <2>1, <2>2 DEF SyncInit, FetchInv, AckedWasProcessed
<1>2. FetchInv /\ SyncInv /\ [SyncNext]_allVars => FetchInv'
  BY FetchStep
<1> QED
  BY <1>1, <1>2, SyncInvariance, PTL DEF SyncSafeSpec

(* Sync, node, links and requests keep their types, and the list of        *)
(* remembered ids its size, however large the responses are.               *)
THEOREM SyncTypeCorrect == SyncSafeSpec => []SyncTypeOK
<1>1. FetchInv => SyncTypeOK
  BY DEF FetchInv
<1> QED
  BY <1>1, FetchInvariance, PTL

(* The node is never told to delete a message that can be read and was not *)
(* queued, wherever an exception stops on_message_get_response().          *)
THEOREM AckedWereProcessed == SyncSafeSpec => []AckedWasProcessed
<1>1. FetchInv => AckedWasProcessed
  BY DEF FetchInv
<1> QED
  BY <1>1, FetchInvariance, PTL

(* The queue keeps its promises under a sync too, whose responses push any *)
(* number of messages at once: none vanishes without trace, none is given  *)
(* to the application twice within the ring's size.                        *)
THEOREM QueueIsSafeUnderSync ==
    SyncSafeSpec => [](NothingVanishes /\ DispatchedOncePerWindow)
<1>1. FetchInv => NothingVanishes /\ DispatchedOncePerWindow
  BY DEF FetchInv, IInv
<1> QED
  BY <1>1, FetchInvariance, PTL
=============================================================================

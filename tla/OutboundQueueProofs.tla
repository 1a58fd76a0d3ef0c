------------------------ MODULE OutboundQueueProofs ------------------------
(***************************************************************************)
(* Proofs about OutboundQueue for every set of messages, every queue and   *)
(* pool size and every attempt limit: type correctness, the safety         *)
(* invariants, and the refinement of OutboundContract.                     *)
(***************************************************************************)
EXTENDS OutboundQueue, FiniteSetTheorems, TLAPS

-----------------------------------------------------------------------------
(* Sequences without repetition.                                           *)

(* Appending adds exactly one element, and keeps a repetition-free queue   *)
(* so when the element is new (pending_outbound_push).                     *)
LEMMA AppendFacts ==
    ASSUME NEW S, NEW q \in Seq(S), NEW e \in S
    PROVE  /\ Append(q, e) \in Seq(S)
           /\ Len(Append(q, e)) = Len(q) + 1
           /\ Elements(Append(q, e)) = Elements(q) \cup {e}
           /\ Distinct(q) /\ e \notin Elements(q) => Distinct(Append(q, e))
<1>1. /\ Append(q, e) \in Seq(S)
      /\ Len(Append(q, e)) = Len(q) + 1
      /\ \A i \in 1..Len(q) : Append(q, e)[i] = q[i]
      /\ Append(q, e)[Len(q) + 1] = e
  OBVIOUS
<1>2. 1..(Len(q) + 1) = (1..Len(q)) \cup {Len(q) + 1}
  OBVIOUS
<1>3. Elements(Append(q, e)) = Elements(q) \cup {e}
  BY <1>1, <1>2, Zenon DEF Elements
<1>4. ASSUME Distinct(q), e \notin Elements(q)
      PROVE  Distinct(Append(q, e))
  BY <1>1, <1>4 DEF Distinct, Elements
<1> QED
  BY <1>1, <1>3, <1>4

(* Popping removes the first element, and only it when none is repeated    *)
(* (pending_outbound_pop).                                                 *)
LEMMA TailFacts ==
    ASSUME NEW S, NEW q \in Seq(S), q # <<>>
    PROVE  /\ Tail(q) \in Seq(S)
           /\ Len(Tail(q)) = Len(q) - 1
           /\ Head(q) \in S
           /\ Elements(q) = Elements(Tail(q)) \cup {Head(q)}
           /\ Distinct(q) => /\ Distinct(Tail(q))
                             /\ Head(q) \notin Elements(Tail(q))
<1>1. /\ Tail(q) \in Seq(S)
      /\ Len(Tail(q)) = Len(q) - 1
      /\ Len(q) \in Nat /\ Len(q) > 0
      /\ Head(q) = q[1]
      /\ q[1] \in S
      /\ \A i \in 1..Len(Tail(q)) : Tail(q)[i] = q[i + 1]
  OBVIOUS
<1>2. Elements(Tail(q)) \cup {Head(q)} \subseteq Elements(q)
  BY <1>1 DEF Elements
<1>3. ASSUME NEW x \in Elements(q)
      PROVE  x \in Elements(Tail(q)) \cup {Head(q)}
  <2>1. PICK i \in 1..Len(q) : x = q[i]
    BY DEF Elements
  <2>2. CASE i = 1
    BY <1>1, <2>1, <2>2
  <2>3. CASE i # 1
    <3>1. /\ i - 1 \in 1..Len(Tail(q))
          /\ Tail(q)[i - 1] = q[i]
      BY <1>1, <2>1, <2>3
    <3> QED
      BY <2>1, <3>1 DEF Elements
  <2> QED
    BY <2>2, <2>3
<1>4. ASSUME Distinct(q)
      PROVE  Distinct(Tail(q)) /\ Head(q) \notin Elements(Tail(q))
  BY <1>1, <1>4 DEF Distinct, Elements
<1> QED
  BY <1>1, <1>2, <1>3, <1>4

(* Cutting a queue in two shares its elements out, and joining two queues  *)
(* unites them (the loop of retry_failed_outbound).                        *)
LEMMA CutFacts ==
    ASSUME NEW S, NEW q \in Seq(S), NEW n \in 0..Len(q)
    PROVE  LET a == SubSeq(q, 1, n)
               b == SubSeq(q, n + 1, Len(q))
           IN  /\ a \in Seq(S) /\ Len(a) = n
               /\ b \in Seq(S) /\ Len(b) = Len(q) - n
               /\ Elements(a) \subseteq Elements(q)
               /\ Elements(b) \subseteq Elements(q)
               /\ Elements(q) \subseteq Elements(a) \cup Elements(b)
               /\ Distinct(q) => /\ Distinct(a)
                                 /\ Distinct(b)
                                 /\ Elements(a) \cap Elements(b) = {}
<1> DEFINE a == SubSeq(q, 1, n)
           b == SubSeq(q, n + 1, Len(q))
<1>1. /\ a \in Seq(S) /\ Len(a) = n
      /\ b \in Seq(S) /\ Len(b) = Len(q) - n
      /\ \A i \in 1..n : a[i] = q[i]
      /\ \A i \in 1..(Len(q) - n) : b[i] = q[n + i]
      /\ Len(q) \in Nat
  OBVIOUS
<1> HIDE DEF a, b
<1>2. Elements(a) \subseteq Elements(q) /\ Elements(b) \subseteq Elements(q)
  BY <1>1 DEF Elements
<1>3. ASSUME NEW x \in Elements(q)
      PROVE  x \in Elements(a) \cup Elements(b)
  <2>1. PICK i \in 1..Len(q) : x = q[i]
    BY DEF Elements
  <2>2. CASE i <= n
    BY <1>1, <2>1, <2>2 DEF Elements
  <2>3. CASE i > n
    <3>1. i - n \in 1..Len(b) /\ b[i - n] = q[i]
      BY <1>1, <2>1, <2>3
    <3> QED
      BY <2>1, <3>1 DEF Elements
  <2> QED
    BY <2>2, <2>3, <1>1
<1>4. ASSUME Distinct(q)
      PROVE  Distinct(a) /\ Distinct(b) /\ Elements(a) \cap Elements(b) = {}
  <2>1. Distinct(a)
    <3> SUFFICES ASSUME NEW i \in 1..Len(a), NEW j \in 1..Len(a), a[i] = a[j]
                 PROVE  i = j
      BY DEF Distinct
    <3>1. i \in 1..Len(q) /\ j \in 1..Len(q) /\ q[i] = q[j]
      BY <1>1
    <3> QED
      BY <1>4, <3>1 DEF Distinct
  <2>2. \A i, j \in 1..Len(b) :
            /\ n + i \in 1..Len(q) /\ n + j \in 1..Len(q)
            /\ n + i = n + j => i = j
    BY <1>1
  <2>3. Distinct(b)
    BY <1>1, <1>4, <2>2 DEF Distinct
  <2>4. ASSUME NEW i \in 1..Len(a), NEW j \in 1..Len(b)
        PROVE  a[i] # b[j]
    <3>1. i \in 1..Len(q) /\ n + j \in 1..Len(q) /\ i # n + j
      BY <1>1
    <3> QED
      BY <1>1, <1>4, <3>1 DEF Distinct
  <2> QED
    BY <2>1, <2>3, <2>4 DEF Elements
<1> QED
  BY <1>1, <1>2, <1>3, <1>4 DEF a, b

(* Joining two rings whose messages differ repeats no message.             *)
LEMMA JoinFacts ==
    ASSUME NEW S, NEW q \in Seq(S), NEW r \in Seq(S)
    PROVE  /\ q \o r \in Seq(S)
           /\ Len(q \o r) = Len(q) + Len(r)
           /\ Elements(q \o r) = Elements(q) \cup Elements(r)
           /\ /\ Distinct(q) /\ Distinct(r)
              /\ Elements(q) \cap Elements(r) = {}
              => Distinct(q \o r)
<1>1. /\ q \o r \in Seq(S)
      /\ Len(q \o r) = Len(q) + Len(r)
      /\ Len(q) \in Nat /\ Len(r) \in Nat
      /\ \A i \in 1..Len(q) : (q \o r)[i] = q[i]
      /\ \A i \in 1..Len(r) : (q \o r)[Len(q) + i] = r[i]
      /\ \A i \in 1..(Len(q) + Len(r)) :
             (q \o r)[i] = IF i <= Len(q) THEN q[i] ELSE r[i - Len(q)]
  OBVIOUS
<1>2. Elements(q) \cup Elements(r) \subseteq Elements(q \o r)
  <2>1. ASSUME NEW i \in 1..Len(q)
        PROVE  q[i] \in Elements(q \o r)
    <3>1. i \in 1..Len(q \o r) /\ (q \o r)[i] = q[i]
      BY <1>1
    <3> QED
      BY <3>1 DEF Elements
  <2>2. ASSUME NEW i \in 1..Len(r)
        PROVE  r[i] \in Elements(q \o r)
    <3>1. Len(q) + i \in 1..Len(q \o r) /\ (q \o r)[Len(q) + i] = r[i]
      BY <1>1
    <3> QED
      BY <3>1 DEF Elements
  <2> QED
    BY <2>1, <2>2 DEF Elements
<1>3. Elements(q \o r) \subseteq Elements(q) \cup Elements(r)
  BY <1>1 DEF Elements
<1>4. ASSUME Distinct(q), Distinct(r), Elements(q) \cap Elements(r) = {}
      PROVE  Distinct(q \o r)
  <2> SUFFICES ASSUME NEW i \in 1..Len(q \o r), NEW j \in 1..Len(q \o r),
                      (q \o r)[i] = (q \o r)[j]
               PROVE  i = j
    BY DEF Distinct
  <2>1. CASE i <= Len(q) /\ j <= Len(q)
    BY <1>1, <1>4, <2>1 DEF Distinct
  <2>2. CASE i > Len(q) /\ j > Len(q)
    <3>1. r[i - Len(q)] = r[j - Len(q)]
      BY <1>1, <2>2
    <3>2. i - Len(q) \in 1..Len(r) /\ j - Len(q) \in 1..Len(r)
      BY <1>1, <2>2
    <3>3. i - Len(q) = j - Len(q)
      BY <3>1, <3>2, <1>4 DEF Distinct
    <3> QED
      BY <3>3, <1>1
  <2>3. CASE i <= Len(q) /\ j > Len(q)
    <3>1. q[i] \in Elements(q) /\ r[j - Len(q)] \in Elements(r)
      BY <1>1, <2>3 DEF Elements
    <3>2. q[i] = r[j - Len(q)]
      BY <1>1, <2>3
    <3> QED
      BY <3>1, <3>2, <1>4
  <2>4. CASE i > Len(q) /\ j <= Len(q)
    <3>1. j \in 1..Len(q) /\ i - Len(q) \in 1..Len(r)
      BY <1>1, <2>4
    <3>2. q[j] \in Elements(q) /\ r[i - Len(q)] \in Elements(r)
      BY <3>1 DEF Elements
    <3>3. q[j] = r[i - Len(q)]
      BY <1>1, <2>4
    <3> QED
      BY <3>2, <3>3, <1>4
  <2> QED
    BY <1>1, <2>1, <2>2, <2>3, <2>4
<1> QED
  BY <1>1, <1>2, <1>3, <1>4

-----------------------------------------------------------------------------
(* The steps the actions share.                                            *)

(* failed_outbound_push() of a message from the pending queue: the bound   *)
(* holds, nothing but that message is added, and it ends in the queue.     *)
LEMMA PushFailedFacts ==
    ASSUME TypeOK, NEW m \in Msg
    PROVE  /\ PushFailed(m) \in Seq(Msg)
           /\ Len(PushFailed(m)) <= FAILED_OUTBOUND_SIZE
           /\ m \in Elements(PushFailed(m))
           /\ Elements(PushFailed(m)) \subseteq Elements(failed) \cup {m}
           /\ Distinct(failed) /\ m \notin Elements(failed)
                => Distinct(PushFailed(m))
<1> USE DEF TypeOK
<1>1. CASE Len(failed) < FAILED_OUTBOUND_SIZE
  <2>1. PushFailed(m) = Append(failed, m)
    BY <1>1 DEF PushFailed
  <2>2. /\ Append(failed, m) \in Seq(Msg)
        /\ Len(Append(failed, m)) = Len(failed) + 1
        /\ Elements(Append(failed, m)) = Elements(failed) \cup {m}
        /\ Distinct(failed) /\ m \notin Elements(failed)
             => Distinct(Append(failed, m))
    BY AppendFacts
  <2>3. Len(failed) + 1 <= FAILED_OUTBOUND_SIZE
    BY <1>1, ConstantsAssumption
  <2> QED
    BY <2>1, <2>2, <2>3
<1>2. CASE ~(Len(failed) < FAILED_OUTBOUND_SIZE)
  <2>1. PushFailed(m) = Append(Tail(failed), m)
    BY <1>2 DEF PushFailed
  <2>2. failed # <<>>
    BY <1>2, ConstantsAssumption
  <2>3. /\ Tail(failed) \in Seq(Msg)
        /\ Len(Tail(failed)) = Len(failed) - 1
        /\ Elements(Tail(failed)) \subseteq Elements(failed)
        /\ Distinct(failed) => Distinct(Tail(failed))
    BY <2>2, TailFacts
  <2>4. /\ Append(Tail(failed), m) \in Seq(Msg)
        /\ Len(Append(Tail(failed), m)) = Len(Tail(failed)) + 1
        /\ Elements(Append(Tail(failed), m)) = Elements(Tail(failed)) \cup {m}
        /\ Distinct(Tail(failed)) /\ m \notin Elements(Tail(failed))
             => Distinct(Append(Tail(failed), m))
    BY <2>3, AppendFacts
  <2>5. Len(Tail(failed)) + 1 <= FAILED_OUTBOUND_SIZE
    BY <2>3, ConstantsAssumption
  <2> QED
    BY <2>1, <2>3, <2>4, <2>5
<1> QED
  BY <1>1, <1>2

(* The message at the front is an accepted message of the pending queue,   *)
(* and popping it leaves a queue of the same kind.                         *)
LEMMA FrontFacts ==
    ASSUME TypeOK, NEW m \in Msg, AtFront(m)
    PROVE  /\ pending # <<>>
           /\ m \in Elements(pending)
           /\ Tail(pending) \in Seq(Msg)
           /\ Len(Tail(pending)) <= PENDING_OUTBOUND_SIZE
           /\ Elements(Tail(pending)) \subseteq Elements(pending)
           /\ Elements(pending) = Elements(Tail(pending)) \cup {m}
           /\ Distinct(pending) => /\ Distinct(Tail(pending))
                                   /\ m \notin Elements(Tail(pending))
<1>1. pending # <<>> /\ m = Head(pending) /\ pending \in Seq(Msg)
  BY DEF AtFront, Front, TypeOK
<1>2. Len(pending) <= PENDING_OUTBOUND_SIZE /\ Len(pending) \in Nat
  BY DEF TypeOK
<1> QED
  BY <1>1, <1>2, TailFacts, ConstantsAssumption

(* What failing the front message does to the variables it writes.         *)
LEMMA FailFrontType ==
    ASSUME TypeOK, NEW m \in Msg, AtFront(m), NEW heard \in SUBSET Report,
           FailFront(m, heard)
    PROVE  /\ pending' \in Seq(Msg) /\ Len(pending') <= PENDING_OUTBOUND_SIZE
           /\ failed' \in Seq(Msg) /\ Len(failed') <= FAILED_OUTBOUND_SIZE
           /\ state' \in [Msg -> State]
           /\ told' \in [Msg -> SUBSET Report]
<1>1. state' \in [Msg -> State] /\ told' \in [Msg -> SUBSET Report]
  BY DEF FailFront, TypeOK, State, Report
<1>2. CASE pending' = Tail(pending) /\ failed' = PushFailed(m)
  BY <1>1, <1>2, PushFailedFacts, FrontFacts
<1>3. CASE UNCHANGED queueVars
  BY <1>1, <1>3 DEF queueVars, TypeOK
<1> QED
  BY <1>2, <1>3 DEF FailFront

(* The attempt counter and the method after an attempt.                    *)
LEMMA AttemptType ==
    ASSUME TypeOK, NEW m \in Msg, Attempt(m)
    PROVE  /\ AtFront(m)
           /\ attempts' \in [Msg -> 0..MAX_DELIVERY_ATTEMPTS]
           /\ method' \in [Msg -> Method]
           /\ attempts[m] + 1 \in 1..MAX_DELIVERY_ATTEMPTS
<1>1. attempts[m] \in 0..MAX_DELIVERY_ATTEMPTS
  BY DEF TypeOK
<1>2. attempts[m] + 1 \in 1..MAX_DELIVERY_ATTEMPTS
  BY <1>1, ConstantsAssumption DEF Attempt
<1>3. attempts' \in [Msg -> 0..MAX_DELIVERY_ATTEMPTS]
  BY <1>2, ConstantsAssumption DEF Attempt, TypeOK
<1>4. method' \in [Msg -> Method]
  BY DEF Attempt, SetMethod, TypeOK, Method
<1> QED
  BY <1>2, <1>3, <1>4 DEF Attempt

(* A transmission carries the message that makes it, and is only tracked   *)
(* while it is on the air.                                                 *)
LEMMA PutOnAirFacts ==
    ASSUME TypeOK, NEW m \in Msg, Attempt(m), PutOnAir(m)
    PROVE  \E t \in Transmission :
               /\ t.msg = m /\ t.attempt = attempts[m] + 1 /\ t.via = Via(m)
               /\ air' = air \cup {t}
               /\ tracked' \subseteq tracked \cup {t}
<1> DEFINE t == [msg |-> m, attempt |-> attempts[m] + 1, via |-> Via(m)]
<1>1. Via(m) \in Kind
  BY DEF Via, Kind
<1>2. t \in Transmission
  BY <1>1, AttemptType DEF Transmission
<1>3. t.msg = m /\ t.attempt = attempts[m] + 1 /\ t.via = Via(m)
  OBVIOUS
<1>4. air' = air \cup {t} /\ tracked' \subseteq tracked \cup {t}
  BY DEF PutOnAir
<1> QED
  BY <1>2, <1>3, <1>4

-----------------------------------------------------------------------------
(* Type correctness: the queues stay within their pools on every path, and *)
(* no message is attempted more often than MAX_DELIVERY_ATTEMPTS.          *)

LEMMA AdmissionType ==
    ASSUME TypeOK, NEW m \in Msg, TryHandleOutbound(m)
    PROVE  TypeOK'
<1>1. CASE QueueFull(m)
  BY <1>1 DEF QueueFull, TypeOK, Verdict, queueVars, trackVars
<1>2. CASE Refuse(m)
  BY <1>2 DEF Refuse, TypeOK, Verdict, queueVars, trackVars
<1>3. CASE Accept(m)
  <2>1. /\ pending' \in Seq(Msg)
        /\ Len(pending') = Len(pending) + 1
    BY <1>3, AppendFacts DEF Accept, TypeOK
  <2>2. Len(pending') <= PENDING_OUTBOUND_SIZE
    BY <1>3, <2>1, ConstantsAssumption DEF Accept, HasRoom, TypeOK
  <2> QED
    BY <1>3, <2>1, <2>2 DEF Accept, TypeOK, Verdict, State, trackVars
<1> QED
  BY <1>1, <1>2, <1>3 DEF TryHandleOutbound

(* What a pass transmits and the pool slots it fills are transmissions.    *)
LEMMA TransmitType ==
    ASSUME TypeOK, NEW m \in Msg, Attempt(m), Transmit(m)
    PROVE  air' \subseteq Transmission /\ tracked' \subseteq Transmission
<1>1. CASE PutOnAir(m)
  BY <1>1, PutOnAirFacts DEF TypeOK
<1>2. CASE UNCHANGED <<air, tracked>>
  BY <1>2 DEF TypeOK
<1> QED
  BY <1>1, <1>2 DEF Transmit

(* Every way out of process_outbound() leaves the state well typed.        *)
LEMMA ProcessOutboundType ==
    ASSUME TypeOK, NEW m \in Msg, ProcessOutbound(m)
    PROVE  TypeOK'
<1>1. CASE GiveUp(m)
  <2>1. AtFront(m) /\ FailFront(m, {})
    BY <1>1 DEF GiveUp
  <2> QED
    BY <1>1, <2>1, FailFrontType DEF GiveUp, TypeOK, trackVars
<1>2. ASSUME NEW delay \in RetryDelays(m), RetryLater(m, delay)
      PROVE  TypeOK'
  <2>1. delay \in Nat
    BY ConstantsAssumption DEF RetryDelays
  <2> QED
    BY <1>2, <2>1, AttemptType
    DEF RetryLater, TypeOK, queueVars, trackVars
<1>3. CASE SendFails(m)
  <2>1. Attempt(m) /\ FailFront(m, {})
    BY <1>3 DEF SendFails
  <2> QED
    BY <1>3, <2>1, AttemptType, FailFrontType
    DEF SendFails, TypeOK, trackVars
<1>4. CASE Send(m)
  <2>1. Attempt(m) /\ Transmit(m)
    BY <1>4 DEF Send
  <2>2. state' \in [Msg -> State] /\ told' \in [Msg -> SUBSET Report]
    BY <1>4 DEF Send, TypeOK, State, Report
  <2> QED
    BY <1>4, <2>1, <2>2, AttemptType, TransmitType, FrontFacts
    DEF Send, TypeOK
<1>5. CASE SendAndThrow(m)
  <2>1. Attempt(m) /\ Transmit(m) /\ FailFront(m, {"sent"})
    BY <1>5 DEF SendAndThrow
  <2>2. {"sent"} \in SUBSET Report
    BY DEF Report
  <2>3. /\ pending' \in Seq(Msg) /\ Len(pending') <= PENDING_OUTBOUND_SIZE
        /\ failed' \in Seq(Msg) /\ Len(failed') <= FAILED_OUTBOUND_SIZE
        /\ state' \in [Msg -> State]
        /\ told' \in [Msg -> SUBSET Report]
    BY <2>1, <2>2, AttemptType, FailFrontType
  <2> QED
    BY <1>5, <2>1, <2>3, AttemptType, TransmitType
    DEF SendAndThrow, TypeOK
<1>6. CASE StartUpload(m)
  <2>1. Attempt(m) /\ Transmit(m)
    BY <1>6 DEF StartUpload, Transmit
  <2>2. state' \in [Msg -> State]
    BY <1>6 DEF StartUpload, TypeOK, State
  <2> QED
    BY <1>6, <2>1, <2>2, AttemptType, TransmitType, FrontFacts
    DEF StartUpload, TypeOK
<1> QED
  BY <1>1, <1>2, <1>3, <1>4, <1>5, <1>6 DEF ProcessOutbound

(* Proofs, resource ends and losses leave the state well typed.            *)
LEMMA CallbackType ==
    ASSUME TypeOK, NEW t \in air, Confirmed(t) \/ Lost(t)
    PROVE  TypeOK'
<1>1. t.msg \in Msg /\ t.via \in Kind
  BY DEF TypeOK, Transmission
<1>2. CASE Confirmed(t)
  <2>1. told' \in [Msg -> SUBSET Report]
    BY <1>1, <1>2 DEF Confirmed, ReportOf, TypeOK, Report
  <2> QED
    BY <1>1, <1>2, <2>1 DEF Confirmed, TypeOK, queueVars
<1>3. CASE Lost(t)
  BY <1>3 DEF Lost, TypeOK, queueVars
<1> QED
  BY <1>2, <1>3

(* What retry_failed_outbound() does to the two queues.                    *)
LEMMA RetryFacts ==
    ASSUME TypeOK, RetryFailedOutbound
    PROVE  \E moved \in Seq(Msg) :
               /\ pending' = pending \o moved
               /\ Len(pending) + Len(moved) <= PENDING_OUTBOUND_SIZE
               /\ moved # <<>>
               /\ failed' \in Seq(Msg)
               /\ Len(failed') <= FAILED_OUTBOUND_SIZE
               /\ Elements(moved) \subseteq Elements(failed)
               /\ Elements(failed') \subseteq Elements(failed)
               /\ Elements(failed) \subseteq
                      Elements(moved) \cup Elements(failed')
               /\ Distinct(failed) =>
                      /\ Distinct(moved) /\ Distinct(failed')
                      /\ Elements(moved) \cap Elements(failed') = {}
               /\ state' = [m \in Msg |-> IF m \in Elements(moved)
                                          THEN "OUTBOUND" ELSE state[m]]
<1> DEFINE room == PENDING_OUTBOUND_SIZE - Len(pending)
           n == LesserOf(Len(failed), room)
           moved == SubSeq(failed, 1, n)
           rest == SubSeq(failed, n + 1, Len(failed))
<1>1. /\ failed \in Seq(Msg)
      /\ Len(pending) \in Nat /\ Len(failed) \in Nat
      /\ Len(pending) <= PENDING_OUTBOUND_SIZE
      /\ Len(failed) <= FAILED_OUTBOUND_SIZE
  BY DEF TypeOK
<1>2. /\ n > 0
      /\ pending' = pending \o moved
      /\ failed' = rest
      /\ state' = [m \in Msg |-> IF m \in Elements(moved)
                                 THEN "OUTBOUND" ELSE state[m]]
  BY DEF RetryFailedOutbound
<1>3. n \in 0..Len(failed) /\ n <= room
  BY <1>1, ConstantsAssumption DEF LesserOf
<1> HIDE DEF n
<1>4. /\ moved \in Seq(Msg) /\ Len(moved) = n
      /\ rest \in Seq(Msg) /\ Len(rest) = Len(failed) - n
      /\ Elements(moved) \subseteq Elements(failed)
      /\ Elements(rest) \subseteq Elements(failed)
      /\ Elements(failed) \subseteq Elements(moved) \cup Elements(rest)
      /\ Distinct(failed) => /\ Distinct(moved)
                             /\ Distinct(rest)
                             /\ Elements(moved) \cap Elements(rest) = {}
  BY <1>1, <1>3, CutFacts
<1> HIDE DEF moved, rest
<1>5. Len(pending) + Len(moved) <= PENDING_OUTBOUND_SIZE
  BY <1>1, <1>3, <1>4, ConstantsAssumption
<1>6. Len(rest) <= FAILED_OUTBOUND_SIZE
  BY <1>1, <1>3, <1>4, ConstantsAssumption
<1>7. moved # <<>>
  BY <1>2, <1>3, <1>4
<1> QED
  BY <1>2, <1>4, <1>5, <1>6, <1>7

(* So do the calls of the application and the passing of time.             *)
LEMMA InterfaceType ==
    ASSUME TypeOK,
           RetryFailedOutbound \/ ClearFailedOutbound \/ SetPropagationOnly
               \/ Tick
    PROVE  TypeOK'
<1>1. CASE RetryFailedOutbound
  <2>1. PICK moved \in Seq(Msg) :
            /\ pending' = pending \o moved
            /\ Len(pending) + Len(moved) <= PENDING_OUTBOUND_SIZE
            /\ failed' \in Seq(Msg)
            /\ Len(failed') <= FAILED_OUTBOUND_SIZE
            /\ state' = [m \in Msg |-> IF m \in Elements(moved)
                                       THEN "OUTBOUND" ELSE state[m]]
    BY <1>1, RetryFacts
  <2>2. pending' \in Seq(Msg) /\ Len(pending') <= PENDING_OUTBOUND_SIZE
    BY <2>1, JoinFacts DEF TypeOK
  <2>3. state' \in [Msg -> State]
    BY <2>1 DEF TypeOK, State
  <2> QED
    BY <1>1, <2>1, <2>2, <2>3 DEF RetryFailedOutbound, TypeOK, trackVars
<1>2. CASE ClearFailedOutbound
  <2>1. <<>> \in Seq(Msg) /\ Len(<<>>) <= FAILED_OUTBOUND_SIZE
    BY ConstantsAssumption
  <2> QED
    BY <1>2, <2>1 DEF ClearFailedOutbound, TypeOK, trackVars
<1>3. CASE SetPropagationOnly
  BY <1>3, ConstantsAssumption DEF SetPropagationOnly, TypeOK, queueVars, trackVars
<1>4. CASE Tick
  BY <1>4 DEF Tick, TypeOK, queueVars, trackVars
<1> QED
  BY <1>1, <1>2, <1>3, <1>4

(* TypeOK is inductive by itself.                                          *)
LEMMA NextType == TypeOK /\ [Next]_vars => TypeOK'
<1> SUFFICES ASSUME TypeOK, [Next]_vars PROVE TypeOK'
  OBVIOUS
<1>1. CASE UNCHANGED vars
  BY <1>1 DEF vars, TypeOK
<1>2. CASE Next
  BY <1>2, AdmissionType, ProcessOutboundType, CallbackType, InterfaceType
  DEF Next
<1> QED
  BY <1>1, <1>2

(* A router starts with empty queues, which are well typed.                *)
LEMMA InitType == Init => TypeOK
<1>1. /\ <<>> \in Seq(Msg)
      /\ Len(<<>>) <= PENDING_OUTBOUND_SIZE
      /\ Len(<<>>) <= FAILED_OUTBOUND_SIZE
  BY ConstantsAssumption
<1> SUFFICES ASSUME Init PROVE TypeOK
  OBVIOUS
<1>2. /\ attempts \in [Msg -> 0..MAX_DELIVERY_ATTEMPTS]
      /\ method \in [Msg -> Method]
      /\ backoff \in Nat
  BY ConstantsAssumption DEF Init
<1>3. /\ state \in [Msg -> State]
      /\ verdict \in [Msg -> Verdict]
      /\ told \in [Msg -> SUBSET Report]
  BY DEF Init, State, Verdict
<1>4. /\ pending \in Seq(Msg) /\ Len(pending) <= PENDING_OUTBOUND_SIZE
      /\ failed \in Seq(Msg) /\ Len(failed) <= FAILED_OUTBOUND_SIZE
  BY <1>1 DEF Init
<1> QED
  BY <1>2, <1>3, <1>4 DEF Init, TypeOK

(* The queues stay within their pools and the attempt counter within its   *)
(* limit, on every path of the pipeline.                                   *)
THEOREM TypeCorrect == SafeSpec => []TypeOK
  BY InitType, NextType, PTL DEF SafeSpec

-----------------------------------------------------------------------------
(* The inductive invariant.                                                *)

(* Failing the front message keeps the two queues disjoint and free of     *)
(* repetition, and whatever leaves them has been reported as failed.       *)
LEMMA FailFrontSafe ==
    ASSUME IInv, NEW m \in Msg, AtFront(m), NEW heard \in SUBSET {"sent"},
           FailFront(m, heard)
    PROVE  /\ NoMessageTwice'
           /\ Elements(pending') \cup Elements(failed')
                  \subseteq Elements(pending) \cup Elements(failed)
           /\ \A x \in Msg \ {m} : state'[x] = state[x] /\ told'[x] = told[x]
           /\ told'[m] = told[m] \cup heard \cup {"failed"}
           /\ state'[m] = "FAILED"
           /\ \A x \in Elements(failed') : ReportedFailed(x)'
           /\ \A x \in Elements(pending) \cup Elements(failed) :
                  \/ x \in Elements(pending') \cup Elements(failed')
                  \/ "failed" \in told'[x]
<1>1. TypeOK /\ NoMessageTwice /\ FailedAreReported
  BY DEF IInv
<1>2. /\ \A x \in Msg \ {m} : state'[x] = state[x] /\ told'[x] = told[x]
      /\ told'[m] = told[m] \cup heard \cup {"failed"}
      /\ state'[m] = "FAILED"
  BY <1>1 DEF FailFront, TypeOK
<1>3. /\ Elements(pending) \subseteq Msg
      /\ Elements(failed) \subseteq Msg
  BY <1>1 DEF Elements, TypeOK
<1>4. \A x \in Elements(failed) : ReportedFailed(x)'
  <2>1. m \in Elements(pending)
    BY <1>1, FrontFacts
  <2>2. m \notin Elements(failed)
    BY <1>1, <2>1 DEF NoMessageTwice
  <2> QED
    BY <1>1, <1>2, <1>3, <2>2 DEF FailedAreReported, ReportedFailed
<1>5. ReportedFailed(m)'
  BY <1>2 DEF ReportedFailed
<1>6. /\ Elements(pending) = Elements(Tail(pending)) \cup {m}
      /\ Distinct(Tail(pending))
      /\ m \notin Elements(Tail(pending))
      /\ m \in Elements(pending)
      /\ m \notin Elements(failed)
      /\ Elements(pending) \cap Elements(failed) = {}
  BY <1>1, FrontFacts DEF NoMessageTwice
<1>7. CASE pending' = Tail(pending) /\ failed' = PushFailed(m)
  <2>1. /\ m \in Elements(failed')
        /\ Elements(failed') \subseteq Elements(failed) \cup {m}
        /\ Distinct(failed')
    BY <1>1, <1>6, <1>7, PushFailedFacts DEF NoMessageTwice
  <2>2. NoMessageTwice'
    BY <1>6, <1>7, <2>1 DEF NoMessageTwice
  <2> QED
    BY <1>2, <1>4, <1>5, <1>6, <1>7, <2>1, <2>2 DEF ReportedFailed
<1>8. CASE UNCHANGED queueVars
  <2>1. NoMessageTwice'
    BY <1>1, <1>8 DEF NoMessageTwice, queueVars
  <2> QED
    BY <1>2, <1>4, <1>8, <2>1 DEF queueVars
<1> QED
  BY <1>7, <1>8 DEF FailFront

(* What a step has to keep for the reports the application is owed: it     *)
(* takes back no report, invents no delivery, and lets nothing leave the   *)
(* queues unless it is reported or being uploaded.                         *)
LEMMA ReportsKept ==
    ASSUME IInv, UNCHANGED verdict,
           Elements(pending') \cup Elements(failed')
               \subseteq Elements(pending) \cup Elements(failed),
           \A x \in Msg : /\ told[x] \subseteq told'[x]
                          /\ "delivered" \in told'[x] =>
                                 "delivered" \in told[x] \/ "sent" \in told'[x],
           \A x \in Elements(failed') : ReportedFailed(x)',
           \A x \in Msg \ (Elements(pending) \cup Elements(failed)) :
               state'[x] = state[x],
           \A x \in Elements(pending) \cup Elements(failed) :
               \/ x \in Elements(pending') \cup Elements(failed')
               \/ told'[x] # {}
               \/ state'[x] = "SENDING"
    PROVE  /\ NothingLostInSilence'
           /\ DeliveredOnlyAfterSent'
           /\ OnlyAcceptedAreQueued'
           /\ FailedAreReported'
<1>1. DeliveredOnlyAfterSent'
  BY DEF IInv, DeliveredOnlyAfterSent
<1>2. OnlyAcceptedAreQueued'
  BY DEF IInv, OnlyAcceptedAreQueued
<1>3. FailedAreReported'
  BY DEF FailedAreReported
<1>4. NothingLostInSilence'
  <2> SUFFICES ASSUME NEW x \in Msg, verdict[x] = "ACCEPTED",
                      x \notin Elements(pending') \cup Elements(failed')
               PROVE  told'[x] # {} \/ state'[x] = "SENDING"
    BY DEF NothingLostInSilence
  <2>1. CASE x \in Elements(pending) \cup Elements(failed)
    BY <2>1
  <2>2. CASE x \notin Elements(pending) \cup Elements(failed)
    <3>1. told[x] # {} \/ state[x] = "SENDING"
      BY <2>2 DEF IInv, NothingLostInSilence
    <3> QED
      BY <2>2, <3>1
  <2> QED
    BY <2>1, <2>2
<1> QED
  BY <1>1, <1>2, <1>3, <1>4

(* A new transmission is tracked for a reported message or an upload.      *)
LEMMA TransmitSafe ==
    ASSUME IInv, NEW m \in Msg, Attempt(m), Transmit(m),
           \A x \in Msg : told[x] \subseteq told'[x],
           UsesPropagation(m) \/ "sent" \in told'[m]
    PROVE  TrackedAreReported'
<1>1. /\ TypeOK /\ TrackedAreReported
      /\ \A t \in tracked : t.msg \in Msg
  BY DEF IInv, TypeOK, Transmission
<1>2. CASE PutOnAir(m)
  <2>1. PICK t \in Transmission :
            /\ t.msg = m /\ t.via = Via(m)
            /\ air' = air \cup {t}
            /\ tracked' \subseteq tracked \cup {t}
    BY <1>1, <1>2, PutOnAirFacts
  <2>2. t.via # "upload" => "sent" \in told'[t.msg]
    BY <2>1 DEF Via
  <2> QED
    BY <1>1, <2>1, <2>2 DEF TrackedAreReported
<1>3. CASE UNCHANGED <<air, tracked>>
  BY <1>1, <1>3 DEF TrackedAreReported
<1> QED
  BY <1>2, <1>3 DEF Transmit

(* Popping the front message keeps the queues disjoint.                    *)
LEMMA PopSafe ==
    ASSUME IInv, NEW m \in Msg, AtFront(m), pending' = Tail(pending),
           UNCHANGED failed
    PROVE  /\ NoMessageTwice'
           /\ Elements(pending) = Elements(pending') \cup {m}
  BY FrontFacts DEF IInv, NoMessageTwice

(* handle_outbound() queues a message nothing holds, or changes no queue.  *)
LEMMA AdmissionSafe ==
    ASSUME IInv, NEW m \in Msg, TryHandleOutbound(m)
    PROVE  IInv'
<1>1. TypeOK'
  BY AdmissionType DEF IInv
<1>2. CASE QueueFull(m) \/ Refuse(m)
  <2>1. /\ UNCHANGED <<pending, failed, state, tracked, air, told>>
        /\ verdict[m] # "ACCEPTED"
        /\ \A x \in Msg : verdict'[x] = verdict[x] \/ x = m
        /\ verdict'[m] # "ACCEPTED"
    BY <1>2 DEF QueueFull, Refuse, queueVars, trackVars, IInv, TypeOK
  <2>2. Elements(pending) \cup Elements(failed) \subseteq Msg
    BY DEF IInv, TypeOK, Elements
  <2>3. NothingLostInSilence' /\ OnlyAcceptedAreQueued'
    BY <2>1, <2>2 DEF IInv, NothingLostInSilence, OnlyAcceptedAreQueued
  <2> QED
    BY <1>1, <2>1, <2>3
    DEF IInv, NoMessageTwice, DeliveredOnlyAfterSent, FailedAreReported,
        ReportedFailed, TrackedAreReported
<1>3. CASE Accept(m)
  <2>1. /\ pending' = Append(pending, m)
        /\ UNCHANGED <<failed, tracked, air, told>>
        /\ verdict[m] # "ACCEPTED"
        /\ \A x \in Msg : x # m => /\ verdict'[x] = verdict[x]
                                   /\ state'[x] = state[x]
        /\ verdict'[m] = "ACCEPTED"
    BY <1>3 DEF Accept, trackVars, IInv, TypeOK
  <2>2. m \notin Elements(pending) \cup Elements(failed)
    BY <2>1 DEF IInv, OnlyAcceptedAreQueued
  <2>3. /\ Elements(pending') = Elements(pending) \cup {m}
        /\ Distinct(pending) => Distinct(pending')
    BY <2>1, <2>2, AppendFacts DEF IInv, TypeOK
  <2>4. NoMessageTwice'
    BY <2>1, <2>2, <2>3 DEF IInv, NoMessageTwice
  <2>5. Elements(pending) \cup Elements(failed) \subseteq Msg
    BY DEF IInv, TypeOK, Elements
  <2>6. NothingLostInSilence' /\ OnlyAcceptedAreQueued'
    BY <2>1, <2>3, <2>5
    DEF IInv, NothingLostInSilence, OnlyAcceptedAreQueued
  <2>7. FailedAreReported'
    BY <2>1, <2>2, <2>5 DEF IInv, FailedAreReported, ReportedFailed
  <2> QED
    BY <1>1, <2>1, <2>4, <2>6, <2>7
    DEF IInv, DeliveredOnlyAfterSent, TrackedAreReported
<1> QED
  BY <1>2, <1>3 DEF TryHandleOutbound

(* The passes that fail the front message: GiveUp, SendFails and           *)
(* SendAndThrow differ in what has been heard and put on the air before.   *)
LEMMA FailingPassSafe ==
    ASSUME IInv, NEW m \in Msg, AtFront(m), NEW heard \in SUBSET {"sent"},
           FailFront(m, heard), UNCHANGED verdict,
           \/ UNCHANGED <<air, tracked>>
           \/ Attempt(m) /\ Transmit(m) /\ heard = {"sent"},
           TypeOK'
    PROVE  IInv'
<1>1. /\ NoMessageTwice'
      /\ Elements(pending') \cup Elements(failed')
             \subseteq Elements(pending) \cup Elements(failed)
      /\ \A x \in Msg \ {m} : state'[x] = state[x] /\ told'[x] = told[x]
      /\ told'[m] = told[m] \cup heard \cup {"failed"}
      /\ \A x \in Elements(failed') : ReportedFailed(x)'
      /\ \A x \in Elements(pending) \cup Elements(failed) :
             \/ x \in Elements(pending') \cup Elements(failed')
             \/ "failed" \in told'[x]
  BY FailFrontSafe
<1>2. m \in Elements(pending)
  BY FrontFacts DEF IInv
<1>3. \A x \in Msg : /\ told[x] \subseteq told'[x]
                     /\ "delivered" \in told'[x] => "delivered" \in told[x]
  BY <1>1
<1>4. /\ NothingLostInSilence'
      /\ DeliveredOnlyAfterSent'
      /\ OnlyAcceptedAreQueued'
      /\ FailedAreReported'
  BY <1>1, <1>2, <1>3, ReportsKept
<1>5. TrackedAreReported'
  <2>1. CASE UNCHANGED <<air, tracked>>
    <3>1. \A t \in tracked : t.msg \in Msg
      BY DEF IInv, TypeOK, Transmission
    <3> QED
      BY <1>3, <2>1, <3>1
      DEF IInv, TrackedAreReported
  <2>2. CASE Attempt(m) /\ Transmit(m) /\ heard = {"sent"}
    BY <1>1, <1>3, <2>2, TransmitSafe
  <2> QED
    BY <2>1, <2>2
<1> QED
  BY <1>1, <1>4, <1>5 DEF IInv

(* The passes that pop the front message without failing it.               *)
LEMMA SendingPassSafe ==
    ASSUME IInv, NEW m \in Msg, Send(m) \/ StartUpload(m), TypeOK'
    PROVE  IInv'
<1>1. /\ Attempt(m) /\ Transmit(m) /\ AtFront(m)
      /\ pending' = Tail(pending)
      /\ UNCHANGED <<failed, verdict>>
  BY DEF Send, StartUpload, Transmit, Attempt
<1>2. /\ \A x \in Msg \ {m} : state'[x] = state[x] /\ told'[x] = told[x]
      /\ told[m] \subseteq told'[m]
      /\ told'[m] \subseteq told[m] \cup {"sent"}
      /\ \/ "sent" \in told'[m]
         \/ UsesPropagation(m) /\ state'[m] = "SENDING"
  BY DEF Send, StartUpload, IInv, TypeOK
<1>3. NoMessageTwice' /\ Elements(pending) = Elements(pending') \cup {m}
  BY <1>1, PopSafe
<1>4. \A x \in Elements(failed') : ReportedFailed(x)'
  <2>1. Elements(failed) \subseteq Msg
    BY DEF IInv, TypeOK, Elements
  <2>2. m \notin Elements(failed)
    BY <1>3 DEF IInv, NoMessageTwice
  <2> QED
    BY <1>1, <1>2, <2>1, <2>2 DEF IInv, FailedAreReported, ReportedFailed
<1>5. \A x \in Msg : /\ told[x] \subseteq told'[x]
                     /\ "delivered" \in told'[x] => "delivered" \in told[x]
  BY <1>2
<1>6. \A x \in Elements(pending) \cup Elements(failed) :
          \/ x \in Elements(pending') \cup Elements(failed')
          \/ told'[x] # {}
          \/ state'[x] = "SENDING"
  BY <1>1, <1>2, <1>3
<1>7. /\ NothingLostInSilence'
      /\ DeliveredOnlyAfterSent'
      /\ OnlyAcceptedAreQueued'
      /\ FailedAreReported'
  <2>1. m \in Elements(pending)
    BY <1>3
  <2> QED
    BY <1>1, <1>2, <1>3, <1>4, <1>5, <1>6, <2>1, ReportsKept
<1>8. TrackedAreReported'
  BY <1>1, <1>2, <1>5, TransmitSafe
<1> QED
  BY <1>3, <1>7, <1>8 DEF IInv

(* Every way out of process_outbound() keeps the invariant.                *)
LEMMA ProcessOutboundSafe ==
    ASSUME IInv, NEW m \in Msg, ProcessOutbound(m)
    PROVE  IInv'
<1>1. TypeOK'
  BY ProcessOutboundType DEF IInv
<1>2. CASE GiveUp(m)
  BY <1>1, <1>2, FailingPassSafe DEF GiveUp, trackVars
<1>3. ASSUME NEW delay \in RetryDelays(m), RetryLater(m, delay)
      PROVE  IInv'
  BY <1>1, <1>3
  DEF RetryLater, queueVars, trackVars, IInv, NoMessageTwice,
      NothingLostInSilence, DeliveredOnlyAfterSent, OnlyAcceptedAreQueued,
      FailedAreReported, ReportedFailed, TrackedAreReported
<1>4. CASE SendFails(m)
  BY <1>1, <1>4, FailingPassSafe DEF SendFails, Attempt, trackVars
<1>5. CASE Send(m) \/ StartUpload(m)
  BY <1>1, <1>5, SendingPassSafe
<1>6. CASE SendAndThrow(m)
  <2>1. {"sent"} \in SUBSET {"sent"}
    OBVIOUS
  <2> QED
    BY <1>1, <1>6, <2>1, FailingPassSafe DEF SendAndThrow, Attempt
<1> QED
  BY <1>2, <1>3, <1>4, <1>5, <1>6 DEF ProcessOutbound

(* A proof, a resource end or a loss only frees slots and reports.         *)
LEMMA CallbackSafe ==
    ASSUME IInv, NEW t \in air, Confirmed(t) \/ Lost(t)
    PROVE  IInv'
<1>1. TypeOK'
  BY CallbackType DEF IInv
<1>2. t.msg \in Msg /\ \A u \in tracked : u.msg \in Msg
  BY DEF IInv, TypeOK, Transmission
<1>3. UNCHANGED <<pending, failed, verdict, state>>
  BY DEF Confirmed, Lost, queueVars
<1>4. \A x \in Msg : /\ told[x] \subseteq told'[x]
                     /\ "delivered" \in told'[x] =>
                            "delivered" \in told[x] \/ "sent" \in told'[x]
  <2>1. CASE Confirmed(t)
    <3>1. CASE t \in tracked /\ t.via # "upload"
      <4>1. "sent" \in told[t.msg]
        BY <3>1 DEF IInv, TrackedAreReported
      <4>2. told' = [told EXCEPT ![t.msg] = @ \cup {"delivered"}]
        BY <2>1, <3>1 DEF Confirmed, ReportOf
      <4> QED
        BY <1>2, <4>1, <4>2 DEF IInv, TypeOK
    <3>2. CASE t \in tracked /\ t.via = "upload"
      <4>1. told' = [told EXCEPT ![t.msg] = @ \cup {"sent"}]
        BY <2>1, <3>2 DEF Confirmed, ReportOf
      <4> QED
        BY <1>2, <4>1 DEF IInv, TypeOK
    <3>3. CASE t \notin tracked
      BY <2>1, <3>3 DEF Confirmed
    <3> QED
      BY <3>1, <3>2, <3>3
  <2>2. CASE Lost(t)
    BY <2>2 DEF Lost
  <2> QED
    BY <2>1, <2>2
<1>5. \A x \in Elements(failed') : ReportedFailed(x)'
  <2>1. Elements(failed) \subseteq Msg
    BY DEF IInv, TypeOK, Elements
  <2> QED
    BY <1>3, <1>4, <2>1 DEF IInv, FailedAreReported, ReportedFailed
<1>6. /\ NothingLostInSilence'
      /\ DeliveredOnlyAfterSent'
      /\ OnlyAcceptedAreQueued'
      /\ FailedAreReported'
  BY <1>3, <1>4, <1>5, ReportsKept
<1>7. tracked' \subseteq tracked
  BY DEF Confirmed, Lost
<1>8. TrackedAreReported'
  BY <1>2, <1>4, <1>7 DEF IInv, TrackedAreReported
<1> QED
  BY <1>1, <1>3, <1>6, <1>8 DEF IInv, NoMessageTwice

(* Retrying moves messages between the rings, clearing drops reported ones. *)
LEMMA InterfaceSafe ==
    ASSUME IInv,
           RetryFailedOutbound \/ ClearFailedOutbound \/ SetPropagationOnly
               \/ Tick
    PROVE  IInv'
<1>1. TypeOK'
  BY InterfaceType DEF IInv
<1>2. CASE RetryFailedOutbound
  <2>1. PICK moved \in Seq(Msg) :
            /\ pending' = pending \o moved
            /\ Elements(moved) \subseteq Elements(failed)
            /\ Elements(failed') \subseteq Elements(failed)
            /\ Elements(failed) \subseteq Elements(moved) \cup Elements(failed')
            /\ Distinct(failed) =>
                   /\ Distinct(moved) /\ Distinct(failed')
                   /\ Elements(moved) \cap Elements(failed') = {}
            /\ state' = [x \in Msg |-> IF x \in Elements(moved)
                                       THEN "OUTBOUND" ELSE state[x]]
    BY <1>2, RetryFacts DEF IInv
  <2>2. UNCHANGED <<verdict, told, air, tracked>>
    BY <1>2 DEF RetryFailedOutbound, trackVars
  <2>3. /\ Elements(pending') = Elements(pending) \cup Elements(moved)
        /\ NoMessageTwice'
    BY <2>1, JoinFacts DEF IInv, TypeOK, NoMessageTwice
  <2>4. \A x \in Elements(failed') : ReportedFailed(x)'
    <3>1. Elements(failed) \subseteq Msg
      BY DEF IInv, TypeOK, Elements
    <3>2. \A x \in Elements(failed') : x \in Msg /\ x \notin Elements(moved)
      BY <2>1, <3>1 DEF IInv, NoMessageTwice
    <3> QED
      BY <2>1, <2>2, <3>2 DEF IInv, FailedAreReported, ReportedFailed
  <2>5. \A x \in Msg \ (Elements(pending) \cup Elements(failed)) :
            state'[x] = state[x]
    BY <2>1
  <2>6. /\ NothingLostInSilence'
        /\ DeliveredOnlyAfterSent'
        /\ OnlyAcceptedAreQueued'
        /\ FailedAreReported'
    BY <2>1, <2>2, <2>3, <2>4, <2>5, ReportsKept
  <2> QED
    BY <1>1, <2>2, <2>3, <2>6
    DEF IInv, TrackedAreReported
<1>3. CASE ClearFailedOutbound
  <2>1. /\ failed' = <<>>
        /\ UNCHANGED <<pending, verdict, state, told, air, tracked>>
    BY <1>3 DEF ClearFailedOutbound, trackVars
  <2>2. Elements(failed') = {} /\ Distinct(failed')
    BY <2>1 DEF Elements, Distinct
  <2>3. NoMessageTwice'
    BY <2>1, <2>2 DEF IInv, NoMessageTwice
  <2>4. \A x \in Elements(failed) : told[x] # {}
    BY DEF IInv, FailedAreReported, ReportedFailed
  <2>5. /\ NothingLostInSilence'
        /\ DeliveredOnlyAfterSent'
        /\ OnlyAcceptedAreQueued'
        /\ FailedAreReported'
    BY <2>1, <2>2, <2>4, ReportsKept
  <2> QED
    BY <1>1, <2>1, <2>3, <2>5
    DEF IInv, TrackedAreReported
<1>4. CASE SetPropagationOnly \/ Tick
  BY <1>1, <1>4
  DEF SetPropagationOnly, Tick, queueVars, trackVars, IInv, NoMessageTwice,
      NothingLostInSilence, DeliveredOnlyAfterSent, OnlyAcceptedAreQueued,
      FailedAreReported, ReportedFailed, TrackedAreReported
<1> QED
  BY <1>2, <1>3, <1>4

(* With empty queues every part of the invariant holds.                    *)
LEMMA InitSafe == Init => IInv
<1> SUFFICES ASSUME Init PROVE IInv
  OBVIOUS
<1>1. Elements(<<>>) = {} /\ Distinct(<<>>)
  BY DEF Elements, Distinct
<1> QED
  BY <1>1, InitType
  DEF Init, IInv, NoMessageTwice, NothingLostInSilence,
      DeliveredOnlyAfterSent, OnlyAcceptedAreQueued, FailedAreReported,
      ReportedFailed, TrackedAreReported

(* Every step keeps the invariant: one case per group of actions.          *)
LEMMA NextSafe == IInv /\ [Next]_vars => IInv'
<1> SUFFICES ASSUME IInv, [Next]_vars PROVE IInv'
  OBVIOUS
<1>1. CASE UNCHANGED vars
  BY <1>1
  DEF vars, IInv, TypeOK, NoMessageTwice, NothingLostInSilence,
      DeliveredOnlyAfterSent, OnlyAcceptedAreQueued, FailedAreReported,
      ReportedFailed, TrackedAreReported
<1>2. CASE Next
  BY <1>2, AdmissionSafe, ProcessOutboundSafe, CallbackSafe, InterfaceSafe
  DEF Next
<1> QED
  BY <1>1, <1>2

(* The inductive invariant holds in every reachable state.                 *)
LEMMA InvariantHolds == SafeSpec => []IInv
  BY InitSafe, NextSafe, PTL DEF SafeSpec

(* Whatever the callbacks throw and the network loses, the router never    *)
(* holds a message twice.                                                  *)
THEOREM HeldOnce == SafeSpec => []NoMessageTwice
<1>1. IInv => NoMessageTwice
  BY DEF IInv
<1> QED
  BY <1>1, InvariantHolds, PTL

(* No accepted message leaves the router unreported, uploads apart.        *)
THEOREM LossIsReported == SafeSpec => []NothingLostInSilence
<1>1. IInv => NothingLostInSilence
  BY DEF IInv
<1> QED
  BY <1>1, InvariantHolds, PTL

(* The delivered callback always follows the sent callback.                *)
THEOREM SentBeforeDelivered == SafeSpec => []DeliveredOnlyAfterSent
<1>1. IInv => DeliveredOnlyAfterSent
  BY DEF IInv
<1> QED
  BY <1>1, InvariantHolds, PTL

-----------------------------------------------------------------------------
(* The slots of the pools.                                                 *)

(* What a step does to the transmissions: most only report and count, a    *)
(* pass puts one on the air under the attempt it has just counted.         *)
LEMMA TransmissionStep ==
    ASSUME TypeOK, Next
    PROVE  /\ \A x \in Msg : /\ attempts[x] <= attempts'[x]
                             /\ told[x] \subseteq told'[x]
           /\ \/ UNCHANGED <<air, tracked, confirmed>>
              \/ /\ confirmed' = confirmed
                 /\ \E t \in Transmission :
                        /\ t.attempt = attempts[t.msg] + 1
                        /\ t.attempt = attempts'[t.msg]
                        /\ air' = air \cup {t}
                        /\ tracked' \subseteq tracked \cup {t}
              \/ \E t \in air : Confirmed(t) \/ Lost(t)
<1>1. CASE \E m \in Msg : TryHandleOutbound(m)
  BY <1>1 DEF TryHandleOutbound, QueueFull, Refuse, Accept, trackVars, TypeOK
<1>2. ASSUME NEW m \in Msg, ProcessOutbound(m)
      PROVE  /\ \A x \in Msg : /\ attempts[x] <= attempts'[x]
                               /\ told[x] \subseteq told'[x]
             /\ \/ UNCHANGED <<air, tracked, confirmed>>
                \/ /\ confirmed' = confirmed
                   /\ \E t \in Transmission :
                          /\ t.attempt = attempts[t.msg] + 1
                          /\ t.attempt = attempts'[t.msg]
                          /\ air' = air \cup {t}
                          /\ tracked' \subseteq tracked \cup {t}
  <2>1. \A x \in Msg : told[x] \subseteq told'[x]
    BY <1>2
    DEF ProcessOutbound, GiveUp, RetryLater, SendFails, Send, SendAndThrow,
        StartUpload, FailFront, TypeOK
  <2>2. CASE GiveUp(m)
    BY <2>1, <2>2 DEF GiveUp, trackVars, TypeOK
  <2>3. CASE Attempt(m)
    <3>1. attempts' = [attempts EXCEPT ![m] = @ + 1]
      BY <2>3 DEF Attempt
    <3>2. \A x \in Msg : attempts[x] <= attempts'[x]
      BY <3>1 DEF TypeOK
    <3>3. CASE PutOnAir(m) /\ confirmed' = confirmed
      <4>1. PICK t \in Transmission :
                /\ t.msg = m /\ t.attempt = attempts[m] + 1
                /\ air' = air \cup {t}
                /\ tracked' \subseteq tracked \cup {t}
        BY <2>3, <3>3, PutOnAirFacts
      <4>2. t.attempt = attempts'[t.msg]
        BY <3>1, <4>1 DEF TypeOK
      <4> QED
        BY <2>1, <3>2, <3>3, <4>1, <4>2
    <3>4. CASE UNCHANGED <<air, tracked, confirmed>>
      BY <2>1, <3>2, <3>4
    <3> QED
      BY <1>2, <2>2, <3>3, <3>4
      DEF ProcessOutbound, RetryLater, SendFails, Send, SendAndThrow,
          StartUpload, Transmit, trackVars
  <2> QED
    BY <1>2, <2>2, <2>3
    DEF ProcessOutbound, RetryLater, SendFails, Send, SendAndThrow, StartUpload
<1>3. ASSUME NEW t \in air, Confirmed(t) \/ Lost(t)
      PROVE  \A x \in Msg : /\ attempts[x] <= attempts'[x]
                            /\ told[x] \subseteq told'[x]
  <2>1. /\ UNCHANGED attempts
        /\ \/ told' = told
           \/ told' = [told EXCEPT ![t.msg] = @ \cup {ReportOf(t)}]
    BY <1>3 DEF Confirmed, Lost
  <2>2. told \in [Msg -> SUBSET Report] /\ attempts \in [Msg -> Nat]
    BY DEF TypeOK
  <2>3. ASSUME NEW x \in Msg PROVE told[x] \subseteq told'[x]
    <3> DEFINE r == ReportOf(t)
    <3>1. \/ told' = told
          \/ told' = [told EXCEPT ![t.msg] = @ \cup {r}]
      BY <2>1
    <3> HIDE DEF r
    <3> QED
      BY <2>2, <3>1
  <2> QED
    BY <2>1, <2>2, <2>3
<1>4. CASE RetryFailedOutbound \/ ClearFailedOutbound \/ SetPropagationOnly
              \/ Tick
  BY <1>4
  DEF RetryFailedOutbound, ClearFailedOutbound, SetPropagationOnly, Tick,
      trackVars, TypeOK
<1> QED
  BY <1>1, <1>2, <1>3, <1>4 DEF Next

(* A transmission that starts is new, and one that ends frees its slot     *)
(* unless its report threw or its proof was lost.                          *)
LEMMA SlotStep == SlotInv /\ TypeOK' /\ [Next]_vars => SlotInv'
<1> SUFFICES ASSUME SlotInv, TypeOK', [Next]_vars PROVE SlotInv'
  OBVIOUS
<1>1. TypeOK /\ ConcludedOnce /\ LeakedSlotsHaveACause
  BY DEF SlotInv
<1>2. \A t \in air \cup confirmed \cup tracked :
          t \in Transmission /\ t.msg \in Msg /\ t.attempt \in Nat
  BY <1>1 DEF TypeOK, Transmission
<1>3. \A x \in Msg : attempts[x] \in Nat /\ attempts'[x] \in Nat
  BY <1>1 DEF TypeOK
<1>4. CASE UNCHANGED vars
  BY <1>4 DEF vars, SlotInv, TypeOK, ConcludedOnce, LeakedSlotsHaveACause
<1>5. CASE Next
  <2>1. \A x \in Msg : /\ attempts[x] <= attempts'[x]
                       /\ told[x] \subseteq told'[x]
    BY <1>1, <1>5, TransmissionStep
  <2>2. CASE UNCHANGED <<air, tracked, confirmed>>
    <3>1. ConcludedOnce'
      BY <1>1, <1>2, <1>3, <2>1, <2>2 DEF ConcludedOnce
    <3>2. LeakedSlotsHaveACause'
      BY <1>1, <1>2, <2>1, <2>2 DEF LeakedSlotsHaveACause
    <3> QED
      BY <3>1, <3>2 DEF SlotInv
  <2>3. ASSUME NEW t \in Transmission, confirmed' = confirmed,
               t.attempt = attempts[t.msg] + 1, t.attempt = attempts'[t.msg],
               air' = air \cup {t}, tracked' \subseteq tracked \cup {t}
        PROVE  SlotInv'
    <3>1. t.msg \in Msg
      BY DEF Transmission
    <3>2. t \notin confirmed
      BY <1>1, <1>2, <1>3, <2>3, <3>1 DEF ConcludedOnce
    <3>3. ConcludedOnce'
      BY <1>1, <1>2, <1>3, <2>1, <2>3, <3>1, <3>2 DEF ConcludedOnce
    <3>4. LeakedSlotsHaveACause'
      BY <1>1, <1>2, <2>1, <2>3 DEF LeakedSlotsHaveACause
    <3> QED
      BY <3>3, <3>4 DEF SlotInv
  <2>4. ASSUME NEW t \in air, Confirmed(t) PROVE SlotInv'
    <3>1. /\ air' = air \ {t} /\ confirmed' = confirmed \cup {t}
          /\ UNCHANGED attempts
          /\ tracked' \subseteq tracked
          /\ t \in tracked' =>
                 ReportMayThrow(t) /\ ReportOf(t) \in told'[t.msg]
      BY <1>1, <1>2, <2>4 DEF Confirmed, TypeOK
    <3>2. ConcludedOnce'
      BY <1>1, <3>1 DEF ConcludedOnce
    <3>3. LeakedSlotsHaveACause'
      BY <1>1, <1>2, <2>1, <3>1 DEF LeakedSlotsHaveACause
    <3> QED
      BY <3>2, <3>3 DEF SlotInv
  <2>5. ASSUME NEW t \in air, Lost(t) PROVE SlotInv'
    <3>1. /\ air' = air \ {t} /\ UNCHANGED <<confirmed, attempts, told>>
          /\ tracked' \subseteq tracked
          /\ t \in tracked' => t.via = "packet"
      BY <2>5 DEF Lost
    <3>2. t \notin confirmed
      BY <1>1 DEF ConcludedOnce
    <3>3. ConcludedOnce'
      BY <1>1, <3>1 DEF ConcludedOnce
    <3>4. LeakedSlotsHaveACause'
      BY <1>1, <3>1, <3>2 DEF LeakedSlotsHaveACause
    <3> QED
      BY <3>3, <3>4 DEF SlotInv
  <2> QED
    BY <1>1, <1>5, <2>2, <2>3, <2>4, <2>5, TransmissionStep
<1> QED
  BY <1>4, <1>5

(* A pool only fills up for good by lost proofs of packets and by          *)
(* callbacks of the application that throw: every other transmission gives *)
(* its slot back when the network has concluded it.                        *)
THEOREM LeaksHaveACause == SafeSpec => []LeakedSlotsHaveACause
<1>1. Init => SlotInv
  BY InitType DEF Init, SlotInv, ConcludedOnce, LeakedSlotsHaveACause
<1>2. IInv /\ [Next]_vars => TypeOK'
  BY NextSafe DEF IInv
<1>3. SlotInv => LeakedSlotsHaveACause
  BY DEF SlotInv
<1> QED
  BY <1>1, <1>2, <1>3, SlotStep, InvariantHolds, PTL DEF SafeSpec

-----------------------------------------------------------------------------
(* Steps of the pending queue.                                             *)

LEMMA NextQueueStep == IInv /\ [Next]_vars => QueueStep \/ UNCHANGED vars
<1> SUFFICES ASSUME IInv, [Next]_vars, ~UNCHANGED vars PROVE QueueStep
  OBVIOUS
<1>1. pending \in Seq(Msg) /\ TypeOK
  BY DEF IInv, TypeOK
<1>2. ASSUME NEW r \in Seq(Msg), r # <<>>, pending' = pending \o r
      PROVE  QueueStep
  <2>1. /\ Len(pending') > Len(pending)
        /\ SubSeq(pending', 1, Len(pending)) = pending
    BY <1>1, <1>2
  <2> QED
    BY <2>1 DEF QueueStep
<1>3. ASSUME NEW m \in Msg, TryHandleOutbound(m)
      PROVE  QueueStep
  <2>1. CASE QueueFull(m) \/ Refuse(m)
    BY <2>1 DEF QueueFull, Refuse, QueueStep, queueVars
  <2>2. CASE Accept(m)
    <3>1. pending' = pending \o <<m>> /\ <<m>> \in Seq(Msg) /\ <<m>> # <<>>
      BY <1>1, <2>2 DEF Accept
    <3> QED
      BY <3>1, <1>2
  <2> QED
    BY <1>3, <2>1, <2>2 DEF TryHandleOutbound
<1>4. ASSUME NEW m \in Msg, NEW heard, AtFront(m), FailFront(m, heard)
      PROVE  QueueStep
  <2>1. state'[m] = "FAILED" /\ m = Front /\ pending # <<>>
    BY <1>1, <1>4 DEF FailFront, AtFront, TypeOK
  <2>2. pending' = Tail(pending) \/ pending' = pending
    BY <1>4 DEF FailFront, queueVars
  <2> QED
    BY <2>1, <2>2 DEF QueueStep
<1>5. ASSUME NEW m \in Msg, ProcessOutbound(m)
      PROVE  QueueStep
  <2>1. CASE GiveUp(m) \/ SendFails(m) \/ SendAndThrow(m)
    BY <2>1, <1>4 DEF GiveUp, SendFails, SendAndThrow, Attempt
  <2>2. CASE \E delay \in RetryDelays(m) : RetryLater(m, delay)
    BY <2>2 DEF RetryLater, queueVars, QueueStep
  <2>3. CASE Send(m) \/ StartUpload(m)
    <3>1. /\ pending # <<>> /\ m = Front /\ pending' = Tail(pending)
          /\ state'[m] \in {"SENT", "SENDING"}
      BY <1>1, <2>3 DEF Send, StartUpload, Attempt, AtFront, TypeOK
    <3> QED
      BY <3>1 DEF QueueStep
  <2> QED
    BY <1>5, <2>1, <2>2, <2>3 DEF ProcessOutbound
<1>6. ASSUME RetryFailedOutbound PROVE QueueStep
  BY <1>1, <1>2, <1>6, RetryFacts
<1>7. ASSUME \/ \E t \in air : Confirmed(t) \/ Lost(t)
             \/ ClearFailedOutbound \/ SetPropagationOnly \/ Tick
      PROVE  QueueStep
  BY <1>7 DEF Confirmed, Lost, ClearFailedOutbound, SetPropagationOnly, Tick,
              queueVars, QueueStep
<1> QED
  BY <1>3, <1>5, <1>6, <1>7 DEF Next

(* A message leaves the pending queue only from its front, concluded.      *)
THEOREM FrontLeaves == SafeSpec => OnlyTheFrontLeaves
<1>1. IInv /\ [Next]_vars => [QueueStep]_vars
  BY NextQueueStep
<1> QED
  BY <1>1, InvariantHolds, PTL DEF SafeSpec, OnlyTheFrontLeaves

-----------------------------------------------------------------------------
(* Refinement of the contract.                                             *)

(* A queue holds at most as many messages as it is long.                   *)
LEMMA ElementsBounded ==
    ASSUME NEW S, NEW q \in Seq(S)
    PROVE  /\ IsFiniteSet(Elements(q))
           /\ Cardinality(Elements(q)) <= Len(q)
           /\ Cardinality(Elements(q)) \in Nat
<1> DEFINE f == [i \in 1..Len(q) |-> q[i]]
<1>1. Len(q) \in Nat
  OBVIOUS
<1>2. f \in [1..Len(q) -> Elements(q)]
  BY DEF Elements
<1>3. \A x \in Elements(q) : \E i \in 1..Len(q) : f[i] = x
  BY DEF Elements
<1>4. f \in Surjection(1..Len(q), Elements(q))
  BY <1>2, <1>3 DEF Surjection
<1>5. ExistsSurjection(1..Len(q), Elements(q))
  BY <1>4 DEF ExistsSurjection
<1>6. IsFiniteSet(Elements(q))
  BY <1>1, <1>5, FS_NatSurjection
<1>7. Cardinality(Elements(q)) <= Len(q)
  BY <1>1, <1>5, FS_SurjCardinalityBound
<1> QED
  BY <1>6, <1>7, FS_CardinalityType

(* The abstract queue never exceeds the pool of the concrete one.          *)
LEMMA CapacityKept ==
    ASSUME TypeOK'
    PROVE  Contract!Cardinality(Contract!Queued') <= PENDING_OUTBOUND_SIZE
<1>1. Contract!Queued' \subseteq Elements(pending')
  BY DEF Contract!Queued, phase, Queued
<1>2. /\ IsFiniteSet(Elements(pending'))
      /\ Cardinality(Elements(pending')) <= Len(pending')
      /\ Cardinality(Elements(pending')) \in Nat
      /\ Len(pending') <= PENDING_OUTBOUND_SIZE
      /\ Len(pending') \in Nat
  BY ElementsBounded DEF TypeOK
<1>3. /\ IsFiniteSet(Contract!Queued')
      /\ Cardinality(Contract!Queued') <= Cardinality(Elements(pending'))
  BY <1>1, <1>2, FS_Subset
<1>4. Cardinality(Contract!Queued') \in Nat
  BY <1>3, FS_CardinalityType
<1>5. Cardinality(Contract!Queued') <= PENDING_OUTBOUND_SIZE
  BY <1>2, <1>3, <1>4, ConstantsAssumption
<1>6. \A S : Contract!Cardinality(S) = Cardinality(S)
  BY Zenon DEF Contract!Cardinality, Cardinality
<1> QED
  BY <1>5, <1>6

(* What the refinement mapping looks at.                                   *)
LEMMA SamePhase ==
    ASSUME NEW x \in Msg,
           verdict'[x] = verdict[x],
           Queued(x)' <=> Queued(x),
           state'[x] = state[x] \/ Queued(x),
           "sent" \in told'[x] <=> "sent" \in told[x]
    PROVE  phase'[x] = phase[x]
  BY DEF phase

(* A step that moves one message to another phase is an update at it.      *)
LEMMA PhaseChange ==
    ASSUME NEW m \in Msg, NEW p, phase'[m] = p,
           \A x \in Msg \ {m} : phase'[x] = phase[x]
    PROVE  phase' = [phase EXCEPT ![m] = p]
<1>1. /\ phase = [x \in Msg |-> phase[x]]
      /\ phase' = [x \in Msg |-> phase'[x]]
  BY DEF phase
<1> QED
  BY <1>1

(* One pass concludes the front message, or leaves every phase alone.      *)
LEMMA ConcludeStep ==
    ASSUME IInv, NEW m \in Msg, AtFront(m), UNCHANGED verdict,
           \A x \in Msg \ {m} : state'[x] = state[x] /\ told'[x] = told[x],
           \/ UNCHANGED pending
           \/ /\ pending' = Tail(pending)
              /\ state'[m] \in {"FAILED", "SENT", "SENDING"}
    PROVE  Contract!Conclude(m) \/ UNCHANGED phase
<1>1. /\ Elements(pending) = Elements(Tail(pending)) \cup {m}
      /\ m \notin Elements(Tail(pending))
      /\ m \in Elements(pending)
  BY FrontFacts DEF IInv, NoMessageTwice
<1>2. Queued(m) /\ verdict[m] = "ACCEPTED"
  BY <1>1 DEF Queued, IInv, OnlyAcceptedAreQueued
<1>3. phase[m] = "queued"
  BY <1>2 DEF phase
<1>4. \A x \in Msg \ {m} : Queued(x)' <=> Queued(x)
  BY <1>1 DEF Queued
<1>5. \A x \in Msg \ {m} : phase'[x] = phase[x]
  BY <1>4, SamePhase
<1>6. CASE UNCHANGED pending
  <2>1. Queued(m)'
    BY <1>2, <1>6 DEF Queued
  <2>2. phase'[m] = "queued"
    BY <1>2, <2>1 DEF phase
  <2> QED
    BY <1>3, <1>5, <2>2 DEF phase
<1>7. CASE /\ pending' = Tail(pending)
           /\ state'[m] \in {"FAILED", "SENT", "SENDING"}
  <2>1. ~Queued(m)'
    BY <1>1, <1>7 DEF Queued
  <2>2. phase'[m] \in {"sent", "uploading", "failed"}
    BY <1>2, <1>7, <2>1 DEF phase
  <2>3. phase' = [phase EXCEPT ![m] = phase'[m]]
    BY <1>5, PhaseChange
  <2> QED
    BY <1>3, <2>2, <2>3 DEF Contract!Conclude
<1> QED
  BY <1>6, <1>7

(* Admission is the contract's acceptance, or is not seen by it.           *)
LEMMA AcceptStep ==
    ASSUME IInv, NEW m \in Msg, TryHandleOutbound(m)
    PROVE  Contract!Accept(m) \/ UNCHANGED phase
<1>1. CASE QueueFull(m) \/ Refuse(m)
  <2>1. /\ UNCHANGED <<pending, state, told>>
        /\ verdict[m] # "ACCEPTED" /\ verdict'[m] # "ACCEPTED"
        /\ \A x \in Msg \ {m} : verdict'[x] = verdict[x]
    BY <1>1 DEF QueueFull, Refuse, queueVars, IInv, TypeOK
  <2> QED
    BY <2>1 DEF phase, Queued
<1>2. CASE Accept(m)
  <2>1. /\ Elements(pending') = Elements(pending) \cup {m}
        /\ verdict[m] # "ACCEPTED" /\ verdict'[m] = "ACCEPTED"
        /\ UNCHANGED told
        /\ \A x \in Msg \ {m} : verdict'[x] = verdict[x] /\ state'[x] = state[x]
    BY <1>2, AppendFacts DEF Accept, IInv, TypeOK
  <2>2. phase[m] = "new" /\ phase'[m] = "queued"
    BY <2>1 DEF phase, Queued
  <2>3. \A x \in Msg \ {m} : phase'[x] = phase[x]
    BY <2>1, SamePhase DEF Queued
  <2> QED
    BY <2>2, <2>3, PhaseChange DEF Contract!Accept
<1> QED
  BY <1>1, <1>2 DEF TryHandleOutbound

(* A pass concludes the front message, or the contract does not see it.    *)
LEMMA ProcessStep ==
    ASSUME IInv, NEW m \in Msg, ProcessOutbound(m)
    PROVE  Contract!Conclude(m) \/ UNCHANGED phase
<1>1. CASE \E delay \in RetryDelays(m) : RetryLater(m, delay)
  BY <1>1 DEF RetryLater, queueVars, phase, Queued
<1>2. CASE GiveUp(m) \/ SendFails(m) \/ SendAndThrow(m)
  <2>1. PICK heard : AtFront(m) /\ FailFront(m, heard) /\ UNCHANGED verdict
    BY <1>2 DEF GiveUp, SendFails, SendAndThrow, Attempt
  <2>2. /\ \A x \in Msg \ {m} : state'[x] = state[x] /\ told'[x] = told[x]
        /\ state'[m] = "FAILED"
    BY <2>1 DEF FailFront, IInv, TypeOK
  <2>3. pending' = Tail(pending) \/ UNCHANGED pending
    BY <2>1 DEF FailFront, queueVars
  <2> QED
    BY <2>1, <2>2, <2>3, ConcludeStep
<1>3. CASE Send(m) \/ StartUpload(m)
  <2>1. /\ AtFront(m) /\ UNCHANGED verdict
        /\ \A x \in Msg \ {m} : state'[x] = state[x] /\ told'[x] = told[x]
        /\ pending' = Tail(pending)
        /\ state'[m] \in {"SENT", "SENDING"}
    BY <1>3 DEF Send, StartUpload, Attempt, IInv, TypeOK
  <2> QED
    BY <2>1, ConcludeStep
<1> QED
  BY <1>1, <1>2, <1>3 DEF ProcessOutbound

(* A report to the application confirms one message or changes no phase.   *)
LEMMA ConfirmStep ==
    ASSUME IInv, NEW t \in air, Confirmed(t) \/ Lost(t)
    PROVE  (\E m \in Msg : Contract!Confirm(m)) \/ UNCHANGED phase
<1>1. t.msg \in Msg /\ UNCHANGED <<pending, verdict, state>>
  BY DEF Confirmed, Lost, queueVars, IInv, TypeOK, Transmission
<1>2. \A x \in Msg : Queued(x)' <=> Queued(x)
  BY <1>1 DEF Queued
<1>3. CASE told' = [told EXCEPT ![t.msg] = @ \cup {"sent"}]
  <2>1. \A x \in Msg \ {t.msg} : phase'[x] = phase[x]
    BY <1>1, <1>2, <1>3, SamePhase DEF IInv, TypeOK
  <2>2. "sent" \in told'[t.msg]
    BY <1>1, <1>3 DEF IInv, TypeOK
  <2>3. \/ phase'[t.msg] = phase[t.msg]
        \/ phase[t.msg] = "uploading" /\ phase'[t.msg] = "sent"
    BY <1>1, <1>2, <2>2 DEF phase
  <2>4. CASE phase'[t.msg] = phase[t.msg]
    BY <2>1, <2>4 DEF phase
  <2>5. CASE phase[t.msg] = "uploading" /\ phase'[t.msg] = "sent"
    <3>1. phase' = [phase EXCEPT ![t.msg] = "sent"]
      BY <1>1, <2>1, <2>5, PhaseChange
    <3> QED
      BY <1>1, <2>5, <3>1 DEF Contract!Confirm
  <2> QED
    BY <2>3, <2>4, <2>5
<1>4. CASE \/ told' = told
           \/ told' = [told EXCEPT ![t.msg] = @ \cup {"delivered"}]
  <2>1. ASSUME NEW x \in Msg
        PROVE  "sent" \in told'[x] <=> "sent" \in told[x]
    <3>1. told'[x] = told[x] \/ told'[x] = told[x] \cup {"delivered"}
      BY <1>1, <1>4 DEF IInv, TypeOK
    <3> QED
      BY <3>1
  <2>2. \A x \in Msg : phase'[x] = phase[x]
    BY <1>1, <1>2, <2>1, SamePhase
  <2> QED
    BY <2>2 DEF phase
<1>5. \/ told' = told
      \/ told' = [told EXCEPT ![t.msg] = @ \cup {"delivered"}]
      \/ told' = [told EXCEPT ![t.msg] = @ \cup {"sent"}]
  BY DEF Confirmed, ReportOf, Lost
<1> QED
  BY <1>3, <1>4, <1>5

(* Retrying the failed ring is one retry of the set of messages it moves.  *)
LEMMA RetryStep ==
    ASSUME IInv, RetryFailedOutbound
    PROVE  \E S \in SUBSET Msg : Contract!Retry(S)
<1>1. PICK moved \in Seq(Msg) :
          /\ pending' = pending \o moved
          /\ moved # <<>>
          /\ Elements(moved) \subseteq Elements(failed)
          /\ state' = [x \in Msg |-> IF x \in Elements(moved)
                                     THEN "OUTBOUND" ELSE state[x]]
  BY RetryFacts DEF IInv
<1>2. UNCHANGED <<verdict, told>>
  BY DEF RetryFailedOutbound
<1>3. /\ Elements(moved) \subseteq Msg
      /\ Elements(moved) # {}
  <2>1. moved[1] \in Elements(moved)
    BY <1>1 DEF Elements
  <2> QED
    BY <2>1 DEF Elements
<1>4. Elements(pending') = Elements(pending) \cup Elements(moved)
  BY <1>1, JoinFacts DEF IInv, TypeOK
<1>5. \A x \in Elements(moved) : phase[x] = "failed" /\ phase'[x] = "queued"
  <2> SUFFICES ASSUME NEW x \in Elements(moved)
               PROVE  phase[x] = "failed" /\ phase'[x] = "queued"
    OBVIOUS
  <2>1. x \in Msg /\ x \in Elements(failed)
    BY <1>1, <1>3
  <2>2. /\ verdict[x] = "ACCEPTED" /\ state[x] = "FAILED"
        /\ x \notin Elements(pending)
    BY <2>1 DEF IInv, OnlyAcceptedAreQueued, FailedAreReported,
                ReportedFailed, NoMessageTwice
  <2> QED
    BY <1>2, <1>4, <2>1, <2>2 DEF phase, Queued
<1>6. \A x \in Msg \ Elements(moved) : phase'[x] = phase[x]
  <2> SUFFICES ASSUME NEW x \in Msg \ Elements(moved)
               PROVE  phase'[x] = phase[x]
    OBVIOUS
  <2>1. (Queued(x)' <=> Queued(x)) /\ state'[x] = state[x]
    BY <1>1, <1>4 DEF Queued
  <2> QED
    BY <1>2, <2>1, SamePhase
<1>7. phase' = [x \in Msg |-> IF x \in Elements(moved) THEN "queued"
                              ELSE phase[x]]
  <2>1. phase' = [x \in Msg |-> phase'[x]]
    BY DEF phase
  <2>2. \A x \in Msg : phase'[x] = IF x \in Elements(moved) THEN "queued"
                                   ELSE phase[x]
    BY <1>5, <1>6, Zenon
  <2> HIDE DEF phase
  <2> QED
    BY <2>1, <2>2
<1> QED
  BY <1>3, <1>5, <1>7 DEF Contract!Retry

(* Every step of the pipeline is a step of the contract or a stutter.      *)
LEMMA ContractStep == IInv /\ [Next]_vars => [Contract!Next]_phase
<1> SUFFICES ASSUME IInv, [Next]_vars, ~UNCHANGED phase
             PROVE  Contract!Next
  OBVIOUS
<1>1. Contract!Cardinality(Contract!Queued') <= PENDING_OUTBOUND_SIZE
  <2>1. TypeOK'
    BY NextType DEF IInv
  <2> QED
    BY <2>1, CapacityKept
<1>2. CASE UNCHANGED vars \/ SetPropagationOnly \/ Tick \/ ClearFailedOutbound
  BY <1>2 DEF vars, SetPropagationOnly, Tick, ClearFailedOutbound, queueVars,
              phase, Queued
<1>3. ASSUME NEW m \in Msg, TryHandleOutbound(m) \/ ProcessOutbound(m)
      PROVE  Contract!Next
  BY <1>1, <1>3, AcceptStep, ProcessStep DEF Contract!Next
<1>4. ASSUME NEW t \in air, Confirmed(t) \/ Lost(t)
      PROVE  Contract!Next
  BY <1>1, <1>4, ConfirmStep DEF Contract!Next
<1>5. CASE RetryFailedOutbound
  BY <1>1, <1>5, RetryStep DEF Contract!Next
<1> QED
  BY <1>2, <1>3, <1>4, <1>5 DEF Next

(* The pipeline keeps the contract: what it accepts it concludes once, in  *)
(* steps the contract allows, and never more than its pool at a time.      *)
THEOREM ContractKept == SafeSpec => Contract!SafeSpec
<1>1. Init => Contract!Init
  BY DEF Init, Contract!Init, phase
<1> QED
  BY <1>1, ContractStep, InvariantHolds, PTL DEF SafeSpec, Contract!SafeSpec
=============================================================================

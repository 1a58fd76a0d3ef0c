------------------------ MODULE OutboundLinksProofs ------------------------
(***************************************************************************)
(* Proofs about the two compositions of the outbound queue: DirectLinks,   *)
(* for any peers, table and registry, and PropagatedUpload, for any        *)
(* messages, nodes and stamp costs.  Every step of either is a step of the *)
(* queue or leaves it as it is, so whatever OutboundQueueProofs proves of  *)
(* the queue holds of both.                                                *)
(*                                                                         *)
(* The link table is then looked at alone; what makes its promises         *)
(* inductive is that the link in a peer's slot is a link to that peer.     *)
(* That a stamp which does not fit has a cause rests on an invariant about *)
(* the one slot of the stamper: as long as the message that ordered its    *)
(* stamp is not abandoned, that message is at the front of the queue,      *)
(* waits for an upload, and has the ciphertext in its cache unless it      *)
(* replaced it for an order that was refused.  That a failed search        *)
(* excuses one upload only rests on the orders' attempts: they are counted *)
(* before the order, and never counted back.                               *)
(***************************************************************************)
EXTENDS DirectLinks, PropagatedUpload, OutboundQueueProofs

-----------------------------------------------------------------------------
(* The link table and the queue.                                           *)

(* The steps that can change the table.                                    *)
TableStep ==
    \/ \E m \in Msg : CannotOpen(m) \/ OpenLink(m)
    \/ \E i \in 1..Len(links) :
           LinkEstablished(i) \/ LinkStale(i) \/ LinkClosed(i)

(* The others leave links, table and registry alone, and are steps of the  *)
(* queue, or the clock's.                                                  *)
LEMMA StepsOfTheComposition ==
    ASSUME [LinkNext]_allVars
    PROVE  /\ [Next]_vars
           /\ \/ TableStep
              \/ UNCHANGED linkVars
              \/ UNCHANGED <<links, table, registered>> /\ Second
<1>1. ASSUME NEW m \in Msg, Pass(m)
      PROVE  [Next]_vars /\ (TableStep \/ UNCHANGED linkVars)
  <2>1. CASE NoPath(m) \/ AwaitLink(m)
    <3>1. \E delay \in RetryDelays(m) : RetryLater(m, delay)
      BY <2>1 DEF NoPath, AwaitLink, RetryLater
    <3>2. UNCHANGED linkVars
      BY <2>1 DEF NoPath, AwaitLink
    <3> QED
      BY <3>1, <3>2, Zenon DEF ProcessOutbound, Next
  <2>2. CASE SendByLink(m)
    BY <2>2, Zenon DEF SendByLink, ProcessOutbound, Next
  <2>3. CASE CannotOpen(m) \/ OpenLink(m)
    <3>1. \E delay \in RetryDelays(m) : RetryLater(m, delay)
      BY <2>3 DEF CannotOpen, OpenLink, RetryLater
    <3> QED
      BY <2>3, <3>1, Zenon DEF TableStep, ProcessOutbound, Next
  <2>4. CASE OtherPass(m)
    BY <2>4, Zenon DEF OtherPass, ProcessOutbound, Next
  <2> QED
    BY <1>1, <2>1, <2>2, <2>3, <2>4, Zenon DEF Pass
<1>2. ASSUME NEW i \in 1..Len(links),
             LinkEstablished(i) \/ LinkStale(i) \/ LinkClosed(i)
      PROVE  [Next]_vars /\ TableStep
  <2>1. UNCHANGED vars
    BY <1>2 DEF LinkEstablished, LinkStale, LinkClosed
  <2>2. TableStep
    BY <1>2, Zenon DEF TableStep
  <2> QED
    BY <2>1, <2>2
<1>3. ASSUME Second
      PROVE  [Next]_vars /\ UNCHANGED <<links, table, registered>>
  BY <1>3, Zenon DEF Second, Next
<1>4. ASSUME RouterStep
      PROVE  [Next]_vars /\ UNCHANGED linkVars
  BY <1>4, Zenon DEF RouterStep, Next
<1>5. CASE UNCHANGED allVars
  BY <1>5, Zenon DEF allVars
<1> QED
  BY <1>1, <1>2, <1>3, <1>4, <1>5, Zenon DEF LinkNext

(* The link table implements what OutboundQueue leaves open: which delay a *)
(* direct message meets and when it can be sent.  So the type of the queue *)
(* and every invariant proved of it hold of the composition.               *)
THEOREM LinksImplementTheQueue == LinkSafeSpec => SafeSpec
<1>1. LinkInit => Init
  BY DEF LinkInit
<1>2. [LinkNext]_allVars => [Next]_vars
  BY StepsOfTheComposition
<1> QED
  BY <1>1, <1>2, PTL DEF LinkSafeSpec, SafeSpec

(* With its links for peers, whatever becomes of them, the router keeps    *)
(* the contract of the queue: no message is concluded twice or kept beyond *)
(* its capacity, and none leaves the queue but from its front or without   *)
(* being reported (process_outbound(), get_link_for_destination()).        *)
THEOREM LinksKeepTheContract ==
    LinkSafeSpec => /\ Contract!SafeSpec
                    /\ []NothingLostInSilence
                    /\ OnlyTheFrontLeaves
  BY LinksImplementTheQueue, ContractKept, LossIsReported, FrontLeaves, PTL

-----------------------------------------------------------------------------
(* The table.                                                              *)

LinkRecord == [peer : Peer, status : LinkStatus]

TableTypeOK ==
    /\ links \in Seq(LinkRecord)
    /\ Len(links) <= MaxLinks
    /\ table \in [Peer -> 0..Len(links)]
    /\ age \in [Peer -> 0..TooOld]
    /\ registered \subseteq Peer

(* A slot is looked up by the peer of its link.                            *)
SlotsAreThePeers == \A p \in Peer : Held(p) => links[table[p]].peer = p

TableInv == TableTypeOK /\ SlotsAreThePeers /\ ClosedLinksLeaveTheTable

LEMMA DroppedFacts ==
    ASSUME TableTypeOK, NEW p \in Peer
    PROVE  /\ Dropped(p) \in [Peer -> 0..Len(links)]
           /\ Dropped(p)[p] = 0
           /\ \A q \in Peer \ {p} : Dropped(p)[q] = table[q]
  BY DEF TableTypeOK, Dropped

(* A link that could not be opened, and one that was.                      *)
LEMMA ReopeningKeepsTable ==
    ASSUME TableInv, NEW m \in Msg, CannotOpen(m) \/ OpenLink(m)
    PROVE  TableInv'
<1> DEFINE p == To[m]
           new == [peer |-> p, status |-> "PENDING"]
<1>1. TableTypeOK /\ SlotsAreThePeers /\ ClosedLinksLeaveTheTable
  BY DEF TableInv
<1>2. p \in Peer
  BY LinkAssumption
<1>3. CASE CannotOpen(m)
  <2>1. table' = Dropped(p) /\ UNCHANGED <<links, age, registered>>
    BY <1>3 DEF CannotOpen
  <2> QED
    BY <1>1, <1>2, <2>1, DroppedFacts
       DEF TableInv, TableTypeOK, SlotsAreThePeers, ClosedLinksLeaveTheTable,
           Held, HeldStatus
<1>4. CASE OpenLink(m)
  <2>1. /\ Len(links) < MaxLinks
        /\ links' = Append(links, new)
        /\ registered' = registered \cup {p} \/ registered' = registered
        /\ \/ table' = [table EXCEPT ![p] = Len(links) + 1]
              /\ age' = [age EXCEPT ![p] = 0]
           \/ table' = Dropped(p) /\ age' = age
    BY <1>4 DEF OpenLink
  <2>2. new \in LinkRecord
    BY <1>2 DEF LinkRecord, LinkStatus
  <2>3. /\ links' \in Seq(LinkRecord) /\ Len(links') = Len(links) + 1
        /\ Len(links) \in Nat
        /\ links'[Len(links) + 1] = new
        /\ \A i \in 1..Len(links) : links'[i] = links[i]
    BY <1>1, <2>1, <2>2 DEF TableTypeOK
  <2>4. /\ table' \in [Peer -> 0..Len(links) + 1]
        /\ table'[p] = Len(links) + 1 \/ table'[p] = 0
        /\ \A q \in Peer \ {p} : table'[q] = table[q]
    <3>1. CASE table' = Dropped(p)
      BY <1>1, <1>2, <2>3, <3>1, DroppedFacts
    <3>2. CASE table' = [table EXCEPT ![p] = Len(links) + 1]
      BY <1>1, <1>2, <2>3, <3>2 DEF TableTypeOK
    <3> QED
      BY <2>1, <3>1, <3>2
  <2>5. 0 \in 0..TooOld
    BY LinkAssumption DEF TooOld
  <2>6. TableTypeOK'
    BY <1>1, <1>2, <2>1, <2>3, <2>4, <2>5, LinkAssumption DEF TableTypeOK
  <2>7. ASSUME NEW q \in Peer, table'[q] # 0
        PROVE  /\ links'[table'[q]].peer = q
               /\ q \in registered' => links'[table'[q]].status # "CLOSED"
    <3>1. CASE q = p
      <4>1. links'[table'[q]] = new
        BY <2>3, <2>4, <2>7, <3>1
      <4> QED
        BY <3>1, <4>1
    <3>2. CASE q # p
      <4>1. table'[q] = table[q] /\ table[q] \in 1..Len(links)
        BY <1>1, <2>3, <2>4, <2>7, <3>2 DEF TableTypeOK
      <4>2. links'[table'[q]] = links[table[q]]
        BY <2>3, <4>1
      <4>3. q \in registered' => q \in registered
        BY <2>1, <3>2
      <4> QED
        BY <1>1, <2>7, <4>1, <4>2, <4>3
           DEF SlotsAreThePeers, ClosedLinksLeaveTheTable, Held, HeldStatus
    <3> QED
      BY <3>1, <3>2
  <2>8. SlotsAreThePeers'
    BY <2>7 DEF SlotsAreThePeers, Held
  <2>9. ClosedLinksLeaveTheTable'
    BY <2>6, <2>7 DEF ClosedLinksLeaveTheTable, Held, HeldStatus, TableTypeOK
  <2> QED
    BY <2>6, <2>8, <2>9 DEF TableInv
<1> QED
  BY <1>3, <1>4

(* A link that changes its status on its own.                              *)
LEMMA LinkEventKeepsTable ==
    ASSUME TableInv, NEW i \in 1..Len(links),
           LinkEstablished(i) \/ LinkStale(i) \/ LinkClosed(i)
    PROVE  TableInv'
<1>1. TableTypeOK /\ SlotsAreThePeers /\ ClosedLinksLeaveTheTable
  BY DEF TableInv
<1>2. PICK status \in LinkStatus :
          /\ links' = [links EXCEPT ![i].status = status]
          /\ status = "CLOSED" =>
                 table' = IF links[i].peer \in registered
                          THEN Dropped(links[i].peer) ELSE table
          /\ status # "CLOSED" => table' = table
          /\ UNCHANGED <<age, registered>>
  BY DEF LinkEstablished, LinkStale, LinkClosed, SetStatus, LinkStatus
<1>3. /\ links \in Seq(LinkRecord) /\ Len(links) \in Nat
      /\ links[i] \in LinkRecord
  BY <1>1 DEF TableTypeOK
<1>4. links[i].peer \in Peer
  BY <1>3 DEF LinkRecord
<1>5. /\ [links[i] EXCEPT !.status = status] \in LinkRecord
      /\ [links[i] EXCEPT !.status = status].peer = links[i].peer
      /\ [links[i] EXCEPT !.status = status].status = status
  BY <1>3 DEF LinkRecord
<1>6. links' = [links EXCEPT ![i] = [links[i] EXCEPT !.status = status]]
  BY <1>2
<1>7. /\ links' \in Seq(LinkRecord) /\ Len(links') = Len(links)
      /\ \A j \in 1..Len(links) :
             /\ links'[j].peer = links[j].peer
             /\ j # i => links'[j] = links[j]
      /\ links'[i].status = status
  BY <1>3, <1>5, <1>6
<1>8. /\ table' \in [Peer -> 0..Len(links)]
      /\ \A q \in Peer : table'[q] = table[q] \/ table'[q] = 0
  BY <1>1, <1>2, <1>4, DroppedFacts DEF TableTypeOK
<1>9. TableTypeOK'
  BY <1>1, <1>2, <1>7, <1>8 DEF TableTypeOK
<1>10. ASSUME NEW q \in Peer, table'[q] # 0
      PROVE  /\ links'[table'[q]].peer = q
             /\ q \in registered' => links'[table'[q]].status # "CLOSED"
  <2>1. table'[q] = table[q] /\ table[q] \in 1..Len(links)
    BY <1>1, <1>8, <1>10 DEF TableTypeOK
  <2>2. links[table[q]].peer = q
    BY <1>1, <1>10, <2>1 DEF SlotsAreThePeers, Held
  <2>3. ASSUME q \in registered
        PROVE  links'[table'[q]].status # "CLOSED"
    <3>1. CASE table[q] = i
      <4>1. status # "CLOSED"
        BY <1>1, <1>2, <1>4, <1>10, <2>2, <2>3, <3>1, DroppedFacts
      <4> QED
        BY <1>7, <2>1, <3>1, <4>1
    <3>2. CASE table[q] # i
      BY <1>1, <1>7, <1>10, <2>1, <2>3, <3>2
         DEF ClosedLinksLeaveTheTable, Held, HeldStatus
    <3> QED
      BY <3>1, <3>2
  <2> QED
    BY <1>2, <1>7, <2>1, <2>2, <2>3
<1>11. SlotsAreThePeers'
  BY <1>10 DEF SlotsAreThePeers, Held
<1>12. ClosedLinksLeaveTheTable'
  BY <1>9, <1>10 DEF ClosedLinksLeaveTheTable, Held, HeldStatus, TableTypeOK
<1> QED
  BY <1>9, <1>11, <1>12 DEF TableInv

LEMMA TableInvariance == LinkSafeSpec => []TableInv
<1>1. LinkInit => TableInv
  <2> SUFFICES ASSUME LinkInit
               PROVE  TableInv
    OBVIOUS
  <2>1. <<>> \in Seq(LinkRecord) /\ Len(<<>>) = 0
    OBVIOUS
  <2> QED
    BY <2>1, LinkAssumption
       DEF LinkInit, TableInv, TableTypeOK, SlotsAreThePeers,
           ClosedLinksLeaveTheTable, Held, TooOld
<1>2. TableInv /\ [LinkNext]_allVars => TableInv'
  <2> SUFFICES ASSUME TableInv, [LinkNext]_allVars
               PROVE  TableInv'
    OBVIOUS
  <2>1. CASE TableStep
    BY <2>1, ReopeningKeepsTable, LinkEventKeepsTable DEF TableStep
  <2>2. CASE UNCHANGED linkVars
    BY <2>2 DEF linkVars, TableInv, TableTypeOK, SlotsAreThePeers,
                ClosedLinksLeaveTheTable, Held, HeldStatus
  <2>3. CASE UNCHANGED <<links, table, registered>> /\ Second
    <3>1. age' \in [Peer -> 0..TooOld]
      BY <2>3, LinkAssumption
         DEF Second, TableInv, TableTypeOK, LesserOf, TooOld
    <3> QED
      BY <2>3, <3>1 DEF TableInv, TableTypeOK, SlotsAreThePeers,
                        ClosedLinksLeaveTheTable, Held, HeldStatus
  <2> QED
    BY <2>1, <2>2, <2>3, StepsOfTheComposition
<1> QED
  BY <1>1, <1>2, PTL DEF LinkSafeSpec

(* Queue, links, table and registry keep their types and the bound on      *)
(* links, whatever callbacks throw and links do.                           *)
THEOREM LinkTypeCorrect == LinkSafeSpec => []LinkTypeOK
<1>1. TypeOK /\ TableInv => LinkTypeOK
  BY DEF TableInv, TableTypeOK, LinkTypeOK, LinkRecord
<1> QED
  BY <1>1, LinksImplementTheQueue, TypeCorrect, TableInvariance, PTL

(* No closed link to a registered peer stays in the table, in whatever     *)
(* order links to that peer are opened, forgotten and closed               *)
(* (get_link_for_destination(), on_link_closed()).                         *)
THEOREM ClosedLinksLeave == LinkSafeSpec => []ClosedLinksLeaveTheTable
<1>1. TableInv => ClosedLinksLeaveTheTable
  BY DEF TableInv
<1> QED
  BY <1>1, TableInvariance, PTL

(* An active link is only taken from the table by the closing of a link to *)
(* the same peer: no pass and no full table replaces it.                   *)
THEOREM ActiveLinksAreKept == LinkSafeSpec => ActiveLinksStay
<1> DEFINE Stays(p) ==
        HeldStatus(p) = "ACTIVE" =>
            \/ table'[p] = table[p]
            \/ \E i \in 1..Len(links) : /\ links[i].peer = p
                                        /\ links[i].status # "CLOSED"
                                        /\ links'[i].status = "CLOSED"
<1>1. TableInv /\ [LinkNext]_allVars => \A p \in Peer : Stays(p)
  <2> SUFFICES ASSUME TableInv, [LinkNext]_allVars, NEW p \in Peer,
                      HeldStatus(p) = "ACTIVE", table'[p] # table[p]
               PROVE  \E i \in 1..Len(links) : /\ links[i].peer = p
                                               /\ links[i].status # "CLOSED"
                                               /\ links'[i].status = "CLOSED"
    OBVIOUS
  <2>1. TableStep
    BY StepsOfTheComposition DEF linkVars
  <2>2. TableTypeOK
    BY DEF TableInv
  <2>3. ASSUME NEW m \in Msg, CannotOpen(m) \/ OpenLink(m)
        PROVE  FALSE
    <3>1. To[m] \in Peer /\ To[m] # p
      BY <2>3, LinkAssumption DEF CannotOpen, OpenLink, MustReopen, Usable
    <3>2. \/ table' = Dropped(To[m])
          \/ table' = [table EXCEPT ![To[m]] = Len(links) + 1]
      BY <2>3 DEF CannotOpen, OpenLink
    <3> QED
      BY <2>2, <3>1, <3>2 DEF TableTypeOK, Dropped
  <2>4. PICK i \in 1..Len(links) : LinkClosed(i)
    BY <2>1, <2>3 DEF TableStep, LinkEstablished, LinkStale
  <2>5. /\ links[i].status # "CLOSED"
        /\ links' = [links EXCEPT ![i].status = "CLOSED"]
        /\ table' = IF links[i].peer \in registered
                    THEN Dropped(links[i].peer) ELSE table
    BY <2>4 DEF LinkClosed, SetStatus
  <2>6. links[i].peer = p
    BY <2>2, <2>5 DEF TableTypeOK, Dropped
  <2>7. links'[i].status = "CLOSED"
    BY <2>2, <2>5 DEF TableTypeOK, LinkRecord
  <2> QED
    BY <2>5, <2>6, <2>7
<1>2. TableInv /\ [LinkNext]_allVars => [\A p \in Peer : Stays(p)]_allVars
  BY <1>1
<1> QED
  BY <1>2, TableInvariance, PTL DEF LinkSafeSpec, ActiveLinksStay

-----------------------------------------------------------------------------
(* Uploads and the queue.                                                  *)

(* What the application was told is never taken back.                      *)
LEMMA ToldGrows ==
    ASSUME TypeOK, [Next]_vars, NEW x \in Msg
    PROVE  told[x] \subseteq told'[x]
<1>1. told \in [Msg -> SUBSET Report]
  BY DEF TypeOK
<1>2. ASSUME NEW m \in Msg, TryHandleOutbound(m)
      PROVE  told' = told
  BY <1>2 DEF TryHandleOutbound, QueueFull, Refuse, Accept
<1>3. ASSUME NEW m \in Msg, ProcessOutbound(m)
      PROVE  \/ told' = told
             \/ \E more : told' = [told EXCEPT ![m] = @ \cup more]
  <2>1. CASE GiveUp(m)
    BY <2>1 DEF GiveUp, FailFront
  <2>2. CASE \E delay \in RetryDelays(m) : RetryLater(m, delay)
    BY <2>2 DEF RetryLater
  <2>3. CASE SendFails(m)
    BY <2>3 DEF SendFails, FailFront
  <2>4. CASE Send(m)
    BY <2>4 DEF Send
  <2>5. CASE SendAndThrow(m)
    <3>1. told' = [told EXCEPT ![m] = @ \cup {"sent"} \cup {"failed"}]
      BY <2>5 DEF SendAndThrow, FailFront
    <3>2. told' = [told EXCEPT ![m] = @ \cup ({"sent"} \cup {"failed"})]
      BY <1>1, <3>1
    <3> QED
      BY <3>2
  <2>6. CASE StartUpload(m)
    BY <2>6 DEF StartUpload
  <2> QED
    BY <1>3, <2>1, <2>2, <2>3, <2>4, <2>5, <2>6 DEF ProcessOutbound
<1>4. ASSUME NEW t \in air, Confirmed(t) \/ Lost(t)
      PROVE  \/ told' = told
             \/ \E m, more : told' = [told EXCEPT ![m] = @ \cup more]
  BY <1>4 DEF Confirmed, Lost
<1>5. ASSUME RetryFailedOutbound \/ ClearFailedOutbound
                \/ SetPropagationOnly \/ Tick
      PROVE  told' = told
  BY <1>5 DEF RetryFailedOutbound, ClearFailedOutbound, SetPropagationOnly,
              Tick
<1>6. \/ told' = told
      \/ \E m, more : told' = [told EXCEPT ![m] = @ \cup more]
  BY <1>2, <1>3, <1>4, <1>5 DEF Next, vars
<1> QED
  BY <1>1, <1>6

(* A message leaves the front only when it is abandoned or its upload      *)
(* starts, once it goes by propagation; and it never stops doing so.       *)
Propagates(m) == method[m] = "PROPAGATED"

AtHead(m) == pending # <<>> /\ Head(pending) = m

LEMMA PropagatesForever ==
    ASSUME TypeOK, [Next]_vars, NEW x \in Msg, Propagates(x)
    PROVE  Propagates(x)'
<1>1. method \in [Msg -> Method]
  BY DEF TypeOK
<1>2. \/ method' = method
      \/ \E m \in Msg : SetMethod(m)
  BY DEF Next, vars, TryHandleOutbound, QueueFull, Refuse, Accept,
         ProcessOutbound, GiveUp, RetryLater, SendFails, Send, SendAndThrow,
         StartUpload, Attempt, Confirmed, Lost, RetryFailedOutbound,
         ClearFailedOutbound, SetPropagationOnly, Tick
<1> QED
  BY <1>1, <1>2 DEF Propagates, SetMethod, UsesPropagation

(* Appending to the queue does not change its head.                        *)
LEMMA HeadOfJoin ==
    ASSUME NEW q \in Seq(Msg), NEW r \in Seq(Msg), q # <<>>
    PROVE  q \o r # <<>> /\ Head(q \o r) = Head(q)
  OBVIOUS

LEMMA HeadOfAppend ==
    ASSUME NEW q \in Seq(Msg), NEW m \in Msg, q # <<>>
    PROVE  Append(q, m) # <<>> /\ Head(Append(q, m)) = Head(q)
  OBVIOUS

(* Outside a pass over it, a message at the front stays there.             *)
LEMMA FrontStays ==
    ASSUME TypeOK, NEW x \in Msg, AtHead(x),
           \/ \E m \in Msg : TryHandleOutbound(m)
           \/ \E t \in air : Confirmed(t) \/ Lost(t)
           \/ RetryFailedOutbound
           \/ ClearFailedOutbound
           \/ SetPropagationOnly
           \/ Tick
           \/ \E m \in Msg : \E delay \in RetryDelays(m) : RetryLater(m, delay)
    PROVE  AtHead(x)'
<1>1. pending \in Seq(Msg) /\ pending # <<>>
  BY DEF TypeOK, AtHead
<1>2. CASE UNCHANGED pending
  BY <1>2 DEF AtHead
<1>3. CASE \E m \in Msg : Accept(m)
  BY <1>1, <1>3, HeadOfAppend DEF Accept, AtHead
<1>4. CASE RetryFailedOutbound
  BY <1>1, <1>4, RetryFacts, HeadOfJoin DEF AtHead
<1> QED
  BY <1>2, <1>3, <1>4
     DEF TryHandleOutbound, QueueFull, Refuse, Confirmed, Lost,
         ClearFailedOutbound, SetPropagationOnly, Tick, RetryLater, queueVars

-----------------------------------------------------------------------------
(* The composition.                                                        *)

(* A pass over a message, seen from the queue.                             *)
LEMMA PassIsProcessOutbound ==
    ASSUME NEW m \in Msg, UploadPass(m)
    PROVE  ProcessOutbound(m)
<1>1. ASSUME NotReady(m)
      PROVE  ProcessOutbound(m)
  BY <1>1 DEF NotReady, RetryLater, ProcessOutbound
<1>2. CASE SendPropagated(m)
  BY <1>1, <1>2
     DEF SendPropagated, WaitForNode, OpenNodeLink, AwaitNodeLink, KickStamp,
         KickStampTooLate, AwaitStamp, PackAndUpload, NotReadyThrows,
         ProcessOutbound
<1>3. CASE OtherUploadPass(m)
  BY <1>3 DEF OtherUploadPass, ProcessOutbound
<1> QED
  BY <1>2, <1>3 DEF UploadPass

LEMMA StepIsQueueStep == [UploadNext]_allUploadVars => [Next]_vars
<1> SUFFICES ASSUME [UploadNext]_allUploadVars
             PROVE  [Next]_vars
  OBVIOUS
<1>1. ASSUME NEW m \in Msg, UploadPass(m)
      PROVE  Next
  BY <1>1, PassIsProcessOutbound DEF Next
<1>2. CASE \/ StampDone \/ LinkChanges \/ ClearNode
           \/ \E n \in Node : SetNode(n)
           \/ \E c \in StampCost : SetStampCost(c)
  BY <1>2 DEF StampDone, LinkChanges, ClearNode, SetNode, SetStampCost
<1>3. CASE UploadRouterStep \/ UploadTick
  BY <1>3, Zenon DEF UploadRouterStep, UploadTick, Next
<1>4. CASE UNCHANGED allUploadVars
  BY <1>4, Zenon DEF allUploadVars
<1> QED
  BY <1>1, <1>2, <1>3, <1>4, Zenon DEF UploadNext

(* Node, link and stamper implement what OutboundQueue leaves open: when a *)
(* propagated message can be sent.  So the type of the queue and every     *)
(* invariant proved of it hold of the composition.                         *)
THEOREM UploadsImplementTheQueue == UploadSafeSpec => SafeSpec
<1>1. UploadInit => Init
  BY DEF UploadInit
<1> QED
  BY <1>1, StepIsQueueStep, PTL DEF UploadSafeSpec, SafeSpec

(* And so does the router with its uploads, whenever stamps are ready,     *)
(* stamp costs change and links to the node close (send_propagated()).     *)
THEOREM UploadsKeepTheContract ==
    UploadSafeSpec => /\ Contract!SafeSpec
                      /\ []NothingLostInSilence
                      /\ OnlyTheFrontLeaves
  BY UploadsImplementTheQueue, ContractKept, LossIsReported, FrontLeaves, PTL

-----------------------------------------------------------------------------
(* The invariant.                                                          *)

Abandoned(x) == "failed" \in told[x] \/ \E u \in uploads : u.msg = x

(* A message still has the ciphertext of one of its attempts, or has       *)
(* replaced it for an order that was refused.                              *)
Fits(x, attempt) ==
    \/ cipher[x] = attempt
    \/ [msg |-> x, attempt |-> cipher[x]] \in refused

(* The slot holds a stamp unless it is idle, for the ciphertext its owner  *)
(* has cached, and an owner that is not abandoned waits at the front.      *)
SlotSound ==
    /\ stamper.status = "IDLE" <=> stamper.stamp = NoStamp
    /\ stamper.stamp # NoStamp =>
           LET x == stamper.stamp.of.msg
           IN  /\ Fits(x, stamper.stamp.of.attempt)
               /\ Propagates(x)
               /\ Abandoned(x) \/ AtHead(x)

(* A stamp a message has taken is its own, or an abandoned message's.      *)
TakenSound ==
    \A m \in Msg :
        stamp[m] # NoStamp =>
            IF stamp[m].of.msg = m THEN Fits(m, stamp[m].of.attempt)
                                   ELSE Abandoned(stamp[m].of.msg)

UploadInv ==
    /\ UploadTypeOK
    /\ SlotSound
    /\ TakenSound
    /\ MisfitsHaveACause

(* The same after a step, of a message named before it.                    *)
AbandonedThen(x) == "failed" \in told'[x] \/ \E u \in uploads' : u.msg = x

FitsThen(x, attempt) ==
    \/ cipher'[x] = attempt
    \/ [msg |-> x, attempt |-> cipher'[x]] \in refused'

(* Facts about types the leaves below need one at a time.                  *)
LEMMA UploadTypes ==
    ASSUME UploadTypeOK
    PROVE  /\ TypeOK
           /\ \A m \in Msg : /\ stamp[m] \in Stamp \cup {NoStamp}
                             /\ cipher[m] \in 0..MAX_DELIVERY_ATTEMPTS
           /\ stamper.stamp \in Stamp \cup {NoStamp}
           /\ stamper = [status |-> stamper.status, stamp |-> stamper.stamp]
           /\ stamper.status \in AsyncState
           /\ \A u \in uploads :
                  u.msg \in Msg /\ u.stamp \in Stamp \cup {NoStamp}
           /\ \A s \in Stamp : /\ s # NoStamp
                               /\ s.of.msg \in Msg
                               /\ s.of.attempt \in 1..MAX_DELIVERY_ATTEMPTS
                               /\ s.of = [msg |-> s.of.msg,
                                          attempt |-> s.of.attempt]
  BY UploadAssumption DEF UploadTypeOK, Slot, Upload, Stamp, Ciphertext

(* The worker's result leaves the order in the slot.                       *)
LEMMA FinishedFacts ==
    ASSUME UploadTypeOK, stamper' \in Finished
    PROVE  /\ stamper' \in Slot
           /\ stamper'.stamp = stamper.stamp
           /\ stamper'.status \in {"DONE_SUCCESS", "DONE_FAIL"}
           /\ SearchMayFail \/ stamper'.status = "DONE_SUCCESS"
<1>1. /\ stamper = [status |-> stamper.status, stamp |-> stamper.stamp]
      /\ stamper.stamp \in Stamp \cup {NoStamp}
  BY UploadTypes
<1>2. PICK s \in {"DONE_SUCCESS", "DONE_FAIL"} :
          /\ stamper' = [stamper EXCEPT !.status = s]
          /\ SearchMayFail \/ s = "DONE_SUCCESS"
  BY DEF Finished
<1>3. stamper' = [status |-> s, stamp |-> stamper.stamp]
  BY <1>1, <1>2
<1> QED
  BY <1>1, <1>2, <1>3 DEF Slot, AsyncState

LEMMA AbandonedForever ==
    ASSUME TypeOK, [Next]_vars, uploads \subseteq uploads', NEW x \in Msg,
           Abandoned(x)
    PROVE  AbandonedThen(x)
<1>1. told[x] \subseteq told'[x]
  BY ToldGrows
<1> QED
  BY <1>1 DEF Abandoned, AbandonedThen

LEMMA FailedIsAbandoned ==
    ASSUME TypeOK, NEW m \in Msg, GiveUp(m) \/ SendFails(m)
    PROVE  AbandonedThen(m)
<1>1. told' = [told EXCEPT ![m] = @ \cup {} \cup {"failed"}]
  BY DEF GiveUp, SendFails, FailFront
<1>2. told \in [Msg -> SUBSET Report]
  BY DEF TypeOK
<1>3. "failed" \in told'[m]
  BY <1>1, <1>2
<1> QED
  BY <1>3 DEF AbandonedThen

(* Why the stamp of an upload need not fit, after a step.                  *)
CausedThen(u) ==
    \/ OwnStamp(u)
    \/ u.stamp.of.msg = u.msg /\ u.cipher \in refused'
    \/ u.stamp.of.msg # u.msg /\ AbandonedThen(u.stamp.of.msg)

(* Uploads of the past keep what is promised of them.                      *)
LEMMA PastUploads ==
    ASSUME UploadInv, [Next]_vars, uploads \subseteq uploads',
           refused \subseteq refused', NEW u \in uploads
    PROVE  CausedThen(u)
<1>1. UploadTypeOK /\ MisfitsHaveACause
  BY DEF UploadInv
<1>2. ASSUME ~OwnStamp(u)
      PROVE  /\ u.stamp.of.msg \in Msg
             /\ \/ u.stamp.of.msg = u.msg /\ u.cipher \in refused
                \/ u.stamp.of.msg # u.msg /\ Abandoned(u.stamp.of.msg)
  <2>1. u.stamp.of.msg \in Msg
    BY <1>1, <1>2, UploadTypes DEF OwnStamp
  <2> QED
    BY <1>1, <1>2, <2>1 DEF MisfitsHaveACause, Abandoned
<1>3. ASSUME ~OwnStamp(u), Abandoned(u.stamp.of.msg)
      PROVE  AbandonedThen(u.stamp.of.msg)
  BY <1>1, <1>2, <1>3, UploadTypes, AbandonedForever
<1> QED
  BY <1>2, <1>3 DEF CausedThen

LEMMA UploadsSound ==
    ASSUME \A u \in uploads' : CausedThen(u)
    PROVE  MisfitsHaveACause'
  BY DEF MisfitsHaveACause, CausedThen, OwnStamp, AbandonedThen

(* A step that leaves the order in the slot, the stamps and the uploads    *)
(* alone, replaces ciphertexts only for refused orders, and whose front    *)
(* stays or is abandoned.                                                  *)
LEMMA QuietStepKeepsUploads ==
    ASSUME UploadInv, [Next]_vars, UploadTypeOK',
           UNCHANGED <<stamp, uploads>>, refused \subseteq refused',
           stamper'.stamp = stamper.stamp,
           stamper'.status = "IDLE" <=> stamper.status = "IDLE",
           \A x \in Msg : \/ cipher'[x] = cipher[x]
                          \/ [msg |-> x, attempt |-> cipher'[x]] \in refused',
           \A x \in Msg : Propagates(x) /\ AtHead(x)
                              => AtHead(x)' \/ AbandonedThen(x)
    PROVE  UploadInv'
<1>1. UploadTypeOK /\ SlotSound /\ TakenSound /\ TypeOK
  BY UploadTypes DEF UploadInv
<1>2. uploads \subseteq uploads' /\ stamp' = stamp
  OBVIOUS
<1>3. \A x \in Msg : Abandoned(x) => AbandonedThen(x)
  BY <1>1, <1>2, AbandonedForever
<1>4. \A x \in Msg : \A a : Fits(x, a) => FitsThen(x, a)
  BY DEF Fits, FitsThen
<1>5. SlotSound'
  <2>1. ASSUME stamper.stamp # NoStamp, NEW x, x = stamper.stamp.of.msg
        PROVE  /\ FitsThen(x, stamper.stamp.of.attempt)
               /\ Propagates(x)' /\ (AbandonedThen(x) \/ AtHead(x)')
    <3>1. x \in Msg
      BY <1>1, <2>1, UploadTypes
    <3>2. /\ Fits(x, stamper.stamp.of.attempt)
          /\ Propagates(x) /\ (Abandoned(x) \/ AtHead(x))
      BY <1>1, <2>1 DEF SlotSound
    <3>3. Propagates(x)'
      BY <1>1, <3>1, <3>2, PropagatesForever
    <3> QED
      BY <1>3, <1>4, <3>1, <3>2, <3>3
  <2> QED
    BY <1>1, <2>1 DEF SlotSound, Abandoned, AbandonedThen, Fits, FitsThen
<1>6. TakenSound'
  <2>1. \A m \in Msg : stamp[m] # NoStamp => stamp[m].of.msg \in Msg
    BY <1>1, UploadTypes
  <2>2. \A m \in Msg :
            stamp[m] # NoStamp =>
                IF stamp[m].of.msg = m THEN FitsThen(m, stamp[m].of.attempt)
                                       ELSE AbandonedThen(stamp[m].of.msg)
    BY <1>1, <1>3, <1>4, <2>1 DEF TakenSound
  <2> QED
    BY <1>2, <2>2 DEF TakenSound, Abandoned, AbandonedThen, Fits, FitsThen
<1>7. MisfitsHaveACause'
  BY <1>2, PastUploads, UploadsSound
<1> QED
  BY <1>5, <1>6, <1>7 DEF UploadInv

-----------------------------------------------------------------------------
(* The pass.                                                               *)

(* A pass over one message does not move another that is at the front.     *)
LEMMA PassIsAtFront ==
    ASSUME NEW m \in Msg, UploadPass(m)
    PROVE  AtFront(m) /\ AtHead(m)
<1>1. ASSUME NotReady(m) \/ StartUpload(m) \/ ProcessOutbound(m)
      PROVE  AtFront(m)
  BY <1>1 DEF NotReady, RetryLater, StartUpload, ProcessOutbound, Attempt,
              GiveUp, SendFails, Send, SendAndThrow
<1>2. ProcessOutbound(m)
  BY PassIsProcessOutbound
<1> QED
  BY <1>1, <1>2 DEF AtFront, Front, AtHead

LEMMA KickStampKeepsUploads ==
    ASSUME UploadInv, NEW m \in Msg, KickStamp(m)
    PROVE  UploadInv'
<1> DEFINE ordered == [of |-> [msg |-> m, attempt |-> attempts[m] + 1],
                       cost |-> cost]
<1>1. UploadTypeOK /\ SlotSound /\ TakenSound /\ TypeOK
  BY UploadTypes DEF UploadInv
<1>2. /\ UploadPass(m) /\ RetryLater(m, OUTBOUND_RETRY_DELAY)
      /\ UsesPropagation(m) /\ Attempt(m)
      /\ stamper.status = "IDLE" /\ stamp[m] = NoStamp
      /\ UNCHANGED <<node, link, cost, stamp, uploads, refused>>
  BY DEF UploadPass, SendPropagated, KickStamp, nodeVars, pastVars, NotReady, RetryLater, NeedsStamp
<1>3. [Next]_vars /\ TypeOK'
  <2>1. ProcessOutbound(m)
    BY <1>2, PassIsProcessOutbound
  <2> QED
    BY <1>1, <2>1, NextType DEF Next
<1>4. ordered \in Stamp /\ attempts[m] + 1 \in 1..MAX_DELIVERY_ATTEMPTS
  BY <1>1, <1>2, ConstantsAssumption
     DEF Attempt, TypeOK, UploadTypeOK, Stamp, Ciphertext
<1>5. \/ UNCHANGED <<cipher, stamper>>
      \/ /\ cipher' = [cipher EXCEPT ![m] = attempts[m] + 1]
         /\ \/ stamper' = stamper
            \/ stamper' = [status |-> "RUNNING", stamp |-> ordered]
  BY DEF KickStamp
<1>6. UploadTypeOK'
  BY <1>1, <1>2, <1>3, <1>4, <1>5 DEF UploadTypeOK, Slot, AsyncState
<1>7. AtHead(m) /\ AtHead(m)'
  BY <1>1, <1>2, PassIsAtFront, FrontStays DEF RetryLater
<1>8. \A x \in Msg : AtHead(x) => x = m
  BY <1>7 DEF AtHead
<1>9. CASE UNCHANGED <<cipher, stamper>>
  BY <1>2, <1>3, <1>6, <1>7, <1>8, <1>9, QuietStepKeepsUploads
<1>10. CASE cipher' = [cipher EXCEPT ![m] = attempts[m] + 1]
  <2>1. TakenSound'
    <3>1. SUFFICES ASSUME NEW q \in Msg, stamp[q] # NoStamp
                   PROVE  IF stamp[q].of.msg = q
                          THEN FitsThen(q, stamp[q].of.attempt)
                          ELSE AbandonedThen(stamp[q].of.msg)
      BY <1>2 DEF TakenSound, Abandoned, AbandonedThen, Fits, FitsThen
    <3>2. q # m /\ cipher'[q] = cipher[q] /\ stamp[q].of.msg \in Msg
      BY <1>1, <1>2, <1>10, <3>1, UploadTypes DEF UploadTypeOK
    <3>3. Abandoned(stamp[q].of.msg) => AbandonedThen(stamp[q].of.msg)
      BY <1>1, <1>2, <1>3, <3>2, AbandonedForever
    <3> QED
      BY <1>1, <1>2, <3>1, <3>2, <3>3 DEF TakenSound, Fits, FitsThen
  <2>2. SlotSound'
    <3>1. CASE stamper' = stamper
      BY <1>1, <1>2, <3>1 DEF SlotSound
    <3>2. CASE stamper' = [status |-> "RUNNING", stamp |-> ordered]
      <4>1. stamper'.stamp = ordered /\ stamper'.status = "RUNNING"
        BY <3>2
      <4>2. ordered # NoStamp /\ ordered.of.msg = m
            /\ ordered.of.attempt = attempts[m] + 1
        BY <1>4, UploadAssumption
      <4>3. cipher'[m] = attempts[m] + 1
        BY <1>1, <1>10 DEF UploadTypeOK
      <4>4. Propagates(m)'
        BY <1>1, <1>2 DEF Attempt, SetMethod, Propagates, TypeOK
      <4> QED
        BY <1>7, <4>1, <4>2, <4>3, <4>4 DEF SlotSound, Fits
    <3> QED
      BY <1>5, <1>9, <1>10, <3>1, <3>2
  <2>3. MisfitsHaveACause'
    BY <1>2, <1>3, PastUploads, UploadsSound
  <2> QED
    BY <1>6, <2>1, <2>2, <2>3 DEF UploadInv
<1> QED
  BY <1>5, <1>9, <1>10

(* The worker finishing during the pass leaves the message with a new      *)
(* ciphertext, which the history names, or with the one it had.            *)
LEMMA KickStampTooLateKeepsUploads ==
    ASSUME UploadInv, NEW m \in Msg, KickStampTooLate(m)
    PROVE  UploadInv'
<1>1. UploadTypeOK /\ TypeOK
  BY UploadTypes DEF UploadInv
<1>2. /\ UploadPass(m) /\ RetryLater(m, OUTBOUND_RETRY_DELAY) /\ Attempt(m)
      /\ stamper.status = "RUNNING" /\ stamper' \in Finished
      /\ UNCHANGED <<node, link, cost, stamp, uploads>>
  BY DEF UploadPass, SendPropagated, KickStampTooLate, NotReady, RetryLater,
         Running, nodeVars
<1>3. [Next]_vars /\ TypeOK'
  <2>1. ProcessOutbound(m)
    BY <1>2, PassIsProcessOutbound
  <2> QED
    BY <1>1, <2>1, NextType DEF Next
<1>4. attempts[m] + 1 \in 1..MAX_DELIVERY_ATTEMPTS
  BY <1>1, <1>2, ConstantsAssumption DEF Attempt, TypeOK
<1>5. /\ cipher' \in [Msg -> 0..MAX_DELIVERY_ATTEMPTS]
      /\ refused \subseteq refused' /\ refused' \subseteq Ciphertext
      /\ \A x \in Msg : \/ cipher'[x] = cipher[x]
                        \/ [msg |-> x, attempt |-> cipher'[x]] \in refused'
  <2>1. CASE UNCHANGED <<cipher, refused>>
    BY <1>1, <2>1 DEF UploadTypeOK
  <2>2. CASE /\ cipher' = [cipher EXCEPT ![m] = attempts[m] + 1]
             /\ refused' = refused \cup {[msg |-> m, attempt |-> cipher'[m]]}
    <3>1. cipher'[m] = attempts[m] + 1
      BY <1>1, <2>2 DEF UploadTypeOK
    <3> QED
      BY <1>1, <1>4, <2>2, <3>1 DEF UploadTypeOK, Ciphertext
  <2> QED
    BY <2>1, <2>2 DEF KickStampTooLate
<1>6. stamper' \in Slot /\ stamper'.stamp = stamper.stamp
      /\ stamper'.status \in {"DONE_SUCCESS", "DONE_FAIL"}
  BY <1>1, <1>2, FinishedFacts
<1>7. UploadTypeOK'
  BY <1>1, <1>2, <1>3, <1>5, <1>6 DEF UploadTypeOK
<1>8. AtHead(m) /\ AtHead(m)'
  BY <1>1, <1>2, PassIsAtFront, FrontStays DEF RetryLater
<1>9. \A x \in Msg : AtHead(x) => x = m
  BY <1>8 DEF AtHead
<1> QED
  BY <1>2, <1>3, <1>5, <1>6, <1>7, <1>8, <1>9, QuietStepKeepsUploads

LEMMA PackAndUploadKeepsUploads ==
    ASSUME UploadInv, NEW m \in Msg, PackAndUpload(m)
    PROVE  UploadInv'
<1> DEFINE u == [msg |-> m, cipher |-> Packed(m), stamp |-> stamp'[m],
                 took |-> IF NeedsStamp(m) THEN stamper ELSE Idle,
                 cost |-> cost]
<1>1. UploadTypeOK /\ SlotSound /\ TakenSound /\ TypeOK
  BY UploadTypes DEF UploadInv
<1>2. /\ UploadPass(m) /\ StampReady(m)
      /\ \/ StartUpload(m) /\ uploads' = uploads \cup {u}
         \/ NotReady(m) /\ UNCHANGED uploads
         \/ SendFails(m) /\ UNCHANGED uploads
      /\ UNCHANGED <<node, link, cost, cipher, refused>>
  BY DEF UploadPass, SendPropagated, PackAndUpload, nodeVars
<1>3. \/ NeedsStamp(m) /\ stamp' = [stamp EXCEPT ![m] = Result]
                       /\ stamper' = Idle
      \/ ~NeedsStamp(m) /\ UNCHANGED <<stamp, stamper>>
  BY DEF PackAndUpload, TakeStamp
<1>4. [Next]_vars /\ TypeOK'
  <2>1. ProcessOutbound(m)
    BY <1>2, PassIsProcessOutbound
  <2> QED
    BY <1>1, <2>1, NextType DEF Next
<1>5. attempts[m] + 1 \in 1..MAX_DELIVERY_ATTEMPTS
  <2>1. Attempt(m)
    BY <1>2 DEF StartUpload, NotReady, RetryLater, SendFails
  <2> QED
    BY <1>1, <2>1, ConstantsAssumption DEF Attempt, TypeOK
<1>6. /\ stamp' \in [Msg -> Stamp \cup {NoStamp}]
      /\ \A q \in Msg \ {m} : stamp'[q] = stamp[q]
      /\ NeedsStamp(m) => stamp'[m] \in {stamper.stamp, NoStamp}
      /\ ~NeedsStamp(m) => stamp'[m] = stamp[m]
  <2>1. Result \in {stamper.stamp, NoStamp}
    BY DEF Result
  <2> QED
    BY <1>1, <1>3, <2>1, UploadTypes DEF UploadTypeOK
<1>7. Packed(m) \in Ciphertext
  BY <1>1, <1>5, UploadTypes DEF Packed, Ciphertext
<1>8. UploadTypeOK'
  <2>1. Idle \in Slot
    BY DEF Idle, Slot, AsyncState
  <2>2. u \in Upload
    BY <1>1, <1>6, <1>7, <2>1 DEF Upload, UploadTypeOK
  <2> QED
    BY <1>1, <1>2, <1>3, <1>4, <1>6, <2>1, <2>2 DEF UploadTypeOK
<1>9. uploads \subseteq uploads'
  BY <1>2
<1>10. \A x \in Msg : Abandoned(x) => AbandonedThen(x)
  BY <1>1, <1>4, <1>9, AbandonedForever
<1>11. AtHead(m) /\ (AtHead(m)' \/ AbandonedThen(m))
  <2>1. AtHead(m)
    BY <1>2, PassIsAtFront
  <2>2. CASE StartUpload(m) /\ uploads' = uploads \cup {u}
    <3>1. u \in uploads' /\ u.msg = m
      BY <2>2
    <3> QED
      BY <2>1, <3>1 DEF AbandonedThen
  <2>3. CASE NotReady(m)
    BY <1>1, <2>1, <2>3, FrontStays DEF NotReady, RetryLater
  <2>4. CASE SendFails(m)
    BY <1>1, <2>1, <2>4, FailedIsAbandoned
  <2>5. \/ StartUpload(m) /\ uploads' = uploads \cup {u}
        \/ NotReady(m) \/ SendFails(m)
    BY <1>2
  <2>6. AtHead(m)' \/ AbandonedThen(m)
    BY <2>2, <2>3, <2>4, <2>5
  <2> QED
    BY <2>1, <2>6
(* The stamp the message now has is its own, or an abandoned message's.    *)
<1>12. ASSUME stamp'[m] # NoStamp
       PROVE  IF stamp'[m].of.msg = m
              THEN Fits(m, stamp'[m].of.attempt)
              ELSE AbandonedThen(stamp'[m].of.msg)
  <2>1. CASE NeedsStamp(m)
    <3>1. stamper.stamp # NoStamp /\ stamp'[m] = stamper.stamp
      BY <1>6, <1>12, <2>1
    <3>2. stamper.stamp.of.msg \in Msg
      BY <1>1, <3>1, UploadTypes
    <3>3. /\ Fits(stamper.stamp.of.msg, stamper.stamp.of.attempt)
          /\ \/ Abandoned(stamper.stamp.of.msg)
             \/ AtHead(stamper.stamp.of.msg)
      BY <1>1, <3>1 DEF SlotSound
    <3>4. AtHead(stamper.stamp.of.msg) => stamper.stamp.of.msg = m
      BY <1>11 DEF AtHead
    <3> QED
      BY <1>10, <3>1, <3>2, <3>3, <3>4
  <2>2. CASE ~NeedsStamp(m)
    <3>1. stamp[m] # NoStamp /\ stamp'[m] = stamp[m]
      BY <1>6, <1>12, <2>2
    <3>2. stamp[m].of.msg \in Msg
      BY <1>1, <3>1, UploadTypes
    <3> QED
      BY <1>1, <1>10, <3>1, <3>2 DEF TakenSound
  <2> QED
    BY <2>1, <2>2
<1>13. TakenSound'
  <2>1. ASSUME NEW q \in Msg \ {m}, stamp[q] # NoStamp
        PROVE  IF stamp[q].of.msg = q
               THEN Fits(q, stamp[q].of.attempt)
               ELSE AbandonedThen(stamp[q].of.msg)
    <3>1. stamp[q].of.msg \in Msg
      BY <1>1, <2>1, UploadTypes
    <3> QED
      BY <1>1, <1>10, <2>1, <3>1 DEF TakenSound
  <2> QED
    BY <1>2, <1>6, <1>12, <2>1 DEF TakenSound, Abandoned, AbandonedThen, Fits
<1>14. SlotSound'
  <2>1. CASE NeedsStamp(m)
    BY <1>3, <2>1 DEF SlotSound, Idle
  <2>2. CASE ~NeedsStamp(m)
    <3>1. UNCHANGED <<stamper, cipher, refused>>
      BY <1>2, <1>3, <2>2
    <3>2. ASSUME stamper.stamp # NoStamp, NEW x, x = stamper.stamp.of.msg
          PROVE  /\ Fits(x, stamper.stamp.of.attempt)
                 /\ Propagates(x)' /\ (AbandonedThen(x) \/ AtHead(x)')
      <4>1. x \in Msg
        BY <1>1, <3>2, UploadTypes
      <4>2. /\ Fits(x, stamper.stamp.of.attempt)
            /\ Propagates(x) /\ (Abandoned(x) \/ AtHead(x))
        BY <1>1, <3>2 DEF SlotSound
      <4>3. Propagates(x)'
        BY <1>1, <1>4, <4>1, <4>2, PropagatesForever
      <4>4. AtHead(x) => x = m
        BY <1>11 DEF AtHead
      <4> QED
        BY <1>10, <1>11, <4>1, <4>2, <4>3, <4>4
    <3> QED
      BY <1>1, <3>1, <3>2 DEF SlotSound, Abandoned, AbandonedThen, Fits
  <2> QED
    BY <2>1, <2>2
<1>15. CausedThen(u)
  <2>1. ASSUME stamp'[m] # NoStamp, stamp'[m].of.msg = m
        PROVE  stamp'[m].of = Packed(m) \/ Packed(m) \in refused
    <3>1. stamp'[m] \in Stamp
      BY <1>6, <2>1
    <3>2. /\ stamp'[m].of = [msg |-> m, attempt |-> stamp'[m].of.attempt]
          /\ stamp'[m].of.attempt \in 1..MAX_DELIVERY_ATTEMPTS
      BY <1>1, <2>1, <3>1, UploadTypes
    <3>3. Fits(m, stamp'[m].of.attempt)
      BY <1>12, <2>1
    <3>4. cipher[m] \in Nat /\ cipher[m] > 0
      BY <1>1, <3>2, <3>3, ConstantsAssumption
         DEF Fits, UploadTypeOK, Ciphertext
    <3>5. Packed(m) = [msg |-> m, attempt |-> cipher[m]]
      BY <3>4 DEF Packed
    <3> QED
      BY <3>2, <3>3, <3>5 DEF Fits
  <2> QED
    BY <1>2, <1>12, <2>1 DEF OwnStamp, CausedThen
<1>16. MisfitsHaveACause'
  <2>1. \A v \in uploads' : v \in uploads \/ v = u
    BY <1>2
  <2> QED
    BY <1>2, <1>4, <1>9, <1>15, <2>1, PastUploads, UploadsSound
<1> QED
  BY <1>8, <1>13, <1>14, <1>16 DEF UploadInv

-----------------------------------------------------------------------------
(* The theorems.                                                           *)

LEMMA PassKeepsUploads ==
    ASSUME UploadInv, NEW m \in Msg, UploadPass(m)
    PROVE  UploadInv'
<1>1. UploadTypeOK /\ TypeOK
  BY UploadTypes DEF UploadInv
<1>2. ProcessOutbound(m) /\ AtFront(m) /\ AtHead(m)
  BY PassIsAtFront, PassIsProcessOutbound
<1>3. [Next]_vars /\ TypeOK'
  BY <1>1, <1>2, NextType DEF Next
<1>4. \A x \in Msg : AtHead(x) => x = m
  BY <1>2 DEF AtHead
<1>5. CASE KickStamp(m)
  BY <1>5, KickStampKeepsUploads
<1>6. CASE PackAndUpload(m) \/ KickStampTooLate(m)
  BY <1>6, PackAndUploadKeepsUploads, KickStampTooLateKeepsUploads
<1>7. CASE \/ WaitForNode(m) \/ OpenNodeLink(m)
           \/ AwaitNodeLink(m) \/ AwaitStamp(m)
  <2>1. /\ RetryLater(m, OUTBOUND_RETRY_DELAY)
        /\ UNCHANGED <<node, cost, stamper, cipher, stamp, uploads, refused>>
        /\ link' \in {link, [to |-> node, status |-> "PENDING"]}
    BY <1>7 DEF WaitForNode, OpenNodeLink, AwaitNodeLink, AwaitStamp, NotReady,
                uploadVars, nodeVars, stampVars, pastVars
  <2>2. UploadTypeOK'
    BY <1>1, <1>3, <2>1 DEF UploadTypeOK, NodeLinkStatus
  <2>3. AtHead(m)'
    BY <1>1, <1>2, <2>1, FrontStays DEF RetryLater
  <2> QED
    BY <1>3, <1>4, <2>1, <2>2, <2>3, QuietStepKeepsUploads
<1>8. CASE NotReadyThrows(m) \/ OtherUploadPass(m)
  <2>1. /\ UNCHANGED <<node, link, cost, cipher, stamp, uploads, refused>>
        /\ \/ stamper' = stamper
           \/ Running /\ stamper' \in Finished
    BY <1>8 DEF NotReadyThrows, OtherUploadPass, uploadVars, nodeVars,
                stampVars, pastVars
  <2>2. /\ stamper' \in Slot /\ stamper'.stamp = stamper.stamp
        /\ (stamper'.status = "IDLE") <=> (stamper.status = "IDLE")
    BY <1>1, <2>1, FinishedFacts DEF Running, UploadTypeOK
  <2>3. UploadTypeOK'
    BY <1>1, <1>3, <2>1, <2>2 DEF UploadTypeOK
  <2>4. Propagates(m) => AbandonedThen(m)
    <3>1. SendFails(m) \/ GiveUp(m) \/ ~UsesPropagation(m)
      BY <1>8 DEF NotReadyThrows, OtherUploadPass
    <3>2. Propagates(m) => UsesPropagation(m)
      BY DEF Propagates, UsesPropagation
    <3> QED
      BY <1>1, <3>1, <3>2, FailedIsAbandoned
  <2> QED
    BY <1>3, <1>4, <2>1, <2>3, <2>4, <2>2, QuietStepKeepsUploads
<1> QED
  BY <1>5, <1>6, <1>7, <1>8 DEF UploadPass, SendPropagated

LEMMA UploadInvariance == UploadSafeSpec => []UploadInv
<1>1. UploadInit => UploadInv
  <2> SUFFICES ASSUME UploadInit
               PROVE  UploadInv
    OBVIOUS
  <2>1. UploadTypeOK
    BY InitType, ConstantsAssumption, UploadAssumption
       DEF UploadInit, UploadTypeOK, Idle, Slot, AsyncState, NoLink,
           NodeLinkStatus
  <2> QED
    BY <2>1 DEF UploadInit, UploadInv, SlotSound, TakenSound, Idle,
                MisfitsHaveACause
<1>2. UploadInv /\ [UploadNext]_allUploadVars => UploadInv'
  <2> SUFFICES ASSUME UploadInv, [UploadNext]_allUploadVars
               PROVE  UploadInv'
    OBVIOUS
  <2>1. UploadTypeOK /\ TypeOK /\ [Next]_vars /\ TypeOK'
    BY UploadTypes, StepIsQueueStep, NextType DEF UploadInv
  <2>2. CASE \E m \in Msg : UploadPass(m)
    BY <2>2, PassKeepsUploads
  <2>3. CASE StampDone
    <3>1. /\ stamper.status = "RUNNING" /\ stamper' \in Finished
          /\ UNCHANGED vars
          /\ UNCHANGED <<node, link, cost, cipher, stamp, uploads, refused>>
      BY <2>3, Zenon DEF StampDone, Running, nodeVars, pastVars
    <3>2. stamper' \in Slot /\ stamper'.stamp = stamper.stamp
          /\ stamper'.status \in {"DONE_SUCCESS", "DONE_FAIL"}
      BY <2>1, <3>1, FinishedFacts
    <3>3. UploadTypeOK'
      BY <2>1, <3>1, <3>2 DEF UploadTypeOK
    <3>4. \A x \in Msg : AtHead(x) => AtHead(x)'
      BY <3>1, Zenon DEF vars, queueVars, AtHead
    <3> QED
      BY <2>1, <3>1, <3>2, <3>3, <3>4, QuietStepKeepsUploads
  <2>4. CASE \/ LinkChanges \/ ClearNode
             \/ \E n \in Node : SetNode(n)
             \/ \E c \in StampCost : SetStampCost(c)
    <3>1. /\ UNCHANGED vars
          /\ UNCHANGED <<stamper, cipher, stamp, uploads, refused>>
      BY <2>4 DEF LinkChanges, ClearNode, SetNode, SetStampCost, stampVars,
                  pastVars
    <3>2. /\ node' \in Node \cup {NoNode} /\ cost' \in StampCost
          /\ link' \in [to : Node \cup {NoNode}, status : NodeLinkStatus]
      BY <2>1, <2>4 DEF UploadTypeOK, LinkChanges, ClearNode, SetNode,
                        SetStampCost, NoLink, NodeLinkStatus
    <3>3. UploadTypeOK'
      BY <2>1, <3>1, <3>2 DEF UploadTypeOK
    <3>4. \A x \in Msg : AtHead(x) => AtHead(x)'
      BY <3>1, Zenon DEF vars, queueVars, AtHead
    <3> QED
      BY <2>1, <3>1, <3>3, <3>4, QuietStepKeepsUploads
  <2>5. CASE UploadRouterStep \/ UploadTick \/ UNCHANGED allUploadVars
    <3>1. UNCHANGED <<node, link, cost, stamper, cipher, stamp, uploads, refused>>
      BY <2>5 DEF UploadRouterStep, UploadTick, allUploadVars, uploadVars,
                  nodeVars, stampVars, pastVars
    <3>2. UploadTypeOK'
      BY <2>1, <3>1 DEF UploadTypeOK
    <3>3. \A x \in Msg : AtHead(x) => AtHead(x)'
      <4>1. CASE UNCHANGED allUploadVars
        BY <4>1, Zenon DEF allUploadVars, vars, queueVars, AtHead
      <4>2. CASE UploadRouterStep \/ UploadTick
        BY <2>1, <4>2, FrontStays, Zenon DEF UploadRouterStep, UploadTick
      <4> QED
        BY <2>5, <4>1, <4>2
    <3> QED
      BY <2>1, <3>1, <3>2, <3>3, QuietStepKeepsUploads
  <2> QED
    BY <2>2, <2>3, <2>4, <2>5 DEF UploadNext
<1> QED
  BY <1>1, <1>2, PTL DEF UploadSafeSpec

(* Queue, node, link, stamper and uploads keep their types.                *)
THEOREM UploadTypeCorrect == UploadSafeSpec => []UploadTypeOK
<1>1. UploadInv => UploadTypeOK
  BY DEF UploadInv
<1> QED
  BY <1>1, UploadInvariance, PTL

(* A stamp that does not fit the content it is sent with was ordered by    *)
(* another message, which had been abandoned by then, or replaced content  *)
(* was encrypted for an order the busy stamper refused.                    *)
THEOREM MisfitsAreExplained == UploadSafeSpec => []MisfitsHaveACause
<1>1. UploadInv => MisfitsHaveACause
  BY DEF UploadInv
<1> QED
  BY <1>1, UploadInvariance, PTL

-----------------------------------------------------------------------------
(* Searches.                                                               *)

(* No message has counted an attempt later than the one an order names.    *)
OrderCounted(o) == o # NoStamp /\ o.of.attempt <= attempts[o.of.msg]

(* The order in the slot has not been taken by any upload that went        *)
(* without a stamp, and without failing searches there is none.            *)
SearchInv ==
    /\ StampedUnlessSearchFailed
    /\ \A u \in Unstamped : OrderCounted(u.took.stamp)
    /\ stamper.stamp # NoStamp =>
           /\ OrderCounted(stamper.stamp)
           /\ \A u \in Unstamped : u.took.stamp # stamper.stamp
    /\ SearchMayFail \/ (stamper.status # "DONE_FAIL" /\ Unstamped = {})

(* What a step does to the slot and the uploads: it leaves the order in    *)
(* the slot or empties it, orders a stamp for an attempt just counted, or  *)
(* starts an upload, which goes without a stamp only by taking the result  *)
(* of a search that failed.                                                *)
LEMMA SearchStep ==
    ASSUME UploadTypeOK, SlotSound, [UploadNext]_allUploadVars
    PROVE  \/ /\ uploads' = uploads
              /\ stamper'.stamp \in {stamper.stamp, NoStamp}
              /\ \/ SearchMayFail
                 \/ stamper'.status = "DONE_FAIL" => stamper.status = "DONE_FAIL"
           \/ /\ uploads' = uploads
              /\ stamper'.status = "RUNNING"
              /\ stamper'.stamp \in Stamp
              /\ \A m \in Msg :
                     m = stamper'.stamp.of.msg =>
                         /\ stamper'.stamp.of.attempt = attempts[m] + 1
                         /\ stamper'.stamp.of.attempt = attempts'[m]
           \/ /\ stamper' \in {stamper, Idle}
              /\ \E u : /\ uploads' = uploads \cup {u}
                        /\ u.cost > 0 /\ u.stamp = NoStamp =>
                               /\ u.took = stamper
                               /\ stamper.status = "DONE_FAIL"
                               /\ stamper.stamp # NoStamp
                               /\ stamper' = Idle
<1>1. ASSUME UNCHANGED <<stamper, uploads>>
      PROVE  /\ uploads' = uploads /\ stamper'.stamp = stamper.stamp
             /\ stamper'.status = stamper.status
  BY <1>1
<1>2. ASSUME stamper' \in Finished, uploads' = uploads
      PROVE  /\ uploads' = uploads /\ stamper'.stamp = stamper.stamp
             /\ SearchMayFail \/ stamper'.status # "DONE_FAIL"
  BY <1>2, FinishedFacts
<1>3. ASSUME NEW m \in Msg, KickStamp(m)
      PROVE  \/ UNCHANGED <<stamper, uploads>>
             \/ /\ uploads' = uploads
                /\ stamper'.status = "RUNNING"
                /\ stamper'.stamp \in Stamp
                /\ stamper'.stamp.of.msg = m
                /\ stamper'.stamp.of.attempt = attempts[m] + 1
                /\ stamper'.stamp.of.attempt = attempts'[m]
  <2> DEFINE ordered == [of |-> [msg |-> m, attempt |-> attempts[m] + 1],
                         cost |-> cost]
  <2>1. /\ uploads' = uploads
        /\ \/ stamper' = stamper
           \/ stamper' = [status |-> "RUNNING", stamp |-> ordered]
    BY <1>3 DEF KickStamp, pastVars
  <2>2. Attempt(m)
    BY <1>3 DEF KickStamp, NotReady, RetryLater
  <2>3. attempts'[m] = attempts[m] + 1 /\ attempts[m] + 1 \in 1..MAX_DELIVERY_ATTEMPTS
    BY <2>2, UploadTypes, ConstantsAssumption DEF Attempt, TypeOK
  <2>4. ordered \in Stamp
    BY <2>3 DEF Stamp, Ciphertext, UploadTypeOK
  <2> QED
    BY <2>1, <2>3, <2>4
<1>4. ASSUME NEW m \in Msg, PackAndUpload(m)
      PROVE  /\ stamper' \in {stamper, Idle}
             /\ \/ uploads' = uploads
                \/ \E u : /\ uploads' = uploads \cup {u}
                          /\ u.cost > 0 /\ u.stamp = NoStamp =>
                                 /\ u.took = stamper
                                 /\ stamper.status = "DONE_FAIL"
                                 /\ stamper.stamp # NoStamp
                                 /\ stamper' = Idle
  <2> DEFINE u == [msg |-> m, cipher |-> Packed(m), stamp |-> stamp'[m],
                   took |-> IF NeedsStamp(m) THEN stamper ELSE Idle,
                   cost |-> cost]
  <2>1. uploads' = uploads \/ uploads' = uploads \cup {u}
    BY <1>4 DEF PackAndUpload
  <2>2. TakeStamp(m) /\ StampReady(m)
    BY <1>4 DEF PackAndUpload
  <2>3. CASE NeedsStamp(m)
    <3>1. /\ stamper' = Idle /\ stamp'[m] = Result /\ Done
          /\ u.took = stamper /\ u.stamp = stamp'[m]
      BY <2>2, <2>3 DEF TakeStamp, StampReady, UploadTypeOK
    <3>2. stamper.stamp # NoStamp
      BY <3>1 DEF SlotSound, Done
    <3>3. u.stamp = NoStamp => stamper.status = "DONE_FAIL"
      BY <3>1, <3>2 DEF Result, Done
    <3> HIDE DEF u
    <3> QED
      BY <2>1, <3>1, <3>2, <3>3
  <2>4. CASE ~NeedsStamp(m)
    <3>1. stamper' = stamper /\ stamp' = stamp
      BY <2>2, <2>4 DEF TakeStamp
    <3>2. ~(u.cost > 0 /\ u.stamp = NoStamp)
      BY <2>4, <3>1 DEF NeedsStamp
    <3> HIDE DEF u
    <3> QED
      BY <2>1, <3>1, <3>2
  <2> QED
    BY <2>3, <2>4
<1>5. ASSUME NEW m \in Msg, UploadPass(m), ~KickStamp(m), ~PackAndUpload(m)
      PROVE  \/ UNCHANGED <<stamper, uploads>>
             \/ stamper' \in Finished /\ uploads' = uploads
  BY <1>5 DEF UploadPass, SendPropagated, WaitForNode, OpenNodeLink,
              AwaitNodeLink, KickStampTooLate, AwaitStamp, NotReadyThrows,
              OtherUploadPass, uploadVars, stampVars, pastVars
<1>6. CASE \E m \in Msg : UploadPass(m)
  <2>1. PICK m \in Msg : UploadPass(m)
    BY <1>6
  <2>2. CASE KickStamp(m)
    BY <1>1, <1>3, <2>2
  <2>3. CASE PackAndUpload(m)
    <3>1. CASE uploads' = uploads
      BY <1>4, <2>3, <3>1 DEF Idle
    <3>2. CASE uploads' # uploads
      BY <1>4, <2>3, <3>2
    <3> QED
      BY <3>1, <3>2
  <2> QED
    BY <1>1, <1>2, <1>5, <2>1, <2>2, <2>3
<1>7. CASE StampDone
  BY <1>2, <1>7 DEF StampDone, pastVars
<1>8. CASE \/ LinkChanges \/ ClearNode
           \/ \E n \in Node : SetNode(n)
           \/ \E c \in StampCost : SetStampCost(c)
           \/ UploadRouterStep \/ UploadTick \/ UNCHANGED allUploadVars
  <2>1. UNCHANGED <<stamper, uploads>>
    BY <1>8 DEF LinkChanges, ClearNode, SetNode, SetStampCost,
                UploadRouterStep, UploadTick, allUploadVars, uploadVars,
                stampVars, pastVars
  <2> QED
    BY <1>1, <2>1
<1> QED
  BY <1>6, <1>7, <1>8 DEF UploadNext

LEMMA SearchInvariance == UploadSafeSpec => []SearchInv
<1>1. UploadInit => SearchInv
  BY DEF UploadInit, SearchInv, StampedUnlessSearchFailed, Unstamped, Idle
<1>2. UploadInv /\ UploadInv' /\ SearchInv /\ [UploadNext]_allUploadVars
          => SearchInv'
  <2> SUFFICES ASSUME UploadInv, UploadInv', SearchInv,
                      [UploadNext]_allUploadVars
               PROVE  SearchInv'
    OBVIOUS
  <2>1. /\ UploadTypeOK /\ SlotSound /\ TypeOK /\ UploadTypeOK'
        /\ [Next]_vars
    BY UploadTypes, StepIsQueueStep DEF UploadInv
  <2>2. \A x \in Msg : attempts[x] <= attempts'[x] /\ attempts[x] \in Nat
                       /\ attempts'[x] \in Nat
    <3>1. attempts \in [Msg -> Nat] /\ attempts' \in [Msg -> Nat]
      BY <2>1, NextType, ConstantsAssumption DEF TypeOK
    <3>2. \A x \in Msg : attempts[x] <= attempts'[x]
      <4>1. CASE UNCHANGED vars
        BY <3>1, <4>1 DEF vars
      <4>2. CASE Next
        BY <2>1, <4>2, TransmissionStep
      <4> QED
        BY <2>1, <4>1, <4>2
    <3> QED
      BY <3>1, <3>2
  <2>3. /\ stamper.stamp \in Stamp \cup {NoStamp}
        /\ \A u \in uploads : u.took.stamp \in Stamp \cup {NoStamp}
        /\ \A s \in Stamp : /\ s # NoStamp /\ s.of.msg \in Msg
                            /\ s.of.attempt \in Nat
    BY <2>1, UploadAssumption
       DEF UploadTypeOK, Upload, Slot, Stamp, Ciphertext
  <2>4. ASSUME NEW s \in Stamp \cup {NoStamp}, OrderCounted(s)
        PROVE  s # NoStamp /\ s.of.attempt <= attempts'[s.of.msg]
    BY <2>2, <2>3, <2>4 DEF OrderCounted
  <2>5. /\ StampedUnlessSearchFailed
        /\ \A u \in Unstamped : OrderCounted(u.took.stamp)
        /\ stamper.stamp # NoStamp =>
               /\ OrderCounted(stamper.stamp)
               /\ \A u \in Unstamped : u.took.stamp # stamper.stamp
        /\ SearchMayFail \/ (stamper.status # "DONE_FAIL" /\ Unstamped = {})
    BY DEF SearchInv
  <2>6. \A u \in Unstamped : u \in uploads
    BY DEF Unstamped
  <2>7. \A u \in Unstamped :
            /\ u.took.stamp # NoStamp
            /\ u.took.stamp.of.attempt <= attempts'[u.took.stamp.of.msg]
    BY <2>3, <2>4, <2>5, <2>6
  <2>8. CASE /\ uploads' = uploads
             /\ stamper'.stamp \in {stamper.stamp, NoStamp}
             /\ \/ SearchMayFail
                \/ stamper'.status = "DONE_FAIL" => stamper.status = "DONE_FAIL"
    <3>1. Unstamped' = Unstamped
      BY <2>8 DEF Unstamped
    <3>2. StampedUnlessSearchFailed'
      BY <2>5, <3>1 DEF StampedUnlessSearchFailed
    <3>3. \A u \in Unstamped' : OrderCounted(u.took.stamp)'
      BY <2>7, <3>1 DEF OrderCounted
    <3>4. stamper'.stamp # NoStamp =>
              /\ stamper'.stamp.of.attempt <= attempts'[stamper'.stamp.of.msg]
              /\ \A u \in Unstamped' : u.took.stamp # stamper'.stamp
      BY <2>3, <2>4, <2>5, <2>8, <3>1
    <3>5. SearchMayFail \/ (stamper'.status # "DONE_FAIL" /\ Unstamped' = {})
      BY <2>5, <2>8, <3>1
    <3> QED
      BY <3>2, <3>3, <3>4, <3>5 DEF SearchInv, OrderCounted
  <2>9. CASE /\ uploads' = uploads
             /\ stamper'.status = "RUNNING"
             /\ stamper'.stamp \in Stamp
             /\ \A m \in Msg :
                    m = stamper'.stamp.of.msg =>
                        /\ stamper'.stamp.of.attempt = attempts[m] + 1
                        /\ stamper'.stamp.of.attempt = attempts'[m]
    <3>1. Unstamped' = Unstamped
      BY <2>9 DEF Unstamped
    <3>2. StampedUnlessSearchFailed'
      BY <2>5, <3>1 DEF StampedUnlessSearchFailed
    <3>3. \A u \in Unstamped' : OrderCounted(u.took.stamp)'
      BY <2>7, <3>1 DEF OrderCounted
    <3>4. PICK m \in Msg : m = stamper'.stamp.of.msg
      BY <2>3, <2>9
    <3>5. /\ stamper'.stamp.of.attempt = attempts[m] + 1
          /\ stamper'.stamp.of.attempt <= attempts'[m]
      BY <2>2, <2>9, <3>4
    <3>6. ASSUME NEW u \in Unstamped, u.took.stamp = stamper'.stamp
          PROVE  FALSE
      <4>1. u.took.stamp.of.attempt <= attempts[m]
        BY <2>5, <3>4, <3>6 DEF OrderCounted
      <4> QED
        BY <2>2, <3>5, <3>6, <4>1
    <3>7. SearchMayFail \/ (stamper'.status # "DONE_FAIL" /\ Unstamped' = {})
      BY <2>5, <2>9, <3>1
    <3>8. stamper'.stamp # NoStamp =>
              /\ stamper'.stamp.of.attempt <= attempts'[stamper'.stamp.of.msg]
              /\ \A u \in Unstamped' : u.took.stamp # stamper'.stamp
      BY <3>1, <3>4, <3>5, <3>6
    <3> QED
      BY <3>2, <3>3, <3>7, <3>8 DEF SearchInv, OrderCounted
  <2>10. ASSUME NEW v, uploads' = uploads \cup {v},
                stamper' \in {stamper, Idle},
                v.cost > 0 /\ v.stamp = NoStamp =>
                    /\ v.took = stamper
                    /\ stamper.status = "DONE_FAIL"
                    /\ stamper.stamp # NoStamp
                    /\ stamper' = Idle
         PROVE  SearchInv'
    <3>1. \/ Unstamped' = Unstamped
          \/ /\ Unstamped' = Unstamped \cup {v}
             /\ v.took = stamper /\ stamper.status = "DONE_FAIL"
             /\ stamper.stamp # NoStamp /\ stamper' = Idle
      BY <2>10 DEF Unstamped
    <3>2. \A u \in Unstamped : u.took.status = "DONE_FAIL"
      BY <2>5 DEF StampedUnlessSearchFailed
    <3>3. \A u, w \in Unstamped : u.took = w.took => u = w
      BY <2>5 DEF StampedUnlessSearchFailed
    <3>4. stamper.stamp # NoStamp =>
              /\ stamper.stamp.of.attempt <= attempts'[stamper.stamp.of.msg]
              /\ \A u \in Unstamped : u.took.stamp # stamper.stamp
      BY <2>3, <2>4, <2>5
    <3>5. /\ \A u \in Unstamped' : u.took.status = "DONE_FAIL"
          /\ \A u, w \in Unstamped' : u.took = w.took => u = w
      BY <3>1, <3>2, <3>3, <3>4
    <3>6. \A u \in Unstamped' :
              /\ u.took.stamp # NoStamp
              /\ u.took.stamp.of.attempt <= attempts'[u.took.stamp.of.msg]
      BY <2>7, <3>1, <3>4
    <3>7. stamper'.stamp # NoStamp =>
              /\ stamper'.stamp.of.attempt <= attempts'[stamper'.stamp.of.msg]
              /\ \A u \in Unstamped' : u.took.stamp # stamper'.stamp
      <4>1. Idle.stamp = NoStamp
        BY DEF Idle
      <4> QED
        BY <2>10, <3>1, <3>4, <4>1
    <3>8. SearchMayFail \/ (stamper'.status # "DONE_FAIL" /\ Unstamped' = {})
      <4>1. Idle.status # "DONE_FAIL"
        BY DEF Idle
      <4> QED
        BY <2>5, <2>10, <3>1, <4>1
    <3> QED
      BY <3>5, <3>6, <3>7, <3>8
         DEF SearchInv, OrderCounted, StampedUnlessSearchFailed
  <2> QED
    BY <2>1, <2>8, <2>9, <2>10, SearchStep
<1> QED
  BY <1>1, <1>2, UploadInvariance, PTL DEF UploadSafeSpec

(* A message that needs a stamp and is uploaded without one has been told  *)
(* that a search failed, and no other upload goes by that search.          *)
THEOREM StampsFailWithTheirSearch == UploadSafeSpec => []StampedUnlessSearchFailed
<1>1. SearchInv => StampedUnlessSearchFailed
  BY DEF SearchInv
<1> QED
  BY <1>1, SearchInvariance, PTL

(* Where every search finds a stamp, no message that needs one is uploaded *)
(* without, whenever the worker finishes and whatever the cost is set to.  *)
THEOREM StampsAreThere ==
    ASSUME ~SearchMayFail
    PROVE  UploadSafeSpec => []StampedWhenRequired
<1>1. SearchInv => StampedWhenRequired
  BY DEF SearchInv, StampedWhenRequired
<1> QED
  BY <1>1, SearchInvariance, PTL

(* A link is one to the chosen node.                                       *)
LinkIsNodes == link.status # "NONE" => link.to = node

LEMMA LinkInvariance == UploadSafeSpec => []LinkIsNodes
<1>1. UploadInit => LinkIsNodes
  BY DEF UploadInit, LinkIsNodes, NoLink
<1>2. UploadTypeOK /\ LinkIsNodes /\ [UploadNext]_allUploadVars => LinkIsNodes'
  <2> SUFFICES ASSUME UploadTypeOK, LinkIsNodes, [UploadNext]_allUploadVars
               PROVE  LinkIsNodes'
    OBVIOUS
  <2>1. CASE UNCHANGED <<node, link>>
    BY <2>1 DEF LinkIsNodes
  <2>2. ASSUME NEW m \in Msg, UploadPass(m)
        PROVE  LinkIsNodes'
    <3>1. CASE OpenNodeLink(m)
      BY <3>1 DEF OpenNodeLink, LinkIsNodes
    <3>2. CASE UNCHANGED <<node, link>>
      BY <2>1, <3>2
    <3> QED
      BY <2>2, <3>1, <3>2
         DEF UploadPass, SendPropagated, OtherUploadPass, WaitForNode,
             AwaitNodeLink,
             KickStamp, KickStampTooLate, AwaitStamp, PackAndUpload,
             NotReadyThrows, uploadVars, nodeVars
  <2>3. CASE LinkChanges
    <3>1. PICK status \in NodeLinkStatus :
              /\ <<link.status, status>> \in LinkMoves
              /\ link' = [link EXCEPT !.status = status]
              /\ node' = node
      BY <2>3 DEF LinkChanges
    <3>2. link.status # "NONE"
      BY <3>1 DEF LinkMoves
    <3> QED
      BY <3>1, <3>2 DEF LinkIsNodes, UploadTypeOK
  <2>4. CASE ClearNode \/ \E n \in Node : SetNode(n)
    BY <2>4 DEF ClearNode, SetNode, LinkIsNodes, NoLink
  <2>5. CASE StampDone \/ \E c \in StampCost : SetStampCost(c)
    BY <2>1, <2>5 DEF StampDone, SetStampCost, nodeVars
  <2>6. CASE UploadRouterStep \/ UploadTick \/ UNCHANGED allUploadVars
    BY <2>1, <2>6
       DEF UploadRouterStep, UploadTick, allUploadVars, uploadVars, nodeVars
  <2> QED
    BY <2>2, <2>3, <2>4, <2>5, <2>6 DEF UploadNext
<1> QED
  BY <1>1, <1>2, UploadTypeCorrect, PTL DEF UploadSafeSpec

(* A change of node between two attempts never sends an upload to the      *)
(* former node (set_outbound_propagation_node(), send_propagated()).       *)
THEOREM UploadsReachTheChosenNode == UploadSafeSpec => UploadsGoToTheChosenNode
<1>1. LinkIsNodes /\ [UploadNext]_allUploadVars
          => (uploads' # uploads => link.to = node /\ link.status = "ACTIVE")
  <2> SUFFICES ASSUME LinkIsNodes, [UploadNext]_allUploadVars,
                      uploads' # uploads
               PROVE  link.to = node /\ link.status = "ACTIVE"
    OBVIOUS
  <2>1. PICK m \in Msg : PackAndUpload(m)
    <3>1. ASSUME NEW m \in Msg, UploadPass(m), ~PackAndUpload(m)
          PROVE  UNCHANGED uploads
      BY <3>1 DEF UploadPass, SendPropagated, OtherUploadPass, WaitForNode,
                  OpenNodeLink, AwaitNodeLink, KickStamp, KickStampTooLate,
                  AwaitStamp, NotReadyThrows, uploadVars, pastVars
    <3>2. ASSUME ~\E m \in Msg : UploadPass(m)
          PROVE  UNCHANGED uploads
      BY <3>2 DEF UploadNext, StampDone, LinkChanges, ClearNode, SetNode,
                  SetStampCost, UploadRouterStep, UploadTick, allUploadVars,
                  uploadVars, pastVars
    <3> QED
      BY <3>1, <3>2
  <2>2. link.status = "ACTIVE"
    BY <2>1 DEF PackAndUpload, NodeReady
  <2> QED
    BY <2>2 DEF LinkIsNodes
<1>2. LinkIsNodes /\ [UploadNext]_allUploadVars
          => [uploads' # uploads =>
                  link.to = node /\ link.status = "ACTIVE"]_allUploadVars
  BY <1>1
<1> QED
  BY <1>2, LinkInvariance, PTL DEF UploadSafeSpec, UploadsGoToTheChosenNode
=============================================================================

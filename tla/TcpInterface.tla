---------------------------- MODULE TcpInterface ----------------------------
(***************************************************************************)
(* The TCP interface of the conformance bridge (PosixTCPInterface.cpp),    *)
(* at both ends of one connection: a server that accepts one peer and a    *)
(* client that connects to it.  At each end run the threads that send, the *)
(* reader thread, the worker that drains what the reader has queued, and   *)
(* the thread that stops the interface.  They share _online, _stopping and *)
(* _data_socket without a lock; _write_mutex keeps frames whole and        *)
(* _incoming_mutex guards the queue.                                       *)
(*                                                                         *)
(* The connection carries bytes in order.  It may break at any moment and  *)
(* lose what is on its way.  A descriptor that was closed is not given     *)
(* again to another file.                                                  *)
(***************************************************************************)
EXTENDS HDLC, FiniteSets

CONSTANTS
    Payloads,               \* the packets each end may be given to send
    Thread, EndOf,          \* threads that call send_outgoing(), and where
    MAX_PENDING_INBOUND,
    MAX_DRAIN_PER_TICK

End == {"server", "client"}

Other(e) == IF e = "server" THEN "client" ELSE "server"

ASSUME TcpAssumption ==
    /\ Payloads \in [End -> Seq(Seq(Byte) \ {<<>>})]
    /\ EndOf \in [Thread -> End]
    /\ MAX_PENDING_INBOUND \in Nat \ {0}
    /\ MAX_DRAIN_PER_TICK \in Nat \ {0}

VARIABLES
    online,     \* _online
    stop,       \* _stopping, and how far stop_iface() has come
    listening,  \* the server's _listen_socket
    fd,         \* the connection's descriptor at each end: none, open, shut
    data,       \* whether _data_socket holds it
    reader,     \* where the reader thread is
    buffer,     \* its frame_buffer
    incoming,   \* _incoming
    drained,    \* frames the worker's pass has taken, -1 between passes
    sender,     \* where each sending thread is
    packet,     \* the packet each sending thread was called with
    left,       \* the bytes it still has to send
    given,      \* packets each end has been given to send so far
    wire,       \* bytes each end has sent and the other not yet received
    broken,     \* the connection is
    sent,       \* history: packets sent whole by each end
    handled,    \* history: packets handed to Reticulum at each end
    dropped     \* history: packets dropped by each end's reader

control == <<online, stop, listening, fd, data, reader>>
sending == <<sender, packet, left, given, sent>>
receiving == <<buffer, incoming, drained, handled, dropped>>
tcpVars == <<control, sending, receiving, wire, broken>>

Stopping(e) == stop[e] # "no"

TcpTypeOK ==
    /\ online \in [End -> BOOLEAN]
    /\ stop \in [End -> {"no", "begun", "data", "joining", "done"}]
    /\ listening \in BOOLEAN
    /\ fd \in [End -> {"none", "open", "shut"}]
    /\ data \in [End -> BOOLEAN]
    /\ reader \in [End -> {"none", "accept", "accepted", "attached", "loop",
                           "recv", "ending", "done"}]
    /\ \A e \in End : /\ Len(incoming[e]) <= MAX_PENDING_INBOUND
                      /\ given[e] <= Len(Payloads[e])
    /\ drained \in [End -> -1..MAX_DRAIN_PER_TICK]
    /\ sender \in [Thread -> {"idle", "called", "sending"}]
    /\ broken \in BOOLEAN
    /\ dropped \in [End -> Nat]

TcpInit ==
    /\ online = [e \in End |-> FALSE]
    /\ stop = [e \in End |-> "no"]
    /\ listening = FALSE
    /\ fd = [e \in End |-> "none"]
    /\ data = [e \in End |-> FALSE]
    /\ reader = [e \in End |-> "none"]
    /\ buffer = [e \in End |-> <<>>]
    /\ incoming = [e \in End |-> <<>>]
    /\ drained = [e \in End |-> -1]
    /\ sender = [t \in Thread |-> "idle"]
    /\ packet = [t \in Thread |-> <<>>]
    /\ left = [t \in Thread |-> <<>>]
    /\ given = [e \in End |-> 0]
    /\ wire = [e \in End |-> <<>>]
    /\ broken = FALSE
    /\ sent = [e \in End |-> <<>>]
    /\ handled = [e \in End |-> <<>>]
    /\ dropped = [e \in End |-> 0]

-----------------------------------------------------------------------------
(* start_iface().                                                          *)

StartServer ==
    /\ reader["server"] = "none" /\ ~Stopping("server")
    /\ listening' = TRUE
    /\ reader' = [reader EXCEPT !["server"] = "accept"]
    /\ UNCHANGED <<online, stop, fd, data, sending, receiving, wire, broken>>

(* The connection stands once the kernel at the listening end has it; a    *)
(* client that finds nobody listening does not start.                      *)
StartClient ==
    /\ reader["client"] = "none" /\ ~Stopping("client")
    /\ listening
    /\ fd' = [fd EXCEPT !["client"] = "open"]
    /\ data' = [data EXCEPT !["client"] = TRUE]
    /\ online' = [online EXCEPT !["client"] = TRUE]
    /\ reader' = [reader EXCEPT !["client"] = "loop"]
    /\ UNCHANGED <<stop, listening, sending, receiving, wire, broken>>

-----------------------------------------------------------------------------
(* accept_one(), which goes on as reader_loop().                           *)

Accept ==
    /\ reader["server"] = "accept"
    /\ listening /\ fd["client"] # "none"
    /\ fd' = [fd EXCEPT !["server"] = "open"]
    /\ reader' = [reader EXCEPT !["server"] = "accepted"]
    /\ UNCHANGED <<online, stop, listening, data, sending, receiving, wire,
                   broken>>

AcceptFails ==
    /\ reader["server"] = "accept"
    /\ ~listening
    /\ reader' = [reader EXCEPT !["server"] = "done"]
    /\ UNCHANGED <<online, stop, listening, fd, data, sending, receiving, wire,
                   broken>>

AttachSocket ==
    /\ reader["server"] = "accepted"
    /\ data' = [data EXCEPT !["server"] = TRUE]
    /\ reader' = [reader EXCEPT !["server"] = "attached"]
    /\ UNCHANGED <<online, stop, listening, fd, sending, receiving, wire, broken>>

GoOnline ==
    /\ reader["server"] = "attached"
    /\ online' = [online EXCEPT !["server"] = TRUE]
    /\ reader' = [reader EXCEPT !["server"] = "loop"]
    /\ UNCHANGED <<stop, listening, fd, data, sending, receiving, wire, broken>>

-----------------------------------------------------------------------------
(* reader_loop().                                                          *)

ReaderLoops(e) ==
    /\ reader[e] = "loop"
    /\ reader' = [reader EXCEPT ![e] = IF Stopping(e) \/ ~data[e] THEN "ending"
                                                                  ELSE "recv"]
    /\ UNCHANGED <<online, stop, listening, fd, data, sending, receiving, wire,
                   broken>>

(* The queue when the packets of one recv() have been pushed.  A drain     *)
(* between two of them is one between two shorter recv()s.                 *)
Queued(queue, packets) ==
    LET room == MAX_PENDING_INBOUND - Len(queue)
    IN  queue \o (IF Len(packets) <= room THEN packets
                  ELSE SubSeq(packets, 1, room))

(* A recv() returns what has arrived up to some byte; the packets that     *)
(* completes are queued, or dropped when the queue is full.                *)
Receive(e) ==
    LET from == Other(e)
    IN  /\ reader[e] = "recv" /\ fd[e] = "open"
        /\ \E n \in 1..Len(wire[from]) :
               LET bytes == buffer[e] \o SubSeq(wire[from], 1, n)
                   found == Packets(bytes)
                   queue == Queued(incoming[e], found)
               IN  /\ wire' = [wire EXCEPT ![from] = SubSeq(@, n + 1, Len(@))]
                   /\ buffer' = [buffer EXCEPT ![e] = Rest(bytes)]
                   /\ incoming' = [incoming EXCEPT ![e] = queue]
                   /\ dropped' = [dropped EXCEPT ![e] =
                          @ + Len(incoming[e]) + Len(found) - Len(queue)]
        /\ reader' = [reader EXCEPT ![e] = "loop"]
        /\ UNCHANGED <<online, stop, listening, fd, data, drained, handled,
                       sending, broken>>

(* recv() fails, or finds that no byte will come any more.                 *)
ReceiveEnds(e) ==
    /\ reader[e] = "recv"
    /\ \/ fd[e] = "shut"
       \/ wire[Other(e)] = <<>> /\ (broken \/ fd[Other(e)] = "shut")
    /\ reader' = [reader EXCEPT ![e] = "ending"]
    /\ UNCHANGED <<online, stop, listening, fd, data, sending, receiving, wire,
                   broken>>

(* Mutant: the interface of a reader that has ended stays online.          *)
ReaderEndsOnline(e) ==
    /\ reader[e] = "ending"
    /\ reader' = [reader EXCEPT ![e] = "done"]
    /\ UNCHANGED <<online, stop, listening, fd, data, sending, receiving, wire,
                   broken>>

ReaderEnds(e) ==
    /\ reader[e] = "ending"
    /\ online' = [online EXCEPT ![e] = FALSE]
    /\ reader' = [reader EXCEPT ![e] = "done"]
    /\ UNCHANGED <<stop, listening, fd, data, sending, receiving, wire, broken>>

-----------------------------------------------------------------------------
(* drain_incoming(), called by every pass of the worker.                   *)

(* The worker has been joined before the interfaces are stopped.           *)
DrainBegins(e) ==
    /\ drained[e] = -1
    /\ incoming[e] # <<>> /\ ~Stopping(e)
    /\ drained' = [drained EXCEPT ![e] = 0]
    /\ UNCHANGED <<control, sending, buffer, incoming, handled, dropped, wire,
                   broken>>

DrainOne(e) ==
    /\ drained[e] \in 0..(MAX_DRAIN_PER_TICK - 1)
    /\ incoming[e] # <<>>
    /\ handled' = [handled EXCEPT ![e] = Append(@, Head(incoming[e]))]
    /\ incoming' = [incoming EXCEPT ![e] = Tail(@)]
    /\ drained' = [drained EXCEPT ![e] = @ + 1]
    /\ UNCHANGED <<control, sending, buffer, dropped, wire, broken>>

DrainEnds(e) ==
    /\ drained[e] >= 0
    /\ drained[e] = MAX_DRAIN_PER_TICK \/ incoming[e] = <<>>
    /\ drained' = [drained EXCEPT ![e] = -1]
    /\ UNCHANGED <<control, sending, buffer, incoming, handled, dropped, wire,
                   broken>>

-----------------------------------------------------------------------------
(* send_outgoing().                                                        *)

(* The first test of _online is made without the mutex.                    *)
CallSend(t) ==
    LET e == EndOf[t]
    IN  /\ sender[t] = "idle"
        /\ reader[e] # "none" /\ ~Stopping(e)
        /\ given[e] < Len(Payloads[e])
        /\ given' = [given EXCEPT ![e] = @ + 1]
        /\ IF online[e]
           THEN /\ sender' = [sender EXCEPT ![t] = "called"]
                /\ packet' = [packet EXCEPT ![t] = Payloads[e][given[e] + 1]]
           ELSE UNCHANGED <<sender, packet>>
        /\ UNCHANGED <<control, receiving, left, sent, wire, broken>>

(* Mutant: a thread does not wait for the other to finish its frame.       *)
WriteMutexIgnored(e) == TRUE

(* Whether _write_mutex is free.                                           *)
WriteMutexFree(e) == \A t \in Thread : EndOf[t] = e => sender[t] # "sending"

(* The call is over.                                                       *)
Returns(t) ==
    /\ sender' = [sender EXCEPT ![t] = "idle"]
    /\ packet' = [packet EXCEPT ![t] = <<>>]
    /\ left' = [left EXCEPT ![t] = <<>>]

BeginFrame(t) ==
    LET e == EndOf[t]
    IN  /\ sender[t] = "called"
        /\ WriteMutexFree(e)
        /\ IF data[e]
           THEN /\ sender' = [sender EXCEPT ![t] = "sending"]
                /\ left' = [left EXCEPT ![t] = Frame(packet[t])]
                /\ UNCHANGED packet
           ELSE Returns(t)
        /\ UNCHANGED <<control, receiving, given, sent, wire, broken>>

(* The kernel takes some of the bytes; to a peer that has closed its end   *)
(* they are lost.                                                          *)
SendBytes(t) ==
    LET e == EndOf[t]
    IN  /\ sender[t] = "sending" /\ left[t] # <<>>
        /\ fd[e] = "open" /\ ~broken
        /\ \E n \in 1..Len(left[t]) :
               /\ left' = [left EXCEPT ![t] = SubSeq(@, n + 1, Len(@))]
               /\ wire' = IF fd[Other(e)] = "shut" THEN wire
                          ELSE [wire EXCEPT ![e] = @ \o SubSeq(left[t], 1, n)]
        /\ UNCHANGED <<control, receiving, sender, packet, given, sent, broken>>

EndFrame(t) ==
    /\ sender[t] = "sending" /\ left[t] = <<>>
    /\ sent' = [sent EXCEPT ![EndOf[t]] = Append(@, packet[t])]
    /\ Returns(t)
    /\ UNCHANGED <<control, receiving, given, wire, broken>>

(* send() fails: the frame stays unfinished and the interface, whose       *)
(* reader goes on, never comes online again.                               *)
SendFails(t) ==
    LET e == EndOf[t]
    IN  /\ sender[t] = "sending" /\ left[t] # <<>>
        /\ broken \/ fd[Other(e)] = "shut"
        /\ online' = [online EXCEPT ![e] = FALSE]
        /\ Returns(t)
        /\ UNCHANGED <<stop, listening, fd, data, reader, given, sent,
                       receiving, wire, broken>>

-----------------------------------------------------------------------------
(* stop_iface().  Runtime::shutdown() calls it when neither the worker nor *)
(* a command is in the interface any more.                                 *)

StopBegins(e) ==
    /\ stop[e] = "no" /\ reader[e] # "none"
    /\ drained[e] = -1
    /\ \A t \in Thread : EndOf[t] = e => sender[t] = "idle"
    /\ stop' = [stop EXCEPT ![e] = "begun"]
    /\ online' = [online EXCEPT ![e] = FALSE]
    /\ UNCHANGED <<listening, fd, data, reader, sending, receiving, wire, broken>>

(* Shutting the connection down wakes a reader that waits in recv().       *)
StopData(e) ==
    /\ stop[e] = "begun"
    /\ stop' = [stop EXCEPT ![e] = "data"]
    /\ IF data[e]
       THEN /\ fd' = [fd EXCEPT ![e] = "shut"]
            /\ data' = [data EXCEPT ![e] = FALSE]
            /\ wire' = [wire EXCEPT ![Other(e)] = <<>>]
       ELSE UNCHANGED <<fd, data, wire>>
    /\ UNCHANGED <<online, listening, reader, sending, receiving, broken>>

(* Mutant: the listening socket is closed without waking accept().         *)
StopListenQuietly(e) ==
    /\ stop[e] = "data"
    /\ stop' = [stop EXCEPT ![e] = "joining"]
    /\ UNCHANGED <<online, listening, fd, data, reader, sending, receiving, wire,
                   broken>>

(* The same for accept().  A peer that nobody has accepted loses its       *)
(* connection.                                                             *)
StopListen(e) ==
    /\ stop[e] = "data"
    /\ stop' = [stop EXCEPT ![e] = "joining"]
    /\ IF e = "server"
       THEN /\ listening' = FALSE
            /\ broken' = (broken \/ fd["server"] = "none")
       ELSE UNCHANGED <<listening, broken>>
    /\ UNCHANGED <<online, fd, data, reader, sending, receiving, wire>>

StopJoins(e) ==
    /\ stop[e] = "joining"
    /\ reader[e] = "done"
    /\ stop' = [stop EXCEPT ![e] = "done"]
    /\ UNCHANGED <<online, listening, fd, data, reader, sending, receiving, wire,
                   broken>>

-----------------------------------------------------------------------------
(* The network.  What a reader could still read of a broken connection it  *)
(* may as well have read before.                                           *)

Break ==
    /\ ~broken /\ fd["client"] # "none"
    /\ broken' = TRUE
    /\ wire' = [e \in End |-> <<>>]
    /\ UNCHANGED <<control, sending, receiving>>

(* The server's reader thread begins in accept_one().                      *)
ReaderSteps(e) ==
    \/ ReaderLoops(e) \/ Receive(e) \/ ReceiveEnds(e) \/ ReaderEnds(e)
    \/ e = "server" /\ (Accept \/ AcceptFails \/ AttachSocket \/ GoOnline)

DrainSteps(e) == DrainBegins(e) \/ DrainOne(e) \/ DrainEnds(e)

SendSteps(t) == BeginFrame(t) \/ SendBytes(t) \/ EndFrame(t) \/ SendFails(t)

StopSteps(e) == StopData(e) \/ StopListen(e) \/ StopJoins(e)

TcpNext ==
    \/ StartServer \/ StartClient \/ Break
    \/ \E e \in End : \/ ReaderSteps(e) \/ DrainSteps(e)
                      \/ StopBegins(e) \/ StopSteps(e)
    \/ \E t \in Thread : CallSend(t) \/ SendSteps(t)

(* Threads that can run do; nothing makes an end start, send, stop or lose *)
(* the connection.                                                         *)
TcpSpec ==
    /\ TcpInit /\ [][TcpNext]_tcpVars
    /\ \A e \in End : /\ WF_tcpVars(ReaderSteps(e))
                      /\ WF_tcpVars(DrainSteps(e))
                      /\ WF_tcpVars(StopSteps(e))
    /\ \A t \in Thread : WF_tcpVars(SendSteps(t))

-----------------------------------------------------------------------------
(* What the interface promises.                                            *)

(* The packets among s that are long enough to be read.                    *)
Whole(s) == {i \in DOMAIN s : Packet(s[i])}

Arrived(e) == handled[e] \o incoming[e]

(* The packets that arrive are packets the other end has sent, whole and   *)
(* in the order it sent them, however the stream cuts its bytes and        *)
(* whoever sends at once (HDLC.h, _write_mutex, reader_loop()).  The last  *)
(* one's bytes may be there before its sender knows.                       *)
ArrivedWereSent ==
    \A e \in End :
        LET ending == {t \in Thread : EndOf[t] = Other(e) /\ sender[t] = "sending"}
            all == sent[Other(e)] \o
                       (IF ending = {} THEN <<>>
                        ELSE <<packet[CHOOSE t \in ending : TRUE]>>)
        IN  \E at \in [DOMAIN Arrived(e) -> DOMAIN all] :
                /\ \A i \in DOMAIN at : Arrived(e)[i] = all[at[i]]
                /\ \A i, j \in DOMAIN at : i < j => at[i] < at[j]

(* While the connection stands and no byte is on its way, every packet     *)
(* sent was queued or handled, or dropped because the queue was full       *)
(* (reader_loop(), drain_incoming()).                                      *)
SentAreAccounted ==
    \A e \in End :
        LET from == Other(e)
            quiet == /\ ~broken /\ \A k \in End : fd[k] = "open"
                     /\ wire[from] = <<>>
                     /\ \A t \in Thread :
                            EndOf[t] = from => sender[t] # "sending"
        IN  quiet => Cardinality(Whole(sent[from])) =
                         Len(Arrived(e)) + dropped[e]

(* An interface whose reader thread has ended is offline and stays so,     *)
(* whichever of accept_one(), reader_loop() and stop_iface() came last.    *)
EndedIsOffline ==
    \A e \in End : reader[e] = "done" => ~online[e]

(* stop_iface() returns: the reader it joins is woken wherever it waits.   *)
StopReturns == \A e \in End : stop[e] = "begun" ~> stop[e] = "done"

(* What has been sent is handled or dropped at the other end unless the    *)
(* connection breaks or an end is stopped.                                 *)
SentIsHandled ==
    \A e \in End : \A n \in 1..Len(Payloads[e]) :
        Cardinality(Whole(sent[e])) >= n
            ~> \/ Len(handled[Other(e)]) + dropped[Other(e)] >= n
               \/ broken \/ \E k \in End : Stopping(k)
=============================================================================

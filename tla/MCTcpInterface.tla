--------------------------- MODULE MCTcpInterface ---------------------------
(***************************************************************************)
(* Two threads of the client are given two packets, one that must be       *)
(* escaped and one that looks like what the first is escaped to.  The      *)
(* server has room for one packet.                                         *)
(***************************************************************************)
EXTENDS TcpInterface

CONSTANTS t1, t2

TcpThreads == {t1, t2}
TcpEnds == [t \in TcpThreads |-> "client"]
TcpPayloads == [e \in {"server", "client"} |->
                    IF e = "client"
                    THEN <<<<FLAG, 0>>, <<0, Masked(FLAG)>>>>
                    ELSE <<>>]

(* Framing undoes itself for two packets of up to two bytes in a row, of   *)
(* the bytes it treats specially and those it turns them into, and leaves  *)
(* out those that are too short.                                           *)
Critical == {0, FLAG, ESC, Masked(FLAG), Masked(ESC)}
UpToTwo == UNION {[1..n -> Critical] : n \in 1..2}
ASSUME FramingIsExact ==
    \A d, e \in UpToTwo :
        Packets(Frame(d) \o Frame(e)) = SelectSeq(<<d, e>>, Packet)
=============================================================================
